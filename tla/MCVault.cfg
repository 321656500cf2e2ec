SPECIFICATION TradingSpec
CONSTANTS
  SecondsPerYear = 1
  MintCount = 2
  Feeds = {"base_feed", "alt_feed"}
  Prices = {1, 2}
  N = 2
  MoneyManager = manager
  Delegates = {bot}
  NoDelegate = none
  Active = active
  Closed = closed
  OfferedTerms <- MCTerms
  AdminPools <- MCAdminPools
  ScaleUp <- MCScaleUp
  ScaleDown <- MCScaleDown
  InvestorFunds <- MCFunds
  MarketFunds <- MCOneMarket
  MaxGroups = 2
  MinMMWithdrawPeriod = 1
  MaxU64 = 1000
  MaxTime = 2
INVARIANTS TypeOK SharesConserved NoBasisWithoutShares RaiseIsUntouched FeeClock
PROPERTIES CostBasisNeverDiluted HoldingsPerShareNeverFall PerformanceFeeWithinGain FeeAccruesOnce
