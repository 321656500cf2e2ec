SPECIFICATION OpenSpec
CONSTANTS
  SecondsPerYear = 1
  MintCount = 2
  Feeds = {"base_feed", "alt_feed"}
  Prices = {1, 2}
  N = 1
  MoneyManager = manager
  Delegates = {bot}
  NoDelegate = none
  Active = active
  Closed = closed
  OfferedTerms <- MCBoundaryTerms
  AdminPools <- MCTwoAdminPools
  ScaleUp <- MCScaleUp
  ScaleDown <- MCScaleDown
  InvestorFunds <- MCOneFund
  MarketFunds <- MCOneMarket
  MaxGroups = 1
  MinMMWithdrawPeriod = 1
  MaxU64 = 1000
  MaxTime = 1
INVARIANTS HoldingsRegistered
PROPERTIES TradeLossBounded ClosedOnlyPaysOut ImplementsShareLedger
