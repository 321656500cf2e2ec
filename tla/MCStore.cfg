SPECIFICATION StoreSpec
CONSTANTS
  MintCount = 1
  Feeds = {"feed"}
  Prices = {}
  Keys = {a, b, c}
  Default = none
  UpgradeAuthority = a
  Managers = {b, c}
  OfferedLimits <- MCLimits
  OfferedTerms <- MCTerms
  MinMMWithdrawPeriod = 1
  MaxVaults = 2
  Keepers = {k1, k2, k3}
  TsKeepers = {t1}
  Bots = {b1}
  GridBots = {b1}
  Nobody = nobody
  Gone = gone
  LockTtl = 1
  GridPrices = {2, 3, 4}
  StepBps = {0, 5000}
  Clients = {c1, c2, c3}
  Limit = 2
  WindowTicks = 2
  MaxBuckets = 1
  PageLimit = 2
  MaxTxs = 3
  MaxSpans = 1
  MaxFaults = 1
INVARIANTS
  AdminTypeOK NominationIsTheAdmins AdminCanSign VaultsNumbered FeesNeverExceedWhole
  KeeperTypeOK LeaseExclusive
  AtMostTwoWindows NothingMissed
PROPERTIES
  GridMovesAStep LockRecovers RefusalsEnd HistoryIsKept TradesArrive
CHECK_DEADLOCK FALSE
