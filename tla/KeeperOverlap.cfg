SPECIFICATION Spec
CONSTANTS
  Keepers = {k1, k2}
  TsKeepers = {}
  Bots = {b1}
  GridBots = {}
  Nobody = nobody
  Gone = gone
  LockTtl = 2
  GridPrices = {1}
  StepBps = {200}
INVARIANTS NoConcurrentTrading
