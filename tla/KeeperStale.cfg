SPECIFICATION Spec
CONSTANTS
  Keepers = {k1}
  TsKeepers = {}
  Bots = {b1}
  GridBots = {}
  Nobody = nobody
  Gone = gone
  LockTtl = 2
  GridPrices = {1}
  StepBps = {200}
PROPERTIES DeletedStaysDeleted
