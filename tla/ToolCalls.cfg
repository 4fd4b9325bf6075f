SPECIFICATION CallsSpec
CONSTANTS
  Calls = {c1, c2, c3}
  pg = pg
  my = my
  mongo = mongo
  Conns = {pg, my, mongo}
  Default = pg
  NoConnection = none
  Operations <- SomeOperations
  CachedTools = {"sql_query"}
  MaxSize = 4
  Records <- Entries
  MaxPushes = 6
  Cooldown = 2
  AlertTimeout = 1
  SlowTime = 1
  MinCalls = 1
  Threshold = 50
  MaxTime = 1
INVARIANTS
  RingTellsNewest
  AuditTells
  MetricsMatch
  AlertsSpaced
  StormReported
CHECK_DEADLOCK FALSE
SYMMETRY CallSymmetry
