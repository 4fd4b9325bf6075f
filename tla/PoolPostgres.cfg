SPECIFICATION Spec
CONSTANTS
  NoConn = NoConn
  ToolTxs = {t1}
  BatchTxs = {b1, b2}
  Conns = {c1, c2}
  Engine = "postgres"
  Faults = {"begin", "stmt", "commit", "timeout"}
  BatchSize = 1
  MaxStmts = 1
  MaxQueue = 2
PROPERTIES
  ImplementsAtomicStore
CHECK_DEADLOCK FALSE
