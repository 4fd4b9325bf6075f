SPECIFICATION Spec
CONSTANTS
  NoConn = NoConn
  ToolTxs = {t1}
  BatchTxs = {}
  Conns = {c1, c2}
  Engine = "postgres"
  Faults = {"stmt"}
  BatchSize = 1
  MaxStmts = 2
  MaxQueue = 2
SYMMETRY Interchangeable
INVARIANTS
  CommitMakesPermanent
CHECK_DEADLOCK FALSE
