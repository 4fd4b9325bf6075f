SPECIFICATION Spec
CONSTANTS
  NoConn = NoConn
  ToolTxs = {}
  BatchTxs = {b1, b2, b3}
  Conns = {c1}
  Engine = "postgres"
  Faults = {"commit"}
  BatchSize = 1
  MaxStmts = 1
  MaxQueue = 2
SYMMETRY Interchangeable
INVARIANTS
  BatchAtomic
CHECK_DEADLOCK FALSE
