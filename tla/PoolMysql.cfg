SPECIFICATION Spec
CONSTANTS
  NoConn = NoConn
  ToolTxs = {t1, t2}
  BatchTxs = {b1}
  Conns = {c1}
  Engine = "mysql"
  Faults = {"stmt", "deadlock", "commit", "timeout", "begin"}
  BatchSize = 2
  MaxStmts = 1
  MaxQueue = 2
SYMMETRY Interchangeable
INVARIANTS
  TypeOK
  LeaseExclusive
  CleanHandout
  Isolated
  Conserved
  ConnectionsReturn
  AnswersAreTrue
PROPERTIES
  OnlyOwnCommitPersists
CHECK_DEADLOCK FALSE
