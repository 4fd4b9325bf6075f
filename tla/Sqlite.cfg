SPECIFICATION FairSpec
CONSTANTS
  ToolTxs = {t1, t2}
  BatchTxs = {b1}
  Writers = {w1}
  Faults = {"stmt"}
  BatchSize = 2
  MaxStmts = 1
INVARIANTS
  SoleOwner
  AnswersAreTrue
PROPERTIES
  NeverWedged
  ImplementsAtomicStore
CHECK_DEADLOCK FALSE
