SPECIFICATION Spec
CONSTANTS
  Txs = {t1}
  Faults = {"execute"}
  MaxWrites = 2
INVARIANTS
  OnlyCommitPersists
CHECK_DEADLOCK FALSE
