SPECIFICATION Spec
CONSTANTS
  Txs = {t1}
  Faults = {"execute", "lost", "expire"}
  MaxWrites = 3
INVARIANTS
  OnlyCommitPersistsUntilOneFails
  AnswersAreTrue
  SessionsEnd
CHECK_DEADLOCK FALSE
