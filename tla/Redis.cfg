SPECIFICATION Spec
CONSTANTS
  Keys <- MCKeys
  Own <- MCOwn
  Mixed <- MCMixed
  MaxCalls = 2
  MaxCommands = 3
  MaxLosses = 1
INVARIANTS
  RepliesTrue
  ResendsInvisible
PROPERTIES
  GuardsHold
  CallsAnswered
CHECK_DEADLOCK FALSE
