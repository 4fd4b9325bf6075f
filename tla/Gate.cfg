SPECIFICATION GateSpec
CONSTANTS
  main = main
  replica = replica
  docs = docs
  phone = phone
  badge = badge
  Nothing = Nothing
  NoPolicy = NoPolicy
  Conns = {main, replica, docs}
  Default = replica
  Keys = {main, replica, docs}
  Subjects <- MCSubjects
  Engine <- MCEngine
  ReadonlyConns <- MCReadonly
  Builtin <- MCBuiltin
  Custom = {badge}
  Intents <- MCIntents
  Started = {"loose", "strict"}
  MaxCalls = 3
  MaxPerSecond = 1
  IdleTtl = 1000
  Delays = {900, 2000}
  MaxNow = 2000
INVARIANTS
  RateBound
  AnswersAsForOneself
  ModesMaskTogether
  NoChangeBeyondIntent
  ReadonlyHolds
PROPERTIES
  ImplementsTokenBucket
  AddingRuleNeverUnmasks
CHECK_DEADLOCK FALSE
