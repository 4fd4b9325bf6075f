SPECIFICATION FairSpec
CONSTANTS
  Conns = {main, replica}
  Default = main
  Pools = {main, replica}
  Strict = {main}
  Signals = {"SIGHUP", "SIGINT", "SIGTERM"}
  Requests = {r1, r2}
  NoSession = NoSession
  Closers = {"SIGINT", "SIGTERM"}
  Faults = {"create", "ping", "start", "close"}
INVARIANTS
  ExitsClosed
  AcceptedCallsHaveConnections
  SessionsClosed
  FailedReloadHarmless
PROPERTIES
  HandlersFinish
CHECK_DEADLOCK FALSE
