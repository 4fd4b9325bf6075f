--------------------------- MODULE LifecycleProofs ---------------------------
(* What TLAPS proves of Lifecycle and the HttpTransport in it, for any       *)
(* connections, requests, signals and faults.                                *)
EXTENDS Lifecycle, FiniteSetTheorems, TLAPS

Stages == {"idle", "reading", "connecting", "gone", "handling", "cut", "over"}
States == {"none", "open", "ending", "closed", "failed"}
PCs == {"idle", "create", "ping", "serving", "discard", "transport", "draining", "closing", "done"}

HttpTypeOK ==
  /\ listening \in {"no", "yes", "closed"}
  /\ request \in [Requests -> [stage : Stages, session : Requests \cup {NoSession}]]
  /\ servers \in [Requests -> {"none", "open", "closed"}]
  /\ sessions \subseteq Requests /\ running \subseteq Requests /\ leftOpen \subseteq Requests
  /\ visited \in [Closers -> SUBSET Requests]

TypeOK ==
  /\ HttpTypeOK
  /\ pc \in [Procs -> PCs]
  /\ reg \in [{"old", "new"} -> [Conns -> States]]
  /\ lent \subseteq Conns
  /\ unsettled \in [Procs -> SUBSET Conns]
  /\ exit \in {"no", "zero", "one", "killed"}

\* Where an open MCP server is known, and that a closer has closed what it visited.
Reachable ==
  /\ listening = "no" => \A r \in Requests : In(r, {"idle"})
  /\ \A r \in Requests : In(r, {"idle", "reading"}) => servers[r] = "none"
  /\ \A r \in Requests : servers[r] = "open" =>
       r \in sessions \cup leftOpen \/ In(r, {"connecting", "gone"})
  /\ \A p \in Closers : \A s \in visited[p] : servers[s] = "closed"
  /\ \A r \in sessions : ~In(r, {"idle", "reading", "connecting", "gone"})
  /\ listening = "closed" => sessions \subseteq leftOpen

\* main serves before anything else happens, and connections are closed after the
\* transport.
Phases ==
  /\ listening = "no" <=> pc["main"] # "serving"
  /\ pc["main"] \in {"create", "ping", "serving", "closing", "done"}
  /\ \A p \in Procs \ {"main"} : pc[p] # "idle" => pc["main"] = "serving"
  /\ pc["main"] = "ping" => reg["old"] = All("open")
  /\ \A p \in Shutdowns : pc[p] = "closing" => HttpClosed

\* What becomes of the old connections: all open until somebody closes them, and one
\* closer alone waits for each that is not closed yet.
Old ==
  /\ pc["main"] = "serving" /\ Closing = {} => reg["old"] = All("open")
  /\ \A p \in Closing : \A c \in Conns : reg["old"][c] \in {"ending", "closed", "failed"}
  /\ \A p \in Procs : Closing = {p} => {c \in Conns : reg["old"][c] = "ending"} \subseteq unsettled[p]
  /\ exit = "zero" => \E p \in Closing : Settled(p)

\* What becomes of the new ones.
New ==
  /\ pc["SIGHUP"] = "discard" => \A c \in Conns : reg["new"][c] # "open"
  /\ pc["SIGHUP"] = "done" =>
       \/ \E c \in Conns : reg["new"][c] = "none"
       \/ \A c \in Conns : reg["new"][c] # "open"

IInv == TypeOK /\ Reachable /\ Phases /\ Old /\ New

-----------------------------------------------------------------------------
(* The transport.                                                            *)

\* A request is accepted and names a session, or none.
LEMMA ArriveStep ==
  ASSUME HttpTypeOK, Reachable, NEW r \in Requests, Arrive(r)
  PROVE  HttpTypeOK' /\ Reachable'
<1> USE HttpAssumption DEF Arrive, In, Goes
<1>1. HttpTypeOK'
  BY DEF HttpTypeOK, Stages
<1>2. Reachable'
  BY DEF HttpTypeOK, Stages, Reachable
<1> QED
  BY <1>1, <1>2

\* It is refused.
LEMMA RefuseStep ==
  ASSUME HttpTypeOK, Reachable, NEW r \in Requests, Refuse(r)
  PROVE  HttpTypeOK' /\ Reachable'
<1> USE HttpAssumption DEF Refuse, In, Goes
<1>1. HttpTypeOK'
  BY DEF HttpTypeOK, Stages
<1>2. Reachable'
  BY DEF HttpTypeOK, Stages, Reachable
<1> QED
  BY <1>1, <1>2

\* It calls a tool of its session.
LEMMA CallStep ==
  ASSUME HttpTypeOK, Reachable, NEW r \in Requests, Call(r)
  PROVE  HttpTypeOK' /\ Reachable'
<1> USE HttpAssumption DEF Call, In, Goes
<1>1. HttpTypeOK'
  BY DEF HttpTypeOK, Stages
<1>2. Reachable'
  BY DEF HttpTypeOK, Stages, Reachable
<1> QED
  BY <1>1, <1>2

\* The tool ends.
LEMMA ToolEndsStep ==
  ASSUME HttpTypeOK, Reachable, NEW r \in Requests, ToolEnds(r)
  PROVE  HttpTypeOK' /\ Reachable'
<1> USE HttpAssumption DEF ToolEnds, In, Goes
<1>1. HttpTypeOK'
  BY DEF HttpTypeOK, Stages
<1>2. Reachable'
  BY DEF HttpTypeOK, Stages, Reachable
<1> QED
  BY <1>1, <1>2

\* It makes a server.
LEMMA ConnectStep ==
  ASSUME HttpTypeOK, Reachable, NEW r \in Requests, Connect(r)
  PROVE  HttpTypeOK' /\ Reachable'
<1> USE HttpAssumption DEF Connect, In, Goes
<1>1. HttpTypeOK'
  BY DEF HttpTypeOK, Stages
<1>2. Reachable'
  BY DEF HttpTypeOK, Stages, Reachable
<1> QED
  BY <1>1, <1>2

\* The server becomes a session, too late if the transport is closed.
LEMMA InitialiseStep ==
  ASSUME HttpTypeOK, Reachable, NEW r \in Requests, Initialise(r)
  PROVE  HttpTypeOK' /\ Reachable'
<1> USE HttpAssumption DEF Initialise, In, Goes
<1>1. HttpTypeOK'
  BY DEF HttpTypeOK, Stages
<1>2. Reachable'
  BY DEF HttpTypeOK, Stages, Reachable
<1> QED
  BY <1>1, <1>2

\* The server is closed again, unless the client has gone.
LEMMA NotInitialisedStep ==
  ASSUME HttpTypeOK, Reachable, NEW r \in Requests, NotInitialised(r)
  PROVE  HttpTypeOK' /\ Reachable'
<1> USE HttpAssumption DEF NotInitialised, In, Goes
<1>1. HttpTypeOK'
  BY DEF HttpTypeOK, Stages
<1>2. Reachable'
  BY DEF HttpTypeOK, Stages, Reachable
<1> QED
  BY <1>1, <1>2

\* The client goes.
LEMMA DisconnectStep ==
  ASSUME HttpTypeOK, Reachable, NEW r \in Requests, Disconnect(r)
  PROVE  HttpTypeOK' /\ Reachable'
<1> USE HttpAssumption DEF Disconnect, In, Goes
<1>1. HttpTypeOK'
  BY DEF HttpTypeOK, Stages
<1>2. Reachable'
  BY DEF HttpTypeOK, Stages, Reachable
<1> QED
  BY <1>1, <1>2

\* close visits a session.
LEMMA CloseSessionStep ==
  ASSUME HttpTypeOK, Reachable, NEW p \in Closers, CloseSession(p)
  PROVE  HttpTypeOK' /\ Reachable'
<1> USE HttpAssumption DEF CloseSession, Unvisited, In, Goes
<1>1. HttpTypeOK'
  BY DEF HttpTypeOK, Stages
<1>2. Reachable'
  BY DEF HttpTypeOK, Stages, Reachable
<1> QED
  BY <1>1, <1>2

\* close has visited every session, forgets them and stops listening.
LEMMA StopListeningStep ==
  ASSUME HttpTypeOK, Reachable, NEW p \in Closers, StopListening(p)
  PROVE  HttpTypeOK' /\ Reachable'
<1> USE HttpAssumption DEF StopListening, Unvisited, In, Goes
<1>1. HttpTypeOK'
  BY DEF HttpTypeOK, Stages
<1>2. Reachable'
  BY DEF HttpTypeOK, Stages, Reachable
<1> QED
  BY <1>1, <1>2

-----------------------------------------------------------------------------
(* The procedures, between which the transport does not move.                *)

\* A registry is made.
LEMMA CreateStep ==
  ASSUME IInv, NEW p \in {"main", "SIGHUP"}, Create(p), UNCHANGED httpVars
  PROVE  IInv'
<1> USE LifecycleAssumption DEF IInv, Alive, httpVars, Procs, Shutdowns, Create, Made
<1>1. TypeOK'
  BY DEF TypeOK, HttpTypeOK, PCs, States, All
<1>2. Reachable'
  BY DEF Reachable, In
<1>3. Phases'
  BY DEF TypeOK, PCs, States, Phases, HttpClosed, In, All
<1>4. Old'
  BY DEF TypeOK, PCs, States, Phases, Old, Closing, Settled, All
<1>5. New'
  BY DEF TypeOK, PCs, States, Phases, New, All
<1> QED
  BY <1>1, <1>2, <1>3, <1>4, <1>5

\* One of its handles cannot be.
LEMMA CreateFailsStep ==
  ASSUME IInv, NEW p \in {"main", "SIGHUP"}, CreateFails(p), UNCHANGED httpVars
  PROVE  IInv'
<1> USE LifecycleAssumption DEF IInv, Alive, httpVars, Procs, Shutdowns, CreateFails, Made
<1>1. TypeOK'
  BY DEF TypeOK, HttpTypeOK, PCs, States, All
<1>2. Reachable'
  BY DEF Reachable, In
<1>3. Phases'
  BY DEF TypeOK, PCs, States, Phases, HttpClosed, In, All
<1>4. Old'
  BY DEF TypeOK, PCs, States, Phases, Old, Closing, Settled, All
<1>5. New'
  BY DEF TypeOK, PCs, States, Phases, New, All
<1> QED
  BY <1>1, <1>2, <1>3, <1>4, <1>5

\* A close settles.
LEMMA ClosedStep ==
  ASSUME IInv, NEW r \in {"old", "new"}, NEW c \in Conns, Closed(r, c), UNCHANGED httpVars
  PROVE  IInv'
<1> USE LifecycleAssumption DEF IInv, Alive, httpVars, Procs, Shutdowns, Closed, Closes, Discards
<1>1. TypeOK'
  BY DEF TypeOK, HttpTypeOK, PCs, States, All
<1>2. Reachable'
  BY DEF Reachable, In
<1>3. Phases'
  BY DEF TypeOK, PCs, States, Phases, HttpClosed, In, All
<1>4. Old'
  BY DEF TypeOK, PCs, States, Phases, Old, Closing, Settled, All
<1>5. New'
  BY DEF TypeOK, PCs, States, Phases, New, All
<1> QED
  BY <1>1, <1>2, <1>3, <1>4, <1>5

\* The start throws.
LEMMA FailStartStep ==
  ASSUME IInv, FailStart, UNCHANGED httpVars
  PROVE  IInv'
<1> USE LifecycleAssumption DEF IInv, Alive, httpVars, Procs, Shutdowns, FailStart
<1>1. TypeOK'
  BY DEF TypeOK, HttpTypeOK, PCs, States, All
<1>2. Reachable'
  BY DEF Reachable, In
<1>3. Phases'
  BY DEF TypeOK, PCs, States, Phases, HttpClosed, In, All
<1>4. Old'
  BY DEF TypeOK, PCs, States, Phases, Old, Closing, Settled, All
<1>5. New'
  BY DEF TypeOK, PCs, States, Phases, New, All
<1> QED
  BY <1>1, <1>2, <1>3, <1>4, <1>5

\* main closes what it made.
LEMMA GiveUpStep ==
  ASSUME IInv, GiveUp, UNCHANGED httpVars
  PROVE  IInv'
<1> USE LifecycleAssumption DEF IInv, Alive, httpVars, Procs, Shutdowns, GiveUp, CloseAll, Ended, WaitsFor
<1>1. TypeOK'
  BY DEF TypeOK, HttpTypeOK, PCs, States, All
<1>2. Reachable'
  BY DEF Reachable, In
<1>3. Phases'
  BY DEF TypeOK, PCs, States, Phases, HttpClosed, In, All
<1>4. Old'
  BY DEF TypeOK, PCs, States, Phases, Old, Closing, Settled, All
<1>5. New'
  BY DEF TypeOK, PCs, States, Phases, New, All
<1> QED
  BY <1>1, <1>2, <1>3, <1>4, <1>5

\* A reload goes ahead and closes the old connections.
LEMMA ReloadStep ==
  ASSUME IInv, Reload, UNCHANGED httpVars
  PROVE  IInv'
<1> USE LifecycleAssumption DEF IInv, Alive, httpVars, Procs, Shutdowns, Reload, CloseAll, Ended, WaitsFor
<1>1. TypeOK'
  BY DEF TypeOK, HttpTypeOK, PCs, States, All
<1>2. Reachable'
  BY DEF Reachable, In
<1>3. Phases'
  BY DEF TypeOK, PCs, States, Phases, HttpClosed, In, All
<1>4. Old'
  BY DEF TypeOK, PCs, States, Phases, Old, Closing, Settled, All
<1>5. New'
  BY DEF TypeOK, PCs, States, Phases, New, All
<1> QED
  BY <1>1, <1>2, <1>3, <1>4, <1>5

\* A reload closes the new ones.
LEMMA KeepOldStep ==
  ASSUME IInv, KeepOld, UNCHANGED httpVars
  PROVE  IInv'
<1> USE LifecycleAssumption DEF IInv, Alive, httpVars, Procs, Shutdowns, KeepOld, CloseAll, Ended, WaitsFor, Discards
<1>1. TypeOK'
  BY DEF TypeOK, HttpTypeOK, PCs, States, All
<1>2. Reachable'
  BY DEF Reachable, In
<1>3. Phases'
  BY DEF TypeOK, PCs, States, Phases, HttpClosed, In, All
<1>4. Old'
  BY DEF TypeOK, PCs, States, Phases, Old, Closing, Settled, All
<1>5. New'
  BY DEF TypeOK, PCs, States, Phases, New, All
<1> QED
  BY <1>1, <1>2, <1>3, <1>4, <1>5

\* It has closed them.
LEMMA KeptOldStep ==
  ASSUME IInv, KeptOld, UNCHANGED httpVars
  PROVE  IInv'
<1> USE LifecycleAssumption DEF IInv, Alive, httpVars, Procs, Shutdowns, KeptOld
<1>1. TypeOK'
  BY DEF TypeOK, HttpTypeOK, PCs, States, All
<1>2. Reachable'
  BY DEF Reachable, In
<1>3. Phases'
  BY DEF TypeOK, PCs, States, Phases, HttpClosed, In, All
<1>4. Old'
  BY DEF TypeOK, PCs, States, Phases, Old, Closing, Settled, All
<1>5. New'
  BY DEF TypeOK, PCs, States, Phases, New, All
<1> QED
  BY <1>1, <1>2, <1>3, <1>4, <1>5

\* A signal is handled, or kills.
LEMMA SignalStep ==
  ASSUME IInv, NEW s \in Signals, Signal(s), UNCHANGED httpVars
  PROVE  IInv'
<1> USE LifecycleAssumption DEF IInv, Alive, httpVars, Procs, Shutdowns, Signal
<1>1. TypeOK'
  BY DEF TypeOK, HttpTypeOK, PCs, States, All
<1>2. Reachable'
  BY DEF Reachable, In
<1>3. Phases'
  BY DEF TypeOK, PCs, States, Phases, HttpClosed, In, All
<1>4. Old'
  BY DEF TypeOK, PCs, States, Phases, Old, Closing, Settled, All
<1>5. New'
  BY DEF TypeOK, PCs, States, Phases, New, All
<1> QED
  BY <1>1, <1>2, <1>3, <1>4, <1>5

\* A shutdown closes the connections after the transport.
LEMMA ShutDownStep ==
  ASSUME IInv, NEW p \in Procs, ShutDown(p), UNCHANGED httpVars
  PROVE  IInv'
<1> USE LifecycleAssumption DEF IInv, Alive, httpVars, Procs, Shutdowns, ShutDown, Drained, CloseAll, Ended, WaitsFor
<1>1. TypeOK'
  BY DEF TypeOK, HttpTypeOK, PCs, States, All
<1>2. Reachable'
  BY DEF Reachable, In
<1>3. Phases'
  BY DEF TypeOK, PCs, States, Phases, HttpClosed, In, All
<1>4. Old'
  BY DEF TypeOK, PCs, States, Phases, Old, Closing, Settled, All
<1>5. New'
  BY DEF TypeOK, PCs, States, Phases, New, All
<1> QED
  BY <1>1, <1>2, <1>3, <1>4, <1>5

\* The process exits once all closes have settled.
LEMMA ExitStep ==
  ASSUME IInv, NEW p \in Procs, Exit(p), UNCHANGED httpVars
  PROVE  IInv'
<1> USE LifecycleAssumption DEF IInv, Alive, httpVars, Procs, Shutdowns, Exit
<1>1. TypeOK'
  BY DEF TypeOK, HttpTypeOK, PCs, States, All
<1>2. Reachable'
  BY DEF Reachable, In
<1>3. Phases'
  BY DEF TypeOK, PCs, States, Phases, HttpClosed, In, All
<1>4. Old'
  BY DEF TypeOK, PCs, States, Phases, Old, Closing, Settled, All
<1>5. New'
  BY DEF TypeOK, PCs, States, Phases, New, All
<1> QED
  BY <1>1, <1>2, <1>3, <1>4, <1>5

\* The timer ends it.
LEMMA ForcedExitStep ==
  ASSUME IInv, NEW p \in Procs, ForcedExit(p), UNCHANGED httpVars
  PROVE  IInv'
<1> USE LifecycleAssumption DEF IInv, Alive, httpVars, Procs, Shutdowns, ForcedExit
<1>1. TypeOK'
  BY DEF TypeOK, HttpTypeOK, PCs, States, All
<1>2. Reachable'
  BY DEF Reachable, In
<1>3. Phases'
  BY DEF TypeOK, PCs, States, Phases, HttpClosed, In, All
<1>4. Old'
  BY DEF TypeOK, PCs, States, Phases, Old, Closing, Settled, All
<1>5. New'
  BY DEF TypeOK, PCs, States, Phases, New, All
<1> QED
  BY <1>1, <1>2, <1>3, <1>4, <1>5

\* A tool takes a pooled connection.
LEMMA LendStep ==
  ASSUME IInv, NEW c \in Conns, Lend(c), UNCHANGED httpVars
  PROVE  IInv'
<1> USE LifecycleAssumption DEF IInv, Alive, httpVars, Procs, Shutdowns, Lend
<1>1. TypeOK'
  BY DEF TypeOK, HttpTypeOK, PCs, States, All
<1>2. Reachable'
  BY DEF Reachable, In
<1>3. Phases'
  BY DEF TypeOK, PCs, States, Phases, HttpClosed, In, All
<1>4. Old'
  BY DEF TypeOK, PCs, States, Phases, Old, Closing, Settled, All
<1>5. New'
  BY DEF TypeOK, PCs, States, Phases, New, All
<1> QED
  BY <1>1, <1>2, <1>3, <1>4, <1>5

\* It gives it back.
LEMMA GiveBackStep ==
  ASSUME IInv, NEW c \in Conns, GiveBack(c), UNCHANGED httpVars
  PROVE  IInv'
<1> USE LifecycleAssumption DEF IInv, Alive, httpVars, Procs, Shutdowns, GiveBack
<1>1. TypeOK'
  BY DEF TypeOK, HttpTypeOK, PCs, States, All
<1>2. Reachable'
  BY DEF Reachable, In
<1>3. Phases'
  BY DEF TypeOK, PCs, States, Phases, HttpClosed, In, All
<1>4. Old'
  BY DEF TypeOK, PCs, States, Phases, Old, Closing, Settled, All
<1>5. New'
  BY DEF TypeOK, PCs, States, Phases, New, All
<1> QED
  BY <1>1, <1>2, <1>3, <1>4, <1>5

-----------------------------------------------------------------------------
(* The steps that the transport is part of.                                  *)

\* main starts the transport.
LEMMA ServeStep ==
  ASSUME IInv, Serve
  PROVE  IInv'
<1> USE LifecycleAssumption DEF IInv, Alive, Serve, Listen, Procs, Shutdowns
<1>1. TypeOK' /\ Reachable'
  BY DEF TypeOK, HttpTypeOK, PCs, Reachable, In
<1>2. Phases'
  BY DEF TypeOK, PCs, Phases
<1>3. Old' /\ New'
  BY DEF TypeOK, PCs, Phases, Old, New, Closing, Settled, All
<1> QED
  BY <1>1, <1>2, <1>3

\* A shutdown closes the transport, step by step.
LEMMA CloseTransportStep ==
  ASSUME IInv, NEW p \in Shutdowns, CloseTransport(p)
  PROVE  IInv'
<1> USE LifecycleAssumption DEF IInv, Alive, CloseTransport, Procs, Shutdowns
<1>1. HttpTypeOK' /\ Reachable'
  BY CloseSessionStep, StopListeningStep DEF TypeOK
<1>2. TypeOK'
  BY <1>1 DEF TypeOK, PCs
<1>3. listening' \in {listening, "closed"} /\ pc["main"] = "serving"
  BY DEF CloseSession, StopListening, Phases, TypeOK
<1>4. HttpClosed => HttpClosed'
  BY <1>3 DEF HttpClosed, CloseSession, StopListening, In, TypeOK, HttpTypeOK
<1>5. Phases'
  BY <1>3, <1>4 DEF TypeOK, HttpTypeOK, PCs, Phases
<1>6. Closing' = Closing
  BY DEF Closing, TypeOK, PCs
<1>7. Old' /\ New'
  BY <1>6 DEF TypeOK, PCs, Phases, Old, New, Settled, All
<1> QED
  BY <1>1, <1>2, <1>5, <1>7

\* Once the transport has closed, no request goes on but one whose client has gone.
LEMMA RequestStep ==
  ASSUME IInv, NEW r \in Requests, HttpStep(r), UNCHANGED lifeVars
  PROVE  IInv'
<1> USE DEF IInv, lifeVars
<1>1. HttpTypeOK' /\ Reachable'
  BY ArriveStep, RefuseStep, CallStep, ToolEndsStep, ConnectStep, InitialiseStep,
     NotInitialisedStep, DisconnectStep DEF TypeOK, HttpStep
<1>2. TypeOK'
  BY <1>1 DEF TypeOK
<1>3. listening' = listening
  BY DEF HttpStep, Arrive, Refuse, Call, ToolEnds, Connect, Initialise, NotInitialised, Disconnect
<1>4. HttpClosed => HttpClosed'
  BY <1>3 DEF HttpClosed, TypeOK, HttpTypeOK, In, Goes,
     HttpStep, Arrive, Refuse, Call, ToolEnds, Connect, Initialise, NotInitialised, Disconnect
<1>5. Phases'
  BY <1>3, <1>4 DEF Phases
<1>6. Old' /\ New'
  BY DEF Old, New, Closing, Settled
<1> QED
  BY <1>1, <1>2, <1>5, <1>6

-----------------------------------------------------------------------------
(* The theorems.                                                             *)

\* The invariant holds at the start.
LEMMA InitInv == Init => IInv
<1> SUFFICES ASSUME Init PROVE IInv
  OBVIOUS
<1> USE LifecycleAssumption DEF Init, HttpInit, Procs, Shutdowns
<1>1. TypeOK
  BY DEF TypeOK, HttpTypeOK, Stages, States, PCs, All
<1>2. Reachable
  BY DEF Reachable, In
<1>3. Phases /\ Old /\ New
  BY DEF Phases, Old, New, Closing
<1> QED
  BY <1>1, <1>2, <1>3 DEF IInv

\* Every step keeps it.
LEMMA StepInv ==
  ASSUME IInv, [Next]_vars
  PROVE  IInv'
<1>1. ASSUME UNCHANGED httpVars,
             \/ \E p \in {"main", "SIGHUP"} : Create(p) \/ CreateFails(p)
             \/ \E r \in {"old", "new"}, c \in Conns : Closed(r, c)
             \/ FailStart \/ GiveUp \/ Reload \/ KeepOld \/ KeptOld
             \/ \E s \in Signals : Signal(s)
             \/ \E p \in Procs : ShutDown(p) \/ Exit(p) \/ ForcedExit(p)
             \/ \E c \in Conns : Lend(c) \/ GiveBack(c)
      PROVE  IInv'
  BY <1>1, CreateStep, CreateFailsStep, ClosedStep, FailStartStep, GiveUpStep, ReloadStep, KeepOldStep,
     KeptOldStep, SignalStep, ShutDownStep, ExitStep, ForcedExitStep, LendStep, GiveBackStep
<1>2. CASE Serve
  BY <1>2, ServeStep
<1>3. CASE \E p \in Shutdowns : CloseTransport(p)
  BY <1>3, CloseTransportStep
<1>4. CASE Alive /\ \E r \in Requests : HttpStep(r) /\ UNCHANGED lifeVars
  BY <1>4, RequestStep
<1>5. CASE UNCHANGED vars
  BY <1>5 DEF vars, lifeVars, httpVars, IInv, TypeOK, HttpTypeOK, Reachable, Phases, HttpClosed, Old,
     Closing, Settled, New, In
<1> QED
  BY <1>1, <1>2, <1>3, <1>4, <1>5 DEF Next

\* The inductive invariant: which MCP servers are known, who closes what after what, and
\* what has become of the connections.
THEOREM LifecycleInvariant == Spec => []IInv
<1>1. IInv /\ [Next]_vars => IInv'
  BY StepInv
<1> QED
  BY InitInv, <1>1, PTL DEF Spec

\* Closing the transport leaves no MCP server open that it could know of.
THEOREM TransportClosesSessions == Spec => []SessionsClosed
<1>1. IInv => SessionsClosed
  BY DEF IInv, Reachable, SessionsClosed, HttpClosed, In
<1> QED
  BY <1>1, LifecycleInvariant, PTL

\* Tool calls that may still be answered have their connections, but for a reload.
THEOREM CallsKeepConnections == Spec => []AcceptedCallsHaveConnections
<1>1. IInv => AcceptedCallsHaveConnections
  <2> SUFFICES ASSUME IInv, listening = "yes" \/ (\E r \in Requests : In(r, {"handling"})),
                      pc["SIGHUP"] # "closing"
               PROVE  reg["old"] = All("open")
    BY DEF AcceptedCallsHaveConnections
  <2>1. listening # "no" /\ ~HttpClosed
    BY DEF IInv, Reachable, HttpClosed, In
  <2>2. pc["main"] = "serving"
    BY <2>1 DEF IInv, TypeOK, HttpTypeOK, Phases
  <2>3. Closing = {}
    BY <2>1, <2>2, LifecycleAssumption DEF IInv, Phases, Closing, Procs, Shutdowns
  <2> QED
    BY <2>2, <2>3 DEF IInv, Old
<1> QED
  BY <1>1, LifecycleInvariant, PTL

\* Success means that every connection was closed, or refused to be, unless two
\* procedures were closing them at the same time.
THEOREM SuccessMeansClosed == Spec => []ExitsClosed
<1>1. IInv => ExitsClosed
  <2> SUFFICES ASSUME IInv, exit = "zero", Cardinality(Closing) = 1, NEW c \in Conns
               PROVE  reg["old"][c] \in {"closed", "failed"}
    BY DEF ExitsClosed
  <2>1. IsFiniteSet(Closing)
    <3>1. IsFiniteSet(Procs)
      <4>1. Procs = ((({} \cup {"main"}) \cup {"SIGHUP"}) \cup {"SIGINT"}) \cup {"SIGTERM"}
        BY DEF Procs
      <4> QED
        BY <4>1, FS_EmptySet, FS_AddElement
    <3> QED
      BY <3>1, FS_Subset DEF Closing
  <2>2. PICK p : Closing = {p}
    BY <2>1, FS_Singleton
  <2>3. p \in Procs /\ p \in Closing
    BY <2>2 DEF Closing
  <2>4. unsettled[p] = {}
    BY <2>2 DEF IInv, Old, Settled
  <2> QED
    BY <2>2, <2>3, <2>4 DEF IInv, Old
<1> QED
  BY <1>1, LifecycleInvariant, PTL

\* A reload that fails leaves the old connections alone and, if all the new ones could be
\* made, none of them open.  What it leaves of a set that could not all be made is not said.
THEOREM FailedReloadIsHarmless == Spec => []FailedReloadHarmless
<1>1. IInv => FailedReloadHarmless
  BY DEF IInv, TypeOK, PCs, Procs, Phases, Old, New, FailedReloadHarmless, Closing
<1> QED
  BY <1>1, LifecycleInvariant, PTL
=============================================================================
