------------------------------ MODULE Lifecycle ------------------------------
(* The life of the server process: src/index.ts (start, SIGHUP reload,       *)
(* SIGINT and SIGTERM shutdown, exits) and the parts of src/bootstrap.ts it  *)
(* runs, each an asynchronous procedure that the others interleave with at   *)
(* its awaits.  The transport is HttpTransport; with stdio there is nothing  *)
(* to close but the one server.                                              *)
(*                                                                           *)
(* A registry is one handle per connection.  Closing a pool of pg waits      *)
(* until no tool holds one of its connections any more.  Telemetry           *)
(* shutdown and alert webhooks, bounded by timeouts of their own, are part   *)
(* of the step before them.                                                  *)
EXTENDS HttpTransport

CONSTANTS
  Conns,     \* the ids in DB_MCP_CONNECTIONS
  Default,   \* the default connection
  Pools,     \* those whose close waits for the connections tools hold
  Strict,    \* those whose driver rejects a second close
  Signals,   \* bound: the signals sent
  Faults     \* bound: what may go wrong

\* "create": a handle cannot be made; "ping": a connection does not answer; "start":
\* the authorization policy or the transport throws; "close": closing one fails.
FaultKinds == {"create", "ping", "start", "close"}

ASSUME LifecycleAssumption ==
  /\ Default \in Conns /\ Pools \subseteq Conns /\ Strict \subseteq Conns
  /\ Signals \subseteq {"SIGHUP", "SIGINT", "SIGTERM"}
  /\ Faults \subseteq FaultKinds
  /\ Closers = {"SIGINT", "SIGTERM"}

Procs == {"main", "SIGHUP", "SIGINT", "SIGTERM"}
Shutdowns == Closers

VARIABLES
  pc,         \* where each procedure is
  reg,        \* the handles of the serving registry, "old", and of a reload's, "new"
  lent,       \* the connections of which a tool holds a pooled one
  unsettled,  \* per procedure: the closes its closeAll is waiting for
  exit        \* "no", the exit code 0 or 1 in words, or "killed"

lifeVars == <<pc, reg, lent, unsettled, exit>>
vars == <<lifeVars, httpVars>>

Alive == exit = "no"
All(state) == [c \in Conns |-> state]

Init ==
  /\ pc = [p \in Procs |-> IF p = "main" THEN "create" ELSE "idle"]
  /\ reg = [r \in {"old", "new"} |-> All("none")]
  /\ lent = {}
  /\ unsettled = [p \in Procs |-> {}]
  /\ HttpInit
  /\ exit = "no"

-----------------------------------------------------------------------------
(* bootstrap.ts.                                                             *)

\* The registry a procedure makes, and the one its closeAll closes.
Made(p) == IF p = "main" THEN "old" ELSE "new"

\* Faulty variant: the wrong one of the two is closed when a reload fails.
DiscardsOld == "old"
Discards == "new"

Closes(p) == IF p = "SIGHUP" /\ pc[p] = "discard" THEN Discards ELSE "old"

Create(p) ==
  /\ Alive /\ pc[p] = "create"
  /\ pc' = [pc EXCEPT ![p] = "ping"]
  /\ reg' = [reg EXCEPT ![Made(p)] = All("open")]
  /\ UNCHANGED <<lent, unsettled, exit>>

\* One handle cannot be made; Promise.all forgets those that could.
CreateFails(p) ==
  /\ "create" \in Faults
  /\ Alive /\ pc[p] = "create"
  /\ \E made \in SUBSET Conns :
       /\ made # Conns
       /\ reg' = [reg EXCEPT ![Made(p)] = [c \in Conns |-> IF c \in made THEN "open" ELSE "none"]]
  /\ pc' = [pc EXCEPT ![p] = "done"]
  /\ exit' = IF p = "main" THEN "one" ELSE exit
  /\ UNCHANGED <<lent, unsettled>>

\* What becomes of a handle whose close is called, and whether that call waits.
Ended(state) == IF state = "open" THEN "ending" ELSE state

WaitsFor(c, state) == state = "open" \/ (state = "ending" /\ c \notin Strict)

\* closeAll: every close is called, then p waits at "at" for all of them.
CloseAll(p, r, at) ==
  /\ pc' = [pc EXCEPT ![p] = at]
  /\ reg' = [reg EXCEPT ![r] = [c \in Conns |-> Ended(@[c])]]
  /\ unsettled' = [unsettled EXCEPT ![p] = {c \in Conns : WaitsFor(c, reg[r][c])}]

\* A handle is closed once nothing is lent, or closing it fails.
Closed(r, c) ==
  /\ Alive /\ reg[r][c] = "ending"
  /\ \/ (r = "old" => c \notin lent) /\ reg' = [reg EXCEPT ![r][c] = "closed"]
     \/ "close" \in Faults /\ reg' = [reg EXCEPT ![r][c] = "failed"]
  /\ unsettled' = [p \in Procs |-> IF Closes(p) = r THEN unsettled[p] \ {c} ELSE unsettled[p]]
  /\ UNCHANGED <<pc, lent, exit>>

\* Faulty variant: Promise.all instead of allSettled stops waiting at a failure.
SettledOrOneFailed(p) ==
  unsettled[p] = {} \/ \E c \in Conns : reg[Closes(p)][c] = "failed"

Settled(p) == unsettled[p] = {}

-----------------------------------------------------------------------------
(* main.                                                                     *)

Pinged(ok) == ok = Conns \/ "ping" \in Faults

\* The default connection answers: the transport is started and signals are
\* handled from now on.
Serve ==
  /\ Alive /\ pc["main"] = "ping"
  /\ \E ok \in SUBSET Conns : Pinged(ok) /\ Default \in ok
  /\ pc' = [pc EXCEPT !["main"] = "serving"]
  /\ Listen
  /\ UNCHANGED <<reg, lent, unsettled, exit>>

\* What throws while it starts ends the process without closing a connection.
FailStart ==
  /\ "start" \in Faults
  /\ Alive /\ pc["main"] = "ping"
  /\ exit' = "one"
  /\ UNCHANGED <<pc, reg, lent, unsettled>>

GiveUp ==
  /\ Alive /\ pc["main"] = "ping"
  /\ \E ok \in SUBSET Conns : Pinged(ok) /\ Default \notin ok
  /\ CloseAll("main", "old", "closing")
  /\ UNCHANGED <<lent, exit>>

-----------------------------------------------------------------------------
(* Signals.                                                                  *)

\* process.once: the first signal of a kind is handled, any other kills.
Signal(s) ==
  /\ Alive
  /\ IF pc["main"] = "serving" /\ pc[s] = "idle"
     THEN /\ pc' = [pc EXCEPT ![s] = IF s = "SIGHUP" THEN "create" ELSE "transport"]
          /\ UNCHANGED exit
     ELSE /\ exit' = "killed"
          /\ UNCHANGED pc
  /\ UNCHANGED <<reg, lent, unsettled>>

Reload ==
  /\ Alive /\ pc["SIGHUP"] = "ping"
  /\ \E ok \in SUBSET Conns : Pinged(ok) /\ Default \in ok
  /\ CloseAll("SIGHUP", "old", "closing")
  /\ UNCHANGED <<lent, exit>>

KeepOld ==
  /\ Alive /\ pc["SIGHUP"] = "ping"
  /\ \E ok \in SUBSET Conns : Pinged(ok) /\ Default \notin ok
  /\ CloseAll("SIGHUP", Discards, "discard")
  /\ UNCHANGED <<lent, exit>>

KeptOld ==
  /\ Alive /\ pc["SIGHUP"] = "discard" /\ Settled("SIGHUP")
  /\ pc' = [pc EXCEPT !["SIGHUP"] = "done"]
  /\ UNCHANGED <<reg, lent, unsettled, exit>>

\* shutdown closes the transport, and waits until that is done, even if another
\* shutdown asked before; that its own request is then rejected is only logged.
CloseTransport(p) ==
  /\ Alive /\ pc[p] = "transport"
  /\ \/ CloseSession(p) /\ UNCHANGED pc
     \/ StopListening(p) /\ pc' = [pc EXCEPT ![p] = "draining"]
  /\ UNCHANGED <<reg, lent, unsettled, exit>>

\* Faulty variant: the connections are closed before the transport.
Undrained(p) == pc[p] = "transport"

Drained(p) == pc[p] = "draining" /\ HttpClosed

ShutDown(p) ==
  /\ Alive /\ p \in Shutdowns /\ Drained(p)
  /\ CloseAll(p, "old", "closing")
  /\ UNCHANGED <<lent, exit>>

Exit(p) ==
  /\ Alive /\ pc[p] = "closing" /\ Settled(p)
  /\ exit' = IF p = "main" THEN "one" ELSE "zero"
  /\ UNCHANGED <<pc, reg, lent, unsettled>>

\* Faulty variant: the timer is started too late to watch the transport.
WatchedOnceDrained(p) == p \in Shutdowns /\ pc[p] = "closing"

Watched(p) == p \in Shutdowns /\ pc[p] # "idle"

\* DB_SHUTDOWN_TIMEOUT_MS after the signal.
ForcedExit(p) ==
  /\ Alive /\ Watched(p)
  /\ exit' = "one"
  /\ UNCHANGED <<pc, reg, lent, unsettled>>

-----------------------------------------------------------------------------
(* Tools: a call takes a pooled connection, and holds it until it, or the    *)
(* transaction it began, ends or the cleanup interval rolls it back.         *)

Lend(c) ==
  /\ Alive /\ running # {} /\ reg["old"][c] = "open"
  /\ c \in Pools \ lent
  /\ lent' = lent \cup {c}
  /\ UNCHANGED <<pc, reg, unsettled, exit>>

GiveBack(c) ==
  /\ Alive /\ c \in lent
  /\ lent' = lent \ {c}
  /\ UNCHANGED <<pc, reg, unsettled, exit>>

Next ==
  \/ /\ \/ \E p \in {"main", "SIGHUP"} : Create(p) \/ CreateFails(p)
        \/ \E r \in {"old", "new"}, c \in Conns : Closed(r, c)
        \/ FailStart \/ GiveUp \/ Reload \/ KeepOld \/ KeptOld
        \/ \E s \in Signals : Signal(s)
        \/ \E p \in Procs : ShutDown(p) \/ Exit(p) \/ ForcedExit(p)
        \/ \E c \in Conns : Lend(c) \/ GiveBack(c)
     /\ UNCHANGED httpVars
  \/ Serve \/ \E p \in Shutdowns : CloseTransport(p)
  \/ Alive /\ \E r \in Requests : HttpStep(r) /\ UNCHANGED lifeVars

Spec == Init /\ [][Next]_vars

\* The procedures go on, pools close, timers fire; that clients let the transport
\* drain is not to be counted on.  The cleanup interval ends every transaction.
Fairness ==
  /\ \A p \in {"main", "SIGHUP"} : WF_lifeVars(Create(p) \/ CreateFails(p))
  /\ \A r \in {"old", "new"}, c \in Conns : WF_lifeVars(Closed(r, c))
  /\ WF_lifeVars(Serve \/ FailStart \/ GiveUp) /\ WF_lifeVars(Reload \/ KeepOld) /\ WF_lifeVars(KeptOld)
  /\ \A p \in Procs : WF_lifeVars(ShutDown(p)) /\ WF_lifeVars(Exit(p)) /\ WF_lifeVars(ForcedExit(p))
  /\ \A c \in Conns : WF_lifeVars(GiveBack(c))

FairSpec == Spec /\ Fairness

-----------------------------------------------------------------------------
(* Properties.                                                               *)

Closing == {p \in Procs : pc[p] = "closing"}

\* The process ends with success only after every connection was closed or refused
\* to be, if no second procedure was closing them at the same time: a pool whose close
\* is under way refuses to be closed again, so the second procedure does not wait for it.
ExitsClosed ==
  exit = "zero" /\ Cardinality(Closing) = 1
    => \A c \in Conns : reg["old"][c] \in {"closed", "failed"}

\* While requests are accepted, or the answer to a tool call is still awaited, no
\* shutdown has taken the connections away; only a reload that goes ahead does.
AcceptedCallsHaveConnections ==
  (listening = "yes" \/ \E r \in Requests : In(r, {"handling"})) /\ pc["SIGHUP"] # "closing"
    => reg["old"] = All("open")

\* When the transport has closed, no MCP server is left open but those that could
\* not be known to close: made after the map was cleared, or for a client that had
\* gone; however sessions are initialised while one or two shutdowns close others.
SessionsClosed ==
  HttpClosed => \A r \in Requests :
    servers[r] = "open" => r \in leftOpen \/ In(r, {"gone"})

\* A reload that fails takes no connection away: the old ones stay as they are unless a
\* shutdown closes them, and the new ones, if all could be made, are closed again.  If
\* one could not be made, Promise.all forgets the others, and they stay open.
FailedReloadHarmless ==
  pc["SIGHUP"] = "done" =>
    /\ Closing = {} => reg["old"] = All("open")
    /\ (\A c \in Conns : reg["new"][c] # "none") => \A c \in Conns : reg["new"][c] # "open"

\* A handled signal has its end: the process exits or the reload gives up, although
\* the transport may never drain and tools hold connections for a while.
HandlersFinish ==
  \A s \in Signals : pc[s] # "idle" ~> (~Alive \/ pc[s] = "done")
=============================================================================
