---------------------------- MODULE HttpTransport ----------------------------
(* The HTTP transport of src/transports/http.ts: POST requests that make or  *)
(* use MCP sessions, and the steps of its close, which shutdown takes        *)
(* (Lifecycle).  A request is one client's on one socket; the origin check,  *)
(* authentication and the body are either good or not.                       *)
(*                                                                           *)
(* A session is known by the request that made it.  DELETE is answered 405   *)
(* and nothing looks at lastSeenAt, so only close takes a session away.      *)
EXTENDS Naturals, FiniteSets

CONSTANTS
  Requests,  \* bound: the POST requests
  NoSession, \* in place of a session: the request has no mcp-session-id
  Closers    \* who may close the transport

ASSUME HttpAssumption == NoSession \notin Requests

VARIABLES
  listening, \* of nodeServer: "no", "yes" or "closed"
  request,   \* of each request: its stage and the session it names
  servers,   \* of each request: the MCP server it made, "none", "open" or "closed"
  sessions,  \* the map of sessions
  running,   \* requests whose tool call is under way
  visited,   \* per closer: the sessions its loop has closed
  leftOpen   \* history: servers made too late for close, or for a client that had gone

httpVars == <<listening, request, servers, sessions, running, visited, leftOpen>>

\* Stages: "idle"; "reading": authenticating or receiving the body; "connecting":
\* the new server is being connected or handles the message; "gone": the same, but
\* the client has gone; "handling": waiting for a tool call; "cut": its session was
\* closed under it, and the answer will not be sent; "over".
HttpInit ==
  /\ listening = "no"
  /\ request = [r \in Requests |-> [stage |-> "idle", session |-> NoSession]]
  /\ servers = [r \in Requests |-> "none"]
  /\ sessions = {} /\ running = {} /\ leftOpen = {}
  /\ visited = [p \in Closers |-> {}]

In(r, stages) == request[r].stage \in stages
Goes(r, stage) == request' = [request EXCEPT ![r].stage = stage]

-----------------------------------------------------------------------------
(* Requests.                                                                 *)

\* Clients know the sessions that were initialised for them.
Arrive(r) ==
  /\ listening = "yes" /\ In(r, {"idle"})
  /\ \E s \in sessions \cup {NoSession} : request' = [request EXCEPT ![r] = [stage |-> "reading", session |-> s]]
  /\ UNCHANGED <<listening, servers, sessions, running, visited, leftOpen>>

\* A wrong origin, a wrong key or token, a bad or too long body; or the session is
\* not in the map any more.
Refuse(r) ==
  /\ In(r, {"reading"})
  /\ Goes(r, "over")
  /\ UNCHANGED <<listening, servers, sessions, running, visited, leftOpen>>

\* The session's server runs the tool, also one that close has closed already and
\* not yet forgotten, which has nowhere to send the answer.
Call(r) ==
  /\ In(r, {"reading"}) /\ request[r].session \in sessions
  /\ Goes(r, IF servers[request[r].session] = "open" THEN "handling" ELSE "cut")
  /\ running' = running \cup {r}
  /\ UNCHANGED <<listening, servers, sessions, visited, leftOpen>>

ToolEnds(r) ==
  /\ r \in running
  /\ running' = running \ {r}
  /\ Goes(r, IF In(r, {"handling"}) THEN "over" ELSE request[r].stage)
  /\ UNCHANGED <<listening, servers, sessions, visited, leftOpen>>

Connect(r) ==
  /\ In(r, {"reading"}) /\ request[r].session = NoSession
  /\ Goes(r, "connecting")
  /\ servers' = [servers EXCEPT ![r] = "open"]
  /\ UNCHANGED <<listening, sessions, running, visited, leftOpen>>

\* onsessioninitialized, and the answer to initialize.
Initialise(r) ==
  /\ In(r, {"connecting", "gone"})
  /\ Goes(r, "over")
  /\ sessions' = sessions \cup {r}
  /\ leftOpen' = IF listening = "closed" THEN leftOpen \cup {r} ELSE leftOpen
  /\ UNCHANGED <<listening, servers, running, visited>>

\* Faulty variant: no finally closes the server of a message that was refused.
NotInitialisedForgets(r) ==
  /\ In(r, {"connecting", "gone"})
  /\ Goes(r, "over")
  /\ UNCHANGED <<listening, servers, sessions, running, visited, leftOpen>>

\* Any other message is refused, and the server closed unless the client has gone.
NotInitialised(r) ==
  /\ In(r, {"connecting", "gone"})
  /\ Goes(r, "over")
  /\ IF In(r, {"gone"})
     THEN leftOpen' = leftOpen \cup {r} /\ UNCHANGED servers
     ELSE servers' = [servers EXCEPT ![r] = "closed"] /\ UNCHANGED leftOpen
  /\ UNCHANGED <<listening, sessions, running, visited>>

\* The client goes, or the socket has been silent for requestTimeoutMs.
Disconnect(r) ==
  /\ In(r, {"reading", "connecting", "handling", "cut"})
  /\ Goes(r, IF In(r, {"connecting"}) THEN "gone" ELSE "over")
  /\ UNCHANGED <<listening, servers, sessions, running, visited, leftOpen>>

HttpStep(r) ==
  \/ Arrive(r) \/ Refuse(r) \/ Call(r) \/ ToolEnds(r)
  \/ Connect(r) \/ Initialise(r) \/ NotInitialised(r) \/ Disconnect(r)

-----------------------------------------------------------------------------
(* close, called by p.                                                       *)

Listen == listening' = "yes" /\ UNCHANGED <<request, servers, sessions, running, visited, leftOpen>>

\* The sessions the loop has still to visit: iterating a Map sees later additions.
Unvisited(p) == sessions \ visited[p]

\* closeSession, and the await after it.
CloseSession(p) ==
  \E s \in Unvisited(p) :
    /\ visited' = [visited EXCEPT ![p] = @ \cup {s}]
    /\ servers' = [servers EXCEPT ![s] = "closed"]
    /\ request' = [r \in Requests |->
         IF request[r].session = s /\ In(r, {"handling"}) THEN [request[r] EXCEPT !.stage = "cut"]
         ELSE request[r]]
    /\ UNCHANGED <<listening, sessions, running, leftOpen>>

\* sessions.clear() and nodeServer.close().
StopListening(p) ==
  /\ Unvisited(p) = {}
  /\ sessions' = {} /\ listening' = "closed"
  /\ UNCHANGED <<request, servers, running, visited, leftOpen>>

\* Every socket is closed: nodeServer.close calls back.
HttpClosed ==
  listening = "closed" /\ \A r \in Requests : In(r, {"idle", "gone", "over"})
=============================================================================
