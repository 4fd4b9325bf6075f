------------------------------ MODULE QueryPath ------------------------------
(* sql_query and sql_execute on one connection: the result cache of          *)
(* src/core/query-cache.ts, the drivers' executeWithRetry with its timeout   *)
(* per attempt, and a server that may answer late, never, or lose the        *)
(* connection before or after it has executed a statement.                   *)
(*                                                                           *)
(* A reader is a client that calls sql_query over and over; a writer calls   *)
(* sql_execute once.  What the database holds is a version number, one more  *)
(* after every write.  Clocks are kept as ages and stop counting where more  *)
(* time makes no difference.  Calls the rate limiter or a guard refuses      *)
(* change nothing and are left out.                                          *)
EXTENDS Integers, Sequences, FiniteSets, SequencesExt

CONSTANTS
  Readers, Writers,
  Keys,          \* what makeCacheKey tells apart: connection, sql and parameters
  Paged,         \* stands for a query with page or limit, which is not cached
  MaxSize,       \* DB_QUERY_CACHE_SIZE, positive: 0 turns the cache off
  Ttl,           \* DB_QUERY_CACHE_TTL_MS
  QueryTimeout,  \* DB_QUERY_TIMEOUT, positive: 0 turns the timeout off
  Attempts       \* DB_RETRY_COUNT + 1

ASSUME QueryAssumption ==
  /\ MaxSize \in Nat \ {0} /\ Ttl \in Nat
  /\ QueryTimeout \in Nat \ {0} /\ Attempts \in Nat \ {0}
  /\ Paged \notin Keys /\ Readers \cap Writers = {}

VARIABLES
  call,     \* per client: where its call is, its key, attempt, and the age of the attempt
  wire,     \* the clients whose statement the server has not executed
  reply,    \* per client: what the server sent back for the running attempt
  db,       \* the version the database holds
  cache,    \* the keys of QueryCache.cache in the Map's order
  entry,    \* per cached key: the version it holds and how long ago it was set
  verdict,  \* what each sql_execute was told
  applied,  \* history: how often each writer's statement was executed
  ended     \* history: how long ago each earlier version was superseded

server == <<db, applied, ended>>
caching == <<cache, entry>>
vars == <<call, wire, reply, server, caching, verdict>>

Clients == Readers \cup Writers
Queries == Keys \cup {Paged}
Idle == [at |-> "idle", key |-> Paged, attempt |-> 0, age |-> 0]
NoReply == [kind |-> "none", data |-> 0]

\* Data as old as this or older is too old, however much older.
Horizon == Ttl + QueryTimeout + 1

Init ==
  /\ call = [c \in Clients |-> Idle]
  /\ wire = {}
  /\ reply = [c \in Clients |-> NoReply]
  /\ db = 0 /\ applied = [w \in Writers |-> 0] /\ ended = << >>
  /\ cache = << >> /\ entry = << >>
  /\ verdict = [w \in Writers |-> "none"]

\* How long ago a version was superseded; 0 for the current one.
Staleness(version) == IF version = db THEN 0 ELSE ended[version + 1]

\* Attempt i of a client's call goes to the server.
Send(c, k, i) ==
  /\ call' = [call EXCEPT ![c] = [at |-> "waiting", key |-> k, attempt |-> i, age |-> 0]]
  /\ wire' = wire \cup {c}
  /\ reply' = [reply EXCEPT ![c] = NoReply]

-----------------------------------------------------------------------------
(* QueryCache.                                                               *)

Usable(k) == k \in ToSet(cache) /\ entry[k].age <= Ttl

\* Faulty variant: get stores the entry anew instead of moving it.
HitRenews(k) == [entry EXCEPT ![k].age = 0]

HitKeeps(k) == entry

\* What set leaves of the keys before it adds its own: a full cache drops the first.
RoomMade == IF Len(cache) >= MaxSize THEN Tail(cache) ELSE cache

\* Map.set leaves a key that is present where it is.
Placed(k, keys) == IF k \in ToSet(keys) THEN keys ELSE Append(keys, k)

Store(k, version) ==
  /\ cache' = Placed(k, RoomMade)
  /\ entry' = [i \in ToSet(cache') |->
                 IF i = k THEN [data |-> version, age |-> 0] ELSE entry[i]]

-----------------------------------------------------------------------------
(* sql_query and sql_execute.                                                *)

Hit(c, k) ==
  /\ call[c].at = "idle"
  /\ Usable(k)
  /\ cache' = Append(RemoveFirst(cache, k), k)
  /\ entry' = HitKeeps(k)
  /\ UNCHANGED <<call, wire, reply, server, verdict>>

\* An entry that is found expired is deleted.
Miss(c, k) ==
  /\ call[c].at = "idle"
  /\ ~Usable(k)
  /\ cache' = RemoveFirst(cache, k)
  /\ entry' = [i \in ToSet(cache') |-> entry[i]]
  /\ Send(c, k, 1)
  /\ UNCHANGED <<server, verdict>>

Execute(w) ==
  /\ call[w].at = "idle" /\ verdict[w] = "none"
  /\ Send(w, Paged, 1)
  /\ UNCHANGED <<server, caching, verdict>>

\* Only the attempts of a read are repeated, and only after an error with a
\* retriable code.  Faulty variant: whatever the mode.
RetriableInAnyMode(c) == reply[c].kind = "lost"
Retriable(c) == c \in Readers /\ reply[c].kind = "lost"

Told(c, word) == verdict' = IF c \in Writers THEN [verdict EXCEPT ![c] = word] ELSE verdict

\* The driver's promise resolves: the tool caches the rows and answers.
Deliver(c) ==
  /\ reply[c].kind = "done"
  /\ call' = [call EXCEPT ![c] = Idle] /\ reply' = [reply EXCEPT ![c] = NoReply]
  /\ Told(c, "done")
  /\ IF call[c].key \in Keys THEN Store(call[c].key, reply[c].data) ELSE UNCHANGED caching
  /\ UNCHANGED <<wire, server>>

\* It rejects: the driver sleeps and tries again, or the tool answers the error.
Reject(c) ==
  /\ reply[c].kind \in {"lost", "refused"}
  /\ reply' = [reply EXCEPT ![c] = NoReply]
  /\ IF Retriable(c) /\ call[c].attempt < Attempts
     THEN /\ call' = [call EXCEPT ![c].at = "sleeping", ![c].age = 0]
          /\ UNCHANGED verdict
     ELSE /\ call' = [call EXCEPT ![c] = Idle]
          /\ Told(c, reply[c].kind)
  /\ UNCHANGED <<wire, server, caching>>

Retry(c) ==
  /\ call[c].at = "sleeping"
  /\ Send(c, call[c].key, call[c].attempt + 1)
  /\ UNCHANGED <<server, caching, verdict>>

\* Faulty variant: only the first attempt is given a timer.
DueOnce(c) == call[c].age >= QueryTimeout /\ call[c].attempt = 1

Due(c) == call[c].age >= QueryTimeout

\* withTimeout stops waiting and cancels nothing: a write may still be executed,
\* and the rows of an abandoned read are seen by nobody.
Timeout(c) ==
  /\ call[c].at = "waiting" /\ Due(c)
  /\ call' = [call EXCEPT ![c] = Idle] /\ reply' = [reply EXCEPT ![c] = NoReply]
  /\ wire' = wire \ (Readers \cap {c})
  /\ Told(c, "timeout")
  /\ UNCHANGED <<server, caching>>

-----------------------------------------------------------------------------
(* The server and the clock.                                                 *)

Reply(kind) == [kind |-> kind, data |-> IF kind = "done" THEN db ELSE 0]

Replied(c, kind) ==
  reply' = IF call[c].at = "waiting" THEN [reply EXCEPT ![c] = Reply(kind)]
           ELSE reply

\* The statement is executed; its answer arrives, or the connection breaks first.
Executed(c) ==
  /\ c \in wire /\ wire' = wire \ {c}
  /\ \E kind \in {"done", "lost"} : Replied(c, kind)
  /\ IF c \in Writers
     THEN /\ db' = db + 1 /\ ended' = Append(ended, 0)
          /\ applied' = [applied EXCEPT ![c] = @ + 1]
     ELSE UNCHANGED server
  /\ UNCHANGED <<call, caching, verdict>>

\* It is not: the server refuses it or the connection breaks before.
NotExecuted(c) ==
  /\ c \in wire /\ wire' = wire \ {c}
  /\ \E kind \in {"refused", "lost"} : Replied(c, kind)
  /\ UNCHANGED <<call, server, caching, verdict>>

Older(age, limit) == IF age < limit THEN age + 1 ELSE age

\* A timer that is due fires before the clock is read again.
Tick ==
  /\ \A c \in Clients : call[c].at = "waiting" => call[c].age < QueryTimeout
  /\ call' = [c \in Clients |->
                IF call[c].at = "waiting" THEN [call[c] EXCEPT !.age = @ + 1] ELSE call[c]]
  /\ entry' = [k \in DOMAIN entry |-> [entry[k] EXCEPT !.age = Older(@, Ttl + 1)]]
  /\ ended' = [v \in DOMAIN ended |-> Older(ended[v], Horizon)]
  /\ UNCHANGED <<wire, reply, db, applied, cache, verdict>>

Next ==
  \/ \E c \in Readers, k \in Keys : Hit(c, k)
  \/ \E c \in Readers, k \in Queries : Miss(c, k)
  \/ \E w \in Writers : Execute(w)
  \/ \E c \in Clients : Deliver(c) \/ Reject(c) \/ Retry(c) \/ Timeout(c)
  \/ \E c \in Clients : Executed(c) \/ NotExecuted(c)
  \/ Tick

\* The event loop runs what is ready and timers fire; the server owes nothing.
Fairness ==
  /\ \A c \in Clients : WF_vars(Deliver(c) \/ Reject(c)) /\ WF_vars(Retry(c)) /\ WF_vars(Timeout(c))
  /\ WF_vars(Tick)

Spec == Init /\ [][Next]_vars
FairSpec == Spec /\ Fairness

-----------------------------------------------------------------------------
(* Properties.                                                               *)

\* What sql_execute answers is what happened: done means executed exactly once,
\* refused means never, and a lost connection or a timeout, which leave it open,
\* never let a retry execute it a second time.
WritesAsTold ==
  \A w \in Writers :
    /\ applied[w] <= 1
    /\ verdict[w] = "done" => applied[w] = 1
    /\ verdict[w] = "refused" => applied[w] = 0

\* The rows a sql_query is given were current at most one query timeout ago, or one
\* time-to-live more if the cache has them, even if they were read by a slow call
\* that stored them over a newer result.
StalenessBounded ==
  /\ \A c \in Readers : reply[c].kind = "done" => Staleness(reply[c].data) <= QueryTimeout
  /\ \A k \in Keys : Usable(k) => Staleness(entry[k].data) <= Ttl + QueryTimeout

\* Every call is answered, even by a server that never does.
EveryCallAnswered == \A c \in Clients : call[c].at # "idle" ~> call[c].at = "idle"
=============================================================================
