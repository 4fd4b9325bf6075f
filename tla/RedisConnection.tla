-------------------------- MODULE RedisConnection --------------------------
(* A Redis connection under calls that overlap: the tools of                 *)
(* src/tools/redis.ts, the driver of src/drivers/redis/redis-driver.ts, the  *)
(* ioredis client it configures and the server.                              *)
(*                                                                           *)
(* The client keeps what was sent and not yet answered in order, and what is *)
(* issued while it is not connected behind it: one queue.  A request a       *)
(* connection is lost under is sent again, whether the server ran it or not; *)
(* maxRetriesPerRequest bounds for how many failed attempts it waits.        *)
EXTENDS RedisCommands, SequencesExt

CONSTANTS
  MaxCalls,     \* bound: calls
  MaxCommands,  \* bound: commands of all calls together
  MaxLosses,    \* bound: connections that are lost
  Mixed         \* bound: the commands of which pipelines of two consist

ASSUME RedisBounds == MaxCalls \in Nat /\ MaxCommands \in Nat /\ MaxLosses \in Nat

\* maxRetriesPerRequest
MaxRetries == 2

Calls == 1..MaxCalls

VARIABLES
  readonly,  \* spec.readonly
  status,    \* of the client: "down", "up" or "ended"
  attempts,  \* retryAttempts of the client, modulo MaxRetries + 1
  queue,     \* requests that wait for their replies, each [call, index, done]
  calls,     \* the calls made, in order, each [cmds, results]
  store,     \* the keys at the server
  losses,    \* connections lost so far
  runs,      \* history: how often the server ran each command of each call
  once,      \* history: the keys as they were had every command run the first time only
  resent,    \* history: requests sent again, as <<call, index>>
  listed     \* history: keys that were named in an answer of redis_scan

vars == <<readonly, status, attempts, queue, calls, store, losses, runs, once, resent, listed>>

\* "wrong" is an error the server answers, "failed" one of the client.
Results == {"none", "ok", "wrong", "failed"}

Done == {"no", "ok", "wrong"}

\* Others write too: what a read-only connection finds is of any type.
Found == {Str(0)} \cup {[type |-> t, val |-> <<0>>, ttl |-> FALSE] : t \in {"hash", "list", "set", "zset"}}

Init ==
  /\ readonly \in BOOLEAN
  /\ status = "down" /\ attempts = 0 /\ queue = <<>>
  /\ calls = <<>> /\ runs = <<>> /\ resent = {}
  /\ store \in {[k \in Keys |-> IF k \in Own THEN held ELSE Str(0)] :
                 held \in IF readonly THEN Found ELSE {Nothing}}
  /\ once = store
  /\ losses = 0 /\ listed = {}

-----------------------------------------------------------------------------
(* Calls.  Once sent, a call waits for its replies.                          *)

CommandsSoFar == FoldLeft(LAMBDA n, call : n + Len(call.cmds), 0, calls)

Filled(n, r) == [i \in 1..n |-> r]

\* The call is made.  One that is refused has no commands for the client; the commands
\* of one that is accepted are queued together.
Issue(cmds, accepted) ==
  LET c == Len(calls) + 1
      sent == IF accepted THEN cmds ELSE <<>>
      r == IF status = "ended" THEN "failed" ELSE "none"
  IN  /\ c <= MaxCalls /\ CommandsSoFar + Len(cmds) <= MaxCommands
      /\ calls' = Append(calls, [cmds |-> sent, results |-> Filled(Len(sent), r)])
      /\ runs' = Append(runs, Filled(Len(sent), 0))
      /\ queue' = IF status = "ended" THEN queue
                  ELSE queue \o [i \in 1..Len(sent) |-> [call |-> c, index |-> i, done |-> "no"]]
      /\ UNCHANGED <<readonly, status, attempts, store, losses, once, resent, listed>>

\* One call of a tool that has a command of its own, by the family of its command.
Single(op, k) ==
  LET cmd == [op |-> op, key |-> k, fit |-> TRUE]
  IN  Issue(<<cmd>>, MethodAccepts(cmd, readonly))

StringCall  == \E op \in StringTools, k \in Keys : Single(op, k)
HashCall    == \E op \in HashTools, k \in Keys : Single(op, k)
ListCall    == \E op \in ListTools, k \in Keys : Single(op, k)
SetCall     == \E op \in SetTools, k \in Keys : Single(op, k)
ZsetCall    == \E op \in ZsetTools, k \in Keys : Single(op, k)
KeyCall     == \E op \in KeyTools, k \in Keys : Single(op, k)
KeylessCall == \E op \in KeylessTools : Single(op, "none")

PipelineCall ==
  \E cmds \in [1..1 -> PipelineEntries]
               \cup [1..2 -> {cmd \in PipelineEntries : cmd.op \in Mixed}] :
    Issue(cmds, PipelineAccepts(cmds, readonly))

-----------------------------------------------------------------------------
(* The server runs the requests of a connection in order.                    *)

CommandOf(item) == calls[item.call].cmds[item.index]

\* The place of the oldest request that the server did not run yet.
NextToRun(n) == queue[n].done = "no" /\ \A m \in 1..n - 1 : queue[m].done # "no"

Execute ==
  /\ status = "up"
  /\ \E n \in DOMAIN queue :
       LET item == queue[n]
           cmd  == CommandOf(item)
       IN  /\ NextToRun(n)
           /\ runs' = [runs EXCEPT ![item.call][item.index] = @ + 1]
           /\ IF cmd.op \in KeylessTools
              THEN queue' = [queue EXCEPT ![n].done = "ok"] /\ UNCHANGED <<store, once>>
              ELSE /\ queue' = [queue EXCEPT ![n].done =
                                  IF RightType(cmd.op, store[cmd.key]) THEN "ok" ELSE "wrong"]
                   /\ store' = [store EXCEPT ![cmd.key] = After(cmd.op, item.call, @)]
                   /\ once' = IF runs[item.call][item.index] > 0 THEN once
                              ELSE [once EXCEPT ![cmd.key] = After(cmd.op, item.call, @)]
  /\ UNCHANGED <<readonly, status, attempts, calls, losses, resent, listed>>

\* Faulty variant: the rows of a pipeline's answer are counted from one.
ShiftedResult(results, n, r) ==
  IF n + 1 \in DOMAIN results THEN [results EXCEPT ![n + 1] = r] ELSE [results EXCEPT ![n] = r]

WithResult(results, n, r) == [results EXCEPT ![n] = r]

KeysWithPrefix(named) == named \cap Own

Existing == {k \in Keys : store[k].type # "none"}

\* The reply to the oldest request reaches its call.
Reply ==
  /\ status = "up" /\ queue # <<>> /\ Head(queue).done # "no"
  /\ LET item == Head(queue)
     IN  /\ calls' = [calls EXCEPT ![item.call].results = WithResult(@, item.index, item.done)]
         /\ listed' = IF CommandOf(item).op = "scan" THEN listed \cup KeysWithPrefix(Existing)
                      ELSE listed
  /\ queue' = Tail(queue)
  /\ UNCHANGED <<readonly, status, attempts, store, losses, runs, once, resent>>

-----------------------------------------------------------------------------
(* The client loses its connection and makes new ones.                       *)

\* Every request of these answers an error to its call.
FailAll(items) ==
  calls' = [c \in DOMAIN calls |->
              [calls[c] EXCEPT !.results =
                 [i \in DOMAIN calls[c].results |->
                    IF \E item \in items : item.call = c /\ item.index = i
                    THEN "failed" ELSE calls[c].results[i]]]]

\* What is left of a pipeline the first reply of which has arrived: the oldest n requests.
Orphans(n) ==
  /\ \A m \in 1..n : queue[m].index > 1
  /\ n < Len(queue) => queue[n + 1].index = 1

\* Faulty variant: the newest request is sent first.
NewestFirst(items) == Reverse(items)

SentAgain(items) == items

Lose ==
  /\ status = "up" /\ losses < MaxLosses
  /\ status' = "down" /\ losses' = losses + 1 /\ attempts' = 1
  /\ \E n \in 0..Len(queue) :
       LET kept == SubSeq(queue, n + 1, Len(queue))
       IN  /\ Orphans(n)
           /\ FailAll({queue[m] : m \in 1..n})
           /\ resent' = resent \cup {<<item.call, item.index>> : item \in Range(kept)}
           /\ queue' = SentAgain([m \in DOMAIN kept |-> [kept[m] EXCEPT !.done = "no"]])
  /\ UNCHANGED <<readonly, store, runs, once, listed>>

Connects ==
  /\ status = "down"
  /\ status' = "up" /\ attempts' = 0
  /\ UNCHANGED <<readonly, queue, calls, store, losses, runs, once, resent, listed>>

\* Faulty variant: requests wait for as long as it takes.
NeverGivesUp == FALSE

GivesUp == (attempts + 1) % (MaxRetries + 1) = 0

ConnectFails ==
  /\ status = "down"
  /\ attempts' = (attempts + 1) % (MaxRetries + 1)
  /\ IF GivesUp THEN FailAll(Range(queue)) /\ queue' = <<>> ELSE UNCHANGED <<calls, queue>>
  /\ UNCHANGED <<readonly, status, store, losses, runs, once, resent, listed>>

\* close: the registry drops the connection on reload or shutdown.
Close ==
  /\ status # "ended"
  /\ status' = "ended"
  /\ FailAll(Range(queue)) /\ queue' = <<>>
  /\ UNCHANGED <<readonly, attempts, store, losses, runs, once, resent, listed>>

-----------------------------------------------------------------------------
Call == StringCall \/ HashCall \/ ListCall \/ SetCall \/ ZsetCall \/ KeyCall \/ KeylessCall
          \/ PipelineCall

Next == Call \/ Execute \/ Reply \/ Lose \/ Connects \/ ConnectFails \/ Close

\* The server runs and answers what it got, and the client tries on to connect; that an
\* attempt succeeds is not assumed.
Fairness == WF_vars(Execute) /\ WF_vars(Reply) /\ WF_vars(Connects \/ ConnectFails)

Spec == Init /\ [][Next]_vars /\ Fairness

-----------------------------------------------------------------------------
(* Properties.                                                               *)

\* A connection that is read-only, and a key without the prefix, are never written,
\* whichever tool, pipeline entry or resent request it would be, and redis_scan names
\* no such key.
GuardsHold ==
  /\ [][\A k \in Keys : readonly \/ k \notin Own => store'[k] = store[k]]_vars
  /\ [](listed \subseteq Own)

\* What a call is told of each command is what became of that command, also when the
\* connection broke in the middle of a pipeline: a reply means the server ran it, and
\* it ran more than once only if it was sent again.
RepliesTrue ==
  \A c \in DOMAIN calls : \A i \in DOMAIN runs[c] :
    /\ calls[c].results[i] \in {"ok", "wrong"} => runs[c][i] > 0
    /\ calls[c].results[i] = "ok" /\ runs[c][i] > 1 => <<c, i>> \in resent

\* The commands that add to what is there, or depend on it being there.
NotRepeatable == {"lpush", "rpush", "lpop", "rpop", "expire"}

InOrder(c, i, d, j) == c < d \/ (c = d /\ i < j)

\* Sending requests again shows nowhere but in the commands that are not repeatable: no
\* command first runs before one that was called earlier, unless that one failed; and a
\* key on which none of those was used and all that was called was answered ok holds what
\* it would hold had each command run its first time only.
ResendsInvisible ==
  /\ \A c, d \in DOMAIN calls : \A i \in DOMAIN runs[c], j \in DOMAIN runs[d] :
       InOrder(c, i, d, j) /\ runs[d][j] > 0 => runs[c][i] > 0 \/ calls[c].results[i] = "failed"
  /\ \A k \in Own :
       (\A c \in DOMAIN calls : \A i \in DOMAIN calls[c].cmds :
          calls[c].cmds[i].key = k => /\ calls[c].cmds[i].op \notin NotRepeatable
                                      /\ calls[c].results[i] = "ok")
         => store[k] = once[k]

\* Every call is answered, even if the server never comes back.
CallsAnswered ==
  \A c \in Calls :
    c \in DOMAIN calls ~> (c \in DOMAIN calls /\ \A i \in DOMAIN calls[c].results :
                                                    calls[c].results[i] # "none")
=============================================================================
