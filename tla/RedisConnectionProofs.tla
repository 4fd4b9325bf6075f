----------------------- MODULE RedisConnectionProofs -----------------------
(* Proofs about RedisConnection, for any keys, any number of calls and any   *)
(* number of lost connections: what is told of a command is what became of   *)
(* it, no write passes the guards, and a request that is sent again shows in *)
(* no key on which only repeatable commands were used.                       *)
EXTENDS RedisConnection, TLAPS

-----------------------------------------------------------------------------
(* The inductive invariant.                                                  *)

\* What a call may have sent.
Permitted ==
  {cmd \in [op : KeyedTools \cup KeylessTools, key : Keys \cup {"none"}, fit : BOOLEAN] :
     \/ cmd.op \in KeylessTools
     \/ cmd.key \in Own /\ (readonly => cmd.op \notin GuardedMethods)}

Made == [cmds : Seq(Permitted), results : Seq(Results)]
Request == [call : Nat, index : Nat, done : Done]

CallsTyped ==
  /\ calls \in Seq(Made) /\ runs \in Seq(Seq(Nat))
  /\ Len(runs) = Len(calls)
  /\ \A c \in DOMAIN calls : /\ Len(calls[c].results) = Len(calls[c].cmds)
                             /\ Len(runs[c]) = Len(calls[c].cmds)

QueueTyped ==
  /\ queue \in Seq(Request)
  /\ \A n \in DOMAIN queue : /\ queue[n].call \in DOMAIN calls
                             /\ queue[n].index \in DOMAIN calls[queue[n].call].cmds

Same(item, other) == item.call = other.call /\ item.index = other.index

\* No request waits twice.
Distinct == \A m, n \in DOMAIN queue : Same(queue[m], queue[n]) => m = n

\* What waits was not answered yet; it ran if it has a reply, and ran before only if it
\* was sent again.
Waits(item) ==
  /\ calls[item.call].results[item.index] = "none"
  /\ item.done # "no" => runs[item.call][item.index] > 0
  /\ item.done = "no" => runs[item.call][item.index] = 0 \/ <<item.call, item.index>> \in resent

Waiting == \A n \in DOMAIN queue : Waits(queue[n])

\* What was answered, or ran more than once.
Told(c, i) ==
  /\ calls[c].results[i] \in {"ok", "wrong"} => runs[c][i] > 0
  /\ runs[c][i] > 1 => <<c, i>> \in resent

AllTold == \A c \in DOMAIN calls : \A i \in DOMAIN calls[c].cmds : Told(c, i)

Inv ==
  /\ readonly \in BOOLEAN /\ listed \subseteq Own
  /\ store = [k \in Keys |-> store[k]] /\ once = [k \in Keys |-> once[k]]
  /\ CallsTyped /\ QueueTyped /\ Distinct /\ Waiting /\ AllTold

\* At the start nothing was called.
LEMMA InitInv == Init => Inv
<1> SUFFICES ASSUME Init PROVE Inv
  OBVIOUS
<1>1. /\ calls = <<>> /\ runs = <<>> /\ queue = <<>> /\ readonly \in BOOLEAN /\ listed = {}
      /\ store = [k \in Keys |-> store[k]] /\ once = store
  BY DEF Init
<1> QED BY <1>1 DEF Inv, CallsTyped, QueueTyped, Distinct, Waiting, AllTold

-----------------------------------------------------------------------------
(* What the steps do to the queue and to what is told.                       *)

Is(item, c, i) == item.call = c /\ item.index = i

\* A call was made: its requests are queued behind what waits, or the client has ended.
Calling ==
  /\ UNCHANGED <<status, store, once>>
  /\ \A c \in DOMAIN calls : c \in DOMAIN calls' /\ calls'[c] = calls[c] /\ runs'[c] = runs[c]
  /\ \A c \in DOMAIN calls' \ DOMAIN calls :
       /\ \A d \in DOMAIN calls : d < c
       /\ \A i \in DOMAIN calls'[c].cmds :
            /\ runs'[c][i] = 0
            /\ IF status = "ended" THEN calls'[c].results[i] = "failed"
               ELSE \E n \in DOMAIN queue' : Is(queue'[n], c, i)
  /\ \A n \in DOMAIN queue : n \in DOMAIN queue' /\ queue'[n] = queue[n]
  /\ \A n \in DOMAIN queue' \ DOMAIN queue :
       /\ status # "ended" /\ \A m \in DOMAIN queue : m < n
       /\ queue'[n].call \in DOMAIN calls' \ DOMAIN calls /\ queue'[n].done = "no"
       /\ queue'[n].index \in DOMAIN calls'[queue'[n].call].cmds
       /\ \A m \in DOMAIN queue' \ DOMAIN queue :
            m < n => queue'[m].call = queue'[n].call /\ queue'[m].index < queue'[n].index

\* The server ran the request at place n.
Running(n) ==
  LET item == queue[n]
      cmd  == CommandOf(item)
  IN  /\ UNCHANGED <<status, calls>> /\ NextToRun(n)
      /\ DOMAIN queue' = DOMAIN queue /\ Same(queue'[n], item)
      /\ queue'[n].done \in {"ok", "wrong"}
      /\ \A m \in DOMAIN queue : m # n => queue'[m] = queue[m]
      /\ runs'[item.call][item.index] = runs[item.call][item.index] + 1
      /\ \A c \in DOMAIN calls : \A i \in DOMAIN calls[c].cmds :
           ~Is(item, c, i) => runs'[c][i] = runs[c][i]
      /\ \A k \in Keys : IF k # cmd.key THEN store'[k] = store[k] /\ once'[k] = once[k]
           ELSE /\ queue'[n].done = IF RightType(cmd.op, store[k]) THEN "ok" ELSE "wrong"
                /\ store'[k] = After(cmd.op, item.call, store[k])
                /\ once'[k] = IF runs[item.call][item.index] > 0 THEN once[k]
                              ELSE After(cmd.op, item.call, once[k])

\* The oldest k requests were answered; what else waits, waits on, perhaps to be sent again.
Dropping(k) ==
  /\ UNCHANGED <<runs, store, once>>
  /\ status' = "ended" => status = "ended" \/ k = Len(queue)
  /\ DOMAIN calls' = DOMAIN calls /\ \A c \in DOMAIN calls : calls'[c].cmds = calls[c].cmds
  /\ DOMAIN queue' = 1..Len(queue) - k
  /\ \A n \in DOMAIN queue' : Same(queue'[n], queue[n + k])
  /\ \/ \A n \in DOMAIN queue' : queue'[n].done = queue[n + k].done
     \/ \A n \in DOMAIN queue' : queue'[n].done = "no"
  /\ \A n \in 1..k : \/ calls'[queue[n].call].results[queue[n].index] = "failed"
                     \/ /\ queue[n].done # "no"
                        /\ calls'[queue[n].call].results[queue[n].index] = queue[n].done
  /\ \A c \in DOMAIN calls : \A i \in DOMAIN calls[c].cmds :
       (\A n \in 1..k : ~Is(queue[n], c, i)) => calls'[c].results[i] = calls[c].results[i]

-----------------------------------------------------------------------------
(* A call is made.                                                           *)

\* What the guards let through.
LEMMA MethodPermits ==
  ASSUME NEW op \in KeyedTools \cup KeylessTools, NEW k \in Keys \cup {"none"},
         NEW cmd, cmd = [op |-> op, key |-> k, fit |-> TRUE], MethodAccepts(cmd, readonly)
  PROVE  <<cmd>> \in Seq(Permitted)
<1>1. cmd \in Permitted
  BY DEF MethodAccepts, HasPrefix, Permitted
<1> QED BY <1>1

\* The commands of a pipeline that is accepted are all permitted.
LEMMA PipelinePermits ==
  ASSUME NEW n \in Nat, NEW cmds \in [1..n -> PipelineEntries], PipelineAccepts(cmds, readonly)
  PROVE  cmds \in Seq(Permitted)
<1>1. ASSUME NEW i \in 1..n PROVE cmds[i] \in Permitted
  <2>1. PICK cmd : cmd = cmds[i]
    OBVIOUS
  <2>2. cmd.op \in KeyedTools /\ EntryFits(cmd, readonly)
    BY <2>1 DEF PipelineAccepts, Parses, AllowedInPipeline
  <2>3. GuardedMethods = PipelineWriteCommands
    BY DEF GuardedMethods, PipelineWriteCommands, StringWrites, HashWrites, ListWrites, SetWrites,
           ZsetWrites, KeyWrites
  <2>4. cmd.key \in Keys /\ cmd.fit \in BOOLEAN /\ cmd = [op |-> cmd.op, key |-> cmd.key, fit |-> cmd.fit]
    BY <2>1 DEF PipelineEntries
  <2> QED BY <2>1, <2>2, <2>3, <2>4 DEF EntryFits, HasPrefix, Permitted
<1> QED BY <1>1

\* What replacing an element, dropping the first ones and appending do to a sequence.
LEMMA Replaced ==
  ASSUME NEW S, NEW s \in Seq(S), NEW i \in DOMAIN s, NEW x \in S, NEW t, t = [s EXCEPT ![i] = x]
  PROVE  /\ t \in Seq(S) /\ Len(t) = Len(s) /\ t[i] = x
         /\ \A j \in DOMAIN s : j # i => t[j] = s[j]
OBVIOUS

\* What is left of a sequence.
LEMMA Rest ==
  ASSUME NEW S, NEW s \in Seq(S), NEW k \in 0..Len(s), NEW t, t = SubSeq(s, k + 1, Len(s))
  PROVE  /\ t \in Seq(S) /\ Len(t) = Len(s) - k /\ DOMAIN t = 1..Len(s) - k
         /\ \A n \in 1..Len(s) - k : t[n] = s[n + k]
OBVIOUS

\* What two sequences are together.
LEMMA Concat ==
  ASSUME NEW S, NEW s \in Seq(S), NEW t \in Seq(S)
  PROVE  /\ s \o t \in Seq(S) /\ Len(s \o t) = Len(s) + Len(t)
         /\ \A n \in 1..Len(s) : (s \o t)[n] = s[n]
         /\ \A n \in Len(s) + 1..Len(s) + Len(t) : (s \o t)[n] = t[n - Len(s)]
OBVIOUS

\* The commands of a call are queued behind what waits.
LEMMA IssueStep ==
  ASSUME Inv, NEW cmds, NEW accepted, Issue(cmds, accepted),
         accepted => cmds \in Seq(Permitted)
  PROVE  Inv' /\ Calling
<1>0. PICK c : c = Len(calls) + 1
  OBVIOUS
<1>1. PICK sent : sent = IF accepted THEN cmds ELSE <<>>
  OBVIOUS
<1>2. PICK r : r = IF status = "ended" THEN "failed" ELSE "none"
  OBVIOUS
<1>3. PICK new : new = [i \in 1..Len(sent) |-> [call |-> c, index |-> i, done |-> "no"]]
  OBVIOUS
<1>4. /\ calls' = Append(calls, [cmds |-> sent, results |-> Filled(Len(sent), r)])
      /\ runs' = Append(runs, Filled(Len(sent), 0))
      /\ queue' = IF status = "ended" THEN queue ELSE queue \o new
      /\ UNCHANGED <<readonly, status, store, once, resent, listed>>
  BY <1>0, <1>1, <1>2, <1>3 DEF Issue
<1>5. sent \in Seq(Permitted) /\ Len(sent) \in Nat /\ DOMAIN sent = 1..Len(sent)
  BY <1>1
<1>6. /\ calls \in Seq(Made) /\ Len(calls) \in Nat /\ runs \in Seq(Seq(Nat)) /\ Len(runs) = Len(calls)
      /\ queue \in Seq(Request) /\ c \in Nat /\ c \in 1..c
  BY <1>0 DEF Inv, CallsTyped, QueueTyped
<1>7. Permitted' = Permitted /\ Made' = Made
  BY <1>4 DEF Permitted, Made
<1>8. /\ Filled(Len(sent), r) \in Seq(Results) /\ Len(Filled(Len(sent), r)) = Len(sent)
      /\ \A i \in 1..Len(sent) : Filled(Len(sent), r)[i] = r
  BY <1>2, <1>5 DEF Filled, Results
<1>9. /\ Filled(Len(sent), 0) \in Seq(Nat) /\ Len(Filled(Len(sent), 0)) = Len(sent)
      /\ \A i \in 1..Len(sent) : Filled(Len(sent), 0)[i] = 0
  BY <1>5 DEF Filled
<1>10. PICK made : made = [cmds |-> sent, results |-> Filled(Len(sent), r)]
  OBVIOUS
<1>11. made \in Made /\ made.cmds = sent /\ made.results = Filled(Len(sent), r)
  BY <1>5, <1>8, <1>10 DEF Made
<1>12. /\ calls' \in Seq(Made) /\ Len(calls') = c /\ DOMAIN calls' = 1..c
       /\ calls'[c] = made /\ \A d \in DOMAIN calls : d \in 1..c /\ d # c /\ calls'[d] = calls[d]
  BY <1>0, <1>4, <1>6, <1>10, <1>11
<1>13. /\ runs' \in Seq(Seq(Nat)) /\ Len(runs') = c
       /\ runs'[c] = Filled(Len(sent), 0) /\ \A d \in DOMAIN calls : runs'[d] = runs[d]
  BY <1>0, <1>4, <1>6, <1>9
<1>14. \A d \in 1..c : d = c \/ d \in DOMAIN calls
  BY <1>0, <1>6
<1>15. CallsTyped'
  BY <1>7, <1>8, <1>9, <1>11, <1>12, <1>13, <1>14 DEF CallsTyped, Inv
<1>16. AllTold'
  <2>1. ASSUME NEW d \in DOMAIN calls, NEW i \in DOMAIN calls[d].cmds PROVE Told(d, i)'
    BY <1>4, <1>12, <1>13 DEF Told, AllTold, Inv
  <2>2. ASSUME NEW i \in DOMAIN sent PROVE Told(c, i)'
    <3>1. calls'[c].results[i] = r /\ runs'[c][i] = 0
      BY <1>5, <1>8, <1>9, <1>11, <1>12, <1>13
    <3>2. r \notin {"ok", "wrong"} /\ ~(0 > 1)
      BY <1>2
    <3> QED BY <3>1, <3>2 DEF Told
  <2> QED BY <1>11, <1>12, <1>14, <2>1, <2>2 DEF AllTold
<1>17. ASSUME NEW n \in DOMAIN queue, NEW item, item = queue[n]
       PROVE  /\ item.call \in DOMAIN calls /\ item.call # c
              /\ item.index \in DOMAIN calls[item.call].cmds
              /\ Waits(item)'
  <2>1. item.call \in DOMAIN calls /\ item.index \in DOMAIN calls[item.call].cmds /\ Waits(item)
    BY <1>17 DEF Inv, QueueTyped, Waiting
  <2> QED BY <1>4, <1>12, <1>13, <2>1 DEF Waits
<1>20. DOMAIN calls' \ DOMAIN calls = {c} /\ \A d \in DOMAIN calls : d < c
  <2>1. DOMAIN calls = 1..Len(calls)
    BY ONLY <1>6
  <2> QED BY ONLY <1>0, <1>6, <1>12, <2>1
<1>21. ASSUME NEW i \in DOMAIN calls'[c].cmds
       PROVE  runs'[c][i] = 0 /\ calls'[c].results[i] = r /\ i \in 1..Len(sent)
  <2>1. i \in 1..Len(sent)
    BY ONLY <1>5, <1>11, <1>12, <1>21
  <2> QED BY ONLY <1>8, <1>9, <1>11, <1>12, <1>13, <2>1
<1>18. CASE status = "ended"
  <2>1. queue' = queue
    BY <1>4, <1>18
  <2>3. Calling
    <3>1. r = "failed" /\ status' = status /\ store' = store /\ once' = once
      BY <1>2, <1>4, <1>18
    <3> QED BY ONLY <1>12, <1>13, <1>18, <1>20, <1>21, <2>1, <3>1 DEF Calling
  <2>2. QueueTyped' /\ Distinct' /\ Waiting'
    BY <1>12, <1>17, <2>1 DEF Inv, QueueTyped, Distinct, Same, Waiting
  <2> QED BY <1>4, <1>15, <1>16, <2>2, <2>3 DEF Inv
<1>19. CASE status # "ended"
  <2>1. new \in Seq(Request) /\ Len(new) = Len(sent)
          /\ \A i \in 1..Len(sent) : new[i] = [call |-> c, index |-> i, done |-> "no"]
    BY <1>3, <1>5, <1>6 DEF Request, Done
  <2>2. queue' = queue \o new
    BY <1>4, <1>19
  <2>3. /\ queue' \in Seq(Request)
        /\ \A n \in DOMAIN queue' :
             \/ n \in DOMAIN queue /\ queue'[n] = queue[n]
             \/ n \notin DOMAIN queue /\ n - Len(queue) \in 1..Len(sent)
                  /\ queue'[n] = [call |-> c, index |-> n - Len(queue), done |-> "no"]
    <3>1. /\ queue' \in Seq(Request) /\ Len(queue') = Len(queue) + Len(new)
          /\ \A n \in 1..Len(queue) : queue'[n] = queue[n]
          /\ \A n \in Len(queue) + 1..Len(queue) + Len(new) : queue'[n] = new[n - Len(queue)]
      <4>1. queue \in Seq(Request) /\ new \in Seq(Request)
        BY <1>6, <2>1
      <4> QED BY ONLY <2>2, <4>1, Concat
    <3>2. DOMAIN queue = 1..Len(queue) /\ DOMAIN queue' = 1..Len(queue') /\ Len(queue) \in Nat
      BY <1>6, <3>1
    <3>3. ASSUME NEW n \in DOMAIN queue', n \notin DOMAIN queue
          PROVE  n - Len(queue) \in 1..Len(sent) /\ n \in Len(queue) + 1..Len(queue) + Len(new)
      BY <1>5, <2>1, <3>1, <3>2, <3>3
    <3> QED BY <2>1, <3>1, <3>2, <3>3
  <2>4. ASSUME NEW i \in 1..Len(sent), NEW item, item = [call |-> c, index |-> i, done |-> "no"]
        PROVE  /\ item.call = c /\ item.index = i /\ item.call \in DOMAIN calls'
               /\ item.index \in DOMAIN calls'[item.call].cmds /\ Waits(item)'
    <3>1. item.call = c /\ item.index = i /\ item.done = "no"
      BY <2>4
    <3>2. r = "none"
      BY <1>2, <1>19
    <3>3. calls'[c].results[i] = "none" /\ runs'[c][i] = 0
      BY <1>8, <1>9, <1>11, <1>12, <1>13, <3>2
    <3>4. c \in DOMAIN calls' /\ i \in DOMAIN calls'[c].cmds
      BY <1>5, <1>6, <1>11, <1>12
    <3> QED BY <3>1, <3>3, <3>4 DEF Waits
  <2>5. ASSUME NEW n \in DOMAIN queue', NEW item, item = queue'[n]
        PROVE  /\ item.call \in DOMAIN calls' /\ Waits(item)'
               /\ item.index \in DOMAIN calls'[item.call].cmds
    <3>1. CASE n \in DOMAIN queue /\ queue'[n] = queue[n]
      BY <1>12, <1>17, <2>5, <3>1
    <3>2. CASE n - Len(queue) \in 1..Len(sent)
                 /\ queue'[n] = [call |-> c, index |-> n - Len(queue), done |-> "no"]
      BY <2>4, <2>5, <3>2
    <3> QED BY <2>3, <3>1, <3>2
  <2>6. ASSUME NEW m \in DOMAIN queue', NEW n \in DOMAIN queue', Same(queue'[m], queue'[n])
        PROVE  m = n
    <3>1. CASE m \in DOMAIN queue /\ queue'[m] = queue[m]
      <4>1. n \in DOMAIN queue /\ queue'[n] = queue[n]
        BY <1>17, <2>3, <2>4, <2>6, <3>1 DEF Same
      <4> QED BY <2>6, <3>1, <4>1 DEF Inv, Distinct
    <3>2. CASE m \notin DOMAIN queue /\ m - Len(queue) \in 1..Len(sent)
                 /\ queue'[m] = [call |-> c, index |-> m - Len(queue), done |-> "no"]
      <4>1. /\ n - Len(queue) \in 1..Len(sent)
            /\ queue'[n] = [call |-> c, index |-> n - Len(queue), done |-> "no"]
        BY <1>17, <2>3, <2>4, <2>6, <3>2 DEF Same
      <4>2. m - Len(queue) = n - Len(queue)
        BY <2>6, <3>2, <4>1 DEF Same
      <4> QED BY <1>6, <2>3, <4>2
    <3> QED BY <2>3, <3>1, <3>2
  <2>7. QueueTyped' /\ Waiting' /\ Distinct'
    BY <2>3, <2>5, <2>6 DEF QueueTyped, Waiting, Distinct
  <2>8. ASSUME NEW n \in DOMAIN queue' \ DOMAIN queue
        PROVE  /\ \A m \in DOMAIN queue : m < n
               /\ queue'[n].call = c /\ queue'[n].index = n - Len(queue) /\ queue'[n].done = "no"
               /\ queue'[n].index \in DOMAIN calls'[c].cmds /\ n \in Nat
    <3>1. n - Len(queue) \in 1..Len(sent) /\ n \in Nat /\ Len(queue) \in Nat /\ DOMAIN queue = 1..Len(queue)
      BY ONLY <1>6, <2>3, <2>8
    <3>2. queue'[n] = [call |-> c, index |-> n - Len(queue), done |-> "no"]
      BY ONLY <2>3, <2>8
    <3>3. \A m \in DOMAIN queue : m < n
      BY ONLY <1>5, <3>1
    <3> QED BY ONLY <1>5, <1>11, <1>12, <3>1, <3>2, <3>3
  <2>9. \A n \in DOMAIN queue : n \in DOMAIN queue' /\ queue'[n] = queue[n]
    <3>1. /\ Len(queue') = Len(queue) + Len(new)
          /\ \A n \in 1..Len(queue) : queue'[n] = queue[n]
      <4>1. queue \in Seq(Request) /\ new \in Seq(Request)
        BY <1>6, <2>1
      <4> QED BY ONLY <2>2, <4>1, Concat
    <3>2. DOMAIN queue = 1..Len(queue) /\ DOMAIN queue' = 1..Len(queue')
      BY ONLY <1>6, <2>3
    <3> QED BY ONLY <1>5, <1>6, <2>1, <3>1, <3>2
  <2>10. ASSUME NEW i \in DOMAIN calls'[c].cmds PROVE \E n \in DOMAIN queue' : Is(queue'[n], c, i)
    <3>1. PICK n : n = Len(queue) + i
      OBVIOUS
    <3>2. /\ Len(queue') = Len(queue) + Len(new)
          /\ \A m \in Len(queue) + 1..Len(queue) + Len(new) : queue'[m] = new[m - Len(queue)]
      <4>1. queue \in Seq(Request) /\ new \in Seq(Request)
        BY <1>6, <2>1
      <4> QED BY ONLY <2>2, <4>1, Concat
    <3>3. i \in 1..Len(sent)
      BY <1>21
    <3>4. /\ DOMAIN queue' = 1..Len(queue') /\ n \in Len(queue) + 1..Len(queue) + Len(new)
          /\ n \in 1..Len(queue') /\ n - Len(queue) = i
      BY ONLY <1>5, <1>6, <2>1, <2>3, <3>1, <3>2, <3>3
    <3>5. queue'[n] = [call |-> c, index |-> i, done |-> "no"]
      BY ONLY <2>1, <3>2, <3>3, <3>4
    <3> QED BY <3>4, <3>5 DEF Is
  <2>11. Calling
    <3>1. \A m, n \in DOMAIN queue' \ DOMAIN queue :
            m < n => queue'[m].call = queue'[n].call /\ queue'[m].index < queue'[n].index
      BY ONLY <1>6, <2>8
    <3>2. UNCHANGED <<status, store, once>>
      BY ONLY <1>4
    <3> QED BY ONLY <1>12, <1>13, <1>19, <1>20, <1>21, <2>8, <2>9, <2>10, <3>1, <3>2 DEF Calling
  <2> QED BY <1>4, <1>15, <1>16, <2>7, <2>11 DEF Inv
<1> QED BY <1>18, <1>19

\* Every call of a tool keeps the invariant.
LEMMA CallStep == ASSUME Inv, Call PROVE Inv' /\ Calling
<1>1. ASSUME NEW op \in KeyedTools \cup KeylessTools, NEW k \in Keys \cup {"none"}, Single(op, k)
      PROVE  Inv' /\ Calling
  <2>1. PICK cmd : cmd = [op |-> op, key |-> k, fit |-> TRUE]
    OBVIOUS
  <2>2. Issue(<<cmd>>, MethodAccepts(cmd, readonly))
    BY <1>1, <2>1 DEF Single
  <2>3. MethodAccepts(cmd, readonly) => <<cmd>> \in Seq(Permitted)
    BY <2>1, MethodPermits
  <2> QED BY <2>2, <2>3, IssueStep
<1>2. CASE PipelineCall
  <2>1. PICK cmds \in [1..1 -> PipelineEntries]
                       \cup [1..2 -> {cmd \in PipelineEntries : cmd.op \in Mixed}] :
          Issue(cmds, PipelineAccepts(cmds, readonly))
    BY <1>2 DEF PipelineCall
  <2>2. PICK n \in {1, 2} : cmds \in [1..n -> PipelineEntries]
    BY <2>1
  <2>3. PipelineAccepts(cmds, readonly) => cmds \in Seq(Permitted)
    BY <2>2, PipelinePermits
  <2> QED BY <2>1, <2>3, IssueStep
<1> QED BY <1>1, <1>2 DEF Call, StringCall, HashCall, ListCall, SetCall, ZsetCall, KeyCall, KeylessCall,
           KeyedTools, KeylessTools

-----------------------------------------------------------------------------
(* The server runs a request.                                                *)

\* What the server does with a request, told apart by nothing but the key it names: scan and
\* ping change no key.
LEMMA KeylessChangesNothing ==
  ASSUME NEW op \in KeylessTools, NEW c, NEW held
  PROVE  RightType(op, held) /\ After(op, c, held) = held
<1>1. op \in {"scan", "ping"}
  BY DEF KeylessTools
<1>2. TypeWanted(op) = "any"
  BY <1>1 DEF TypeWanted, HashTools, ListTools, SetTools, ZsetTools
<1> QED BY <1>1, <1>2 DEF RightType, After

\* A request runs and is the only one that changes.
LEMMA ExecuteStep == ASSUME Inv, Execute PROVE Inv' /\ \E n \in DOMAIN queue : Running(n)
<1>1. PICK n \in DOMAIN queue :
        LET item == queue[n]
            cmd  == CommandOf(item)
        IN  /\ NextToRun(n)
            /\ runs' = [runs EXCEPT ![item.call][item.index] = @ + 1]
            /\ IF cmd.op \in KeylessTools
               THEN queue' = [queue EXCEPT ![n].done = "ok"] /\ UNCHANGED <<store, once>>
               ELSE /\ queue' = [queue EXCEPT ![n].done =
                                   IF RightType(cmd.op, store[cmd.key]) THEN "ok" ELSE "wrong"]
                    /\ store' = [store EXCEPT ![cmd.key] = After(cmd.op, item.call, @)]
                    /\ once' = IF runs[item.call][item.index] > 0 THEN once
                               ELSE [once EXCEPT ![cmd.key] = After(cmd.op, item.call, @)]
  BY DEF Execute
<1>2. UNCHANGED <<readonly, status, attempts, calls, losses, resent, listed>>
  BY DEF Execute
<1>3. PICK item : item = queue[n]
  OBVIOUS
<1>3a. PICK cmd : cmd = CommandOf(item)
  OBVIOUS
<1>4. PICK d \in {"ok", "wrong"} :
        /\ queue' = [queue EXCEPT ![n].done = d]
        /\ d = IF cmd.op \in KeylessTools \/ RightType(cmd.op, store[cmd.key]) THEN "ok" ELSE "wrong"
  BY <1>1, <1>3, <1>3a
<1>5. PICK new : new = [item EXCEPT !.done = d]
  OBVIOUS
<1>6. /\ item \in Request /\ item.call \in DOMAIN calls /\ item.index \in DOMAIN calls[item.call].cmds
      /\ item.done = "no" /\ Waits(item)
  BY <1>1, <1>3 DEF Inv, QueueTyped, Waiting, NextToRun
<1>7. new \in Request /\ new.done = d /\ Same(new, item)
  BY <1>5, <1>6 DEF Request, Done, Same
<1>8. /\ queue' \in Seq(Request) /\ DOMAIN queue' = DOMAIN queue /\ queue'[n] = new
      /\ \A m \in DOMAIN queue : m # n => queue'[m] = queue[m]
  BY <1>3, <1>4, <1>5, <1>7 DEF Inv, QueueTyped
<1>9. PICK ran \in Nat : ran = runs[item.call][item.index]
  BY <1>6 DEF Inv, CallsTyped
<1>10. /\ runs' \in Seq(Seq(Nat)) /\ Len(runs') = Len(runs)
       /\ \A c \in DOMAIN calls : Len(runs'[c]) = Len(runs[c])
       /\ runs'[item.call][item.index] = ran + 1
       /\ \A c \in DOMAIN calls : \A i \in DOMAIN calls[c].cmds :
            ~(c = item.call /\ i = item.index) => runs'[c][i] = runs[c][i]
  <2>1. PICK row \in Seq(Nat) : row = runs[item.call]
    BY <1>6 DEF Inv, CallsTyped
  <2>2. PICK run : run = [row EXCEPT ![item.index] = ran + 1]
    OBVIOUS
  <2>3. item.index \in DOMAIN row
    BY <1>6, <2>1 DEF Inv, CallsTyped
  <2>4. /\ run \in Seq(Nat) /\ Len(run) = Len(row) /\ run[item.index] = ran + 1
        /\ \A i \in DOMAIN row : i # item.index => run[i] = row[i]
    BY <2>2, <2>3
  <2>5. runs' = [runs EXCEPT ![item.call] = run]
    BY <1>1, <1>3, <1>9, <2>1, <2>2
  <2>6. /\ runs \in Seq(Seq(Nat)) /\ item.call \in DOMAIN runs /\ DOMAIN runs = DOMAIN calls
        /\ \A c \in DOMAIN calls : DOMAIN runs[c] = DOMAIN calls[c].cmds
    <3>1. CallsTyped
      BY DEF Inv
    <3>2. DOMAIN runs = 1..Len(runs) /\ DOMAIN calls = 1..Len(calls) /\ Len(runs) = Len(calls)
      BY ONLY <3>1 DEF CallsTyped
    <3>3. ASSUME NEW c \in DOMAIN calls PROVE DOMAIN runs[c] = DOMAIN calls[c].cmds
      <4>1. calls[c].cmds \in Seq(Permitted) /\ runs[c] \in Seq(Nat) /\ Len(runs[c]) = Len(calls[c].cmds)
        <5>1. calls[c] \in Made
          BY ONLY <3>1, <3>3 DEF CallsTyped
        <5>2. runs[c] \in Seq(Nat)
          BY ONLY <3>1, <3>2, <3>3 DEF CallsTyped
        <5> QED BY ONLY <3>1, <3>3, <5>1, <5>2 DEF CallsTyped, Made
      <4>2. DOMAIN calls[c].cmds = 1..Len(calls[c].cmds)
        BY ONLY <4>1
      <4>3. DOMAIN runs[c] = 1..Len(runs[c])
        BY ONLY <4>1
      <4> QED BY ONLY <4>1, <4>2, <4>3
    <3> QED BY ONLY <1>6, <3>1, <3>2, <3>3 DEF CallsTyped
  <2>7. /\ runs' \in Seq(Seq(Nat)) /\ Len(runs') = Len(runs) /\ runs'[item.call] = run
        /\ \A c \in DOMAIN calls : c # item.call => runs'[c] = runs[c]
    BY <2>4, <2>5, <2>6
  <2>8. \A c \in DOMAIN calls : Len(runs'[c]) = Len(runs[c])
    BY ONLY <2>1, <2>4, <2>7
  <2>9. \A c \in DOMAIN calls : \A i \in DOMAIN calls[c].cmds :
          ~(c = item.call /\ i = item.index) => runs'[c][i] = runs[c][i]
    BY ONLY <2>1, <2>4, <2>6, <2>7
  <2> QED BY ONLY <2>4, <2>7, <2>8, <2>9
<1>11. CallsTyped'
  BY <1>2, <1>10 DEF Inv, CallsTyped, Made, Permitted
<1>12. QueueTyped' /\ Distinct'
  BY <1>2, <1>3, <1>6, <1>7, <1>8 DEF Inv, QueueTyped, Distinct, Same
<1>13. ran >= 1 => <<item.call, item.index>> \in resent
  BY <1>6, <1>9 DEF Waits
<1>14. Waiting'
  <2>1. Waits(new)'
    <3>1. new.call = item.call /\ new.index = item.index /\ new.done # "no"
      BY ONLY <1>7 DEF Same
    <3>2. calls'[item.call].results[item.index] = "none"
      BY ONLY <1>2, <1>6 DEF Waits
    <3>3. runs'[item.call][item.index] > 0
      BY ONLY <1>9, <1>10
    <3> QED BY ONLY <3>1, <3>2, <3>3 DEF Waits
  <2>2. ASSUME NEW m \in DOMAIN queue, m # n, NEW other, other = queue[m] PROVE Waits(other)'
    <3>1. /\ other.call \in DOMAIN calls /\ other.index \in DOMAIN calls[other.call].cmds
          /\ Waits(other) /\ ~Same(other, item)
      BY <1>3, <2>2 DEF Inv, QueueTyped, Waiting, Distinct
    <3> QED BY <1>2, <1>10, <3>1 DEF Waits, Same
  <2> QED BY <1>8, <2>1, <2>2 DEF Waiting
<1>15. AllTold'
  <2> SUFFICES ASSUME NEW c \in DOMAIN calls, NEW i \in DOMAIN calls[c].cmds PROVE Told(c, i)'
    BY <1>2 DEF AllTold
  <2>1. Told(c, i)
    BY DEF Inv, AllTold
  <2>2. CASE c = item.call /\ i = item.index
    <3>1. runs'[c][i] = ran + 1
      BY ONLY <1>10, <2>2
    <3>2. calls' = calls /\ resent' = resent
      BY ONLY <1>2
    <3>3. runs'[c][i] > 0 /\ (runs'[c][i] > 1 => <<c, i>> \in resent)
      BY ONLY <1>9, <1>13, <2>2, <3>1
    <3> QED BY ONLY <3>2, <3>3 DEF Told
  <2>3. CASE ~(c = item.call /\ i = item.index)
    BY <1>2, <1>10, <2>1, <2>3 DEF Told
  <2> QED BY <2>2, <2>3
<1>16. /\ \/ store' = store /\ cmd.op \in KeylessTools
          \/ store' = [store EXCEPT ![cmd.key] = After(cmd.op, item.call, @)]
       /\ \/ once' = once /\ (cmd.op \in KeylessTools \/ ran > 0)
          \/ once' = [once EXCEPT ![cmd.key] = After(cmd.op, item.call, @)] /\ ~(ran > 0)
  BY <1>1, <1>3, <1>9, <1>3a
<1>17. store' = [k \in Keys |-> store'[k]] /\ once' = [k \in Keys |-> once'[k]]
  BY <1>16 DEF Inv
<1>18. ASSUME NEW k \in Keys
       PROVE  IF k # cmd.key THEN store'[k] = store[k] /\ once'[k] = once[k]
              ELSE /\ d = IF RightType(cmd.op, store[k]) THEN "ok" ELSE "wrong"
                   /\ store'[k] = After(cmd.op, item.call, store[k])
                   /\ once'[k] = IF ran > 0 THEN once[k] ELSE After(cmd.op, item.call, once[k])
  <2>1. store = [j \in Keys |-> store[j]] /\ once = [j \in Keys |-> once[j]]
    BY DEF Inv
  <2>2. CASE k # cmd.key
    BY ONLY <1>16, <2>1, <2>2
  <2>3. CASE k = cmd.key
    <3>1. store'[k] = After(cmd.op, item.call, store[k])
      BY <1>16, <2>1, <2>3, KeylessChangesNothing
    <3>2. once'[k] = IF ran > 0 THEN once[k] ELSE After(cmd.op, item.call, once[k])
      BY <1>16, <2>1, <2>3, KeylessChangesNothing
    <3>3. d = IF RightType(cmd.op, store[k]) THEN "ok" ELSE "wrong"
      BY <1>4, <2>3, KeylessChangesNothing
    <3> QED BY <2>3, <3>1, <3>2, <3>3
  <2> QED BY <2>2, <2>3
<1>19. Running(n)
  <2>1. NextToRun(n) /\ UNCHANGED <<status, calls>>
    BY ONLY <1>1, <1>2
  <2>2. queue'[n].done = d /\ d \in {"ok", "wrong"} /\ Same(queue'[n], item)
    BY ONLY <1>4, <1>7, <1>8
  <2>3. \A c \in DOMAIN calls : \A i \in DOMAIN calls[c].cmds :
          ~Is(item, c, i) => runs'[c][i] = runs[c][i]
    BY ONLY <1>10 DEF Is
  <2> QED BY ONLY <1>3, <1>8, <1>9, <1>10, <1>3a, <1>18, <2>1, <2>2, <2>3 DEF Running
<1> QED BY <1>2, <1>11, <1>12, <1>14, <1>15, <1>17, <1>19 DEF Inv

-----------------------------------------------------------------------------
(* A call is answered.                                                       *)

\* The results change, of what was called and what waited.
Answering ==
  /\ calls' \in Seq(Made)' /\ Len(calls') = Len(calls)
  /\ \A c \in DOMAIN calls : /\ calls'[c].cmds = calls[c].cmds
                             /\ Len(calls'[c].results) = Len(calls[c].cmds)

\* Answers leave the calls well typed.
LEMMA AnsweringTypes == ASSUME Inv, Answering, runs' = runs PROVE CallsTyped' /\ DOMAIN calls' = DOMAIN calls
<1>1. Len(calls) \in Nat /\ DOMAIN calls = 1..Len(calls) /\ DOMAIN calls' = 1..Len(calls)
  BY DEF Answering, Inv, CallsTyped
<1> QED BY <1>1 DEF Answering, Inv, CallsTyped

\* What a reply does to the results of its call.
LEMMA ReplyAnswers ==
  ASSUME Inv, readonly' = readonly, NEW item \in Request, item.done \in {"ok", "wrong"},
         item.call \in DOMAIN calls, item.index \in DOMAIN calls[item.call].cmds,
         calls' = [calls EXCEPT ![item.call].results = WithResult(@, item.index, item.done)]
  PROVE  /\ Answering
         /\ calls'[item.call].results[item.index] = item.done
         /\ \A c \in DOMAIN calls : \A i \in DOMAIN calls[c].cmds :
              ~(c = item.call /\ i = item.index) => calls'[c].results[i] = calls[c].results[i]
<1>1. PICK made \in Made : made = calls[item.call]
  <2>1. calls \in Seq(Made)
    BY DEF Inv, CallsTyped
  <2>2. item.call \in DOMAIN calls
    OBVIOUS
  <2>3. calls[item.call] \in Made
    BY ONLY <2>1, <2>2
  <2> QED BY ONLY <2>3
<1>2. PICK results : results = [made.results EXCEPT ![item.index] = item.done]
  OBVIOUS
<1>3. /\ made.results \in Seq(Results) /\ made.cmds \in Seq(Permitted)
      /\ made = [cmds |-> made.cmds, results |-> made.results]
      /\ Len(made.results) = Len(made.cmds) /\ item.index \in DOMAIN made.results
  BY <1>1 DEF Made, Inv, CallsTyped
<1>4. /\ results \in Seq(Results) /\ Len(results) = Len(made.results)
      /\ results[item.index] = item.done
      /\ \A i \in DOMAIN made.results : i # item.index => results[i] = made.results[i]
  BY <1>2, <1>3 DEF Results
<1>5. PICK new : new = [cmds |-> made.cmds, results |-> results]
  OBVIOUS
<1>6. calls' = [calls EXCEPT ![item.call] = new]
  <2>1. calls' = [calls EXCEPT ![item.call] = [calls[item.call] EXCEPT !.results =
                                                WithResult(@, item.index, item.done)]]
    OBVIOUS
  <2>2. [made EXCEPT !.results = WithResult(@, item.index, item.done)] = new
    <3>1. WithResult(made.results, item.index, item.done) = results
      BY <1>2 DEF WithResult
    <3>2. [made EXCEPT !.results = results] = new
      BY <1>3, <1>5
    <3> QED BY <3>1, <3>2
  <2> QED BY <1>1, <2>1, <2>2
<1>7. new \in Made /\ new.cmds = made.cmds /\ new.results = results
  BY <1>3, <1>4, <1>5 DEF Made
<1>8. Seq(Made)' = Seq(Made)
  BY DEF Made, Permitted
<1>9. /\ calls' \in Seq(Made) /\ Len(calls') = Len(calls) /\ calls'[item.call] = new
      /\ \A c \in DOMAIN calls : c # item.call => calls'[c] = calls[c]
  <2>1. calls \in Seq(Made) /\ item.call \in DOMAIN calls
    BY DEF Inv, CallsTyped
  <2> QED BY ONLY <1>6, <1>7, <2>1, Replaced
<1>10. ASSUME NEW c \in DOMAIN calls
       PROVE  /\ calls'[c].cmds = calls[c].cmds /\ Len(calls'[c].results) = Len(calls[c].cmds)
              /\ \A i \in DOMAIN calls[c].cmds :
                   ~(c = item.call /\ i = item.index) => calls'[c].results[i] = calls[c].results[i]
  <2>1. CASE c = item.call
    <3>1. calls'[c].cmds = made.cmds /\ calls'[c].results = results /\ calls[c] = made
      BY ONLY <1>1, <1>7, <1>9, <2>1
    <3> QED BY ONLY <1>3, <1>4, <2>1, <3>1
  <2>2. CASE c # item.call
    BY <1>9, <2>2 DEF Inv, CallsTyped
  <2> QED BY <2>1, <2>2
<1> QED BY <1>4, <1>7, <1>8, <1>9, <1>10 DEF Answering

\* What failing some requests does.
LEMMA FailAllAnswers ==
  ASSUME Inv, readonly' = readonly, NEW items, FailAll(items)
  PROVE  /\ Answering
         /\ \A c \in DOMAIN calls : \A i \in DOMAIN calls[c].cmds :
              calls'[c].results[i] = IF \E item \in items : item.call = c /\ item.index = i
                                     THEN "failed" ELSE calls[c].results[i]
<1>1. calls \in Seq(Made) /\ DOMAIN calls = 1..Len(calls) /\ Len(calls) \in Nat
  BY DEF Inv, CallsTyped
<1>2. ASSUME NEW c \in DOMAIN calls
      PROVE  /\ calls'[c] \in Made /\ calls'[c].cmds = calls[c].cmds
             /\ Len(calls'[c].results) = Len(calls[c].cmds)
             /\ \A i \in DOMAIN calls[c].cmds :
                  calls'[c].results[i] = IF \E item \in items : item.call = c /\ item.index = i
                                         THEN "failed" ELSE calls[c].results[i]
  <2>1. PICK made \in Made : made = calls[c]
    BY <1>1
  <2>2. /\ made.results \in Seq(Results) /\ made.cmds \in Seq(Permitted)
        /\ made = [cmds |-> made.cmds, results |-> made.results]
        /\ Len(made.results) = Len(made.cmds)
        /\ DOMAIN made.results = 1..Len(made.cmds) /\ DOMAIN made.cmds = 1..Len(made.cmds)
    BY <2>1 DEF Made, Inv, CallsTyped
  <2>3. PICK results : results = [i \in DOMAIN made.results |->
           IF \E item \in items : item.call = c /\ item.index = i THEN "failed" ELSE made.results[i]]
    OBVIOUS
  <2>4. results \in Seq(Results) /\ Len(results) = Len(made.cmds)
    BY <2>2, <2>3 DEF Results
  <2>5. calls'[c] = [made EXCEPT !.results = results]
    BY <2>1, <2>3 DEF FailAll
  <2>6. calls'[c] = [cmds |-> made.cmds, results |-> results]
    BY <2>2, <2>5
  <2> QED BY <2>1, <2>2, <2>3, <2>4, <2>6 DEF Made
<1>3. DOMAIN calls' = 1..Len(calls) /\ calls' = [c \in 1..Len(calls) |-> calls'[c]]
  BY <1>1 DEF FailAll
<1>4. calls' \in Seq(Made) /\ Len(calls') = Len(calls)
  BY <1>1, <1>2, <1>3
<1>5. Seq(Made)' = Seq(Made)
  BY DEF Made, Permitted
<1> QED BY <1>2, <1>4, <1>5 DEF Answering

-----------------------------------------------------------------------------
(* The queue gets shorter.                                                   *)

\* The oldest k requests are answered; what else waits, waits on, perhaps to be sent again.
Drops(k) ==
  /\ queue' \in Seq(Request) /\ Len(queue') = Len(queue) - k
  /\ resent \subseteq resent'
  /\ \A n \in 1..Len(queue) - k :
       /\ Same(queue'[n], queue[n + k])
       /\ \/ queue'[n].done = queue[n + k].done
          \/ queue'[n].done = "no" /\ <<queue[n + k].call, queue[n + k].index>> \in resent'
       /\ calls'[queue[n + k].call].results[queue[n + k].index] = "none"

\* The oldest requests are answered and leave the queue.
LEMMA DropStep ==
  ASSUME Inv, Answering, UNCHANGED <<readonly, store, once, runs>>, listed' \subseteq Own,
         NEW k \in 0..Len(queue), Drops(k),
         \A c \in DOMAIN calls : \A i \in DOMAIN calls[c].cmds :
           calls'[c].results[i] \in {"ok", "wrong"} => runs[c][i] > 0
  PROVE  Inv'
<1>1. CallsTyped' /\ DOMAIN calls' = DOMAIN calls
  BY AnsweringTypes
<1>2. \A c \in DOMAIN calls : calls'[c].cmds = calls[c].cmds
  BY DEF Answering
<1>3. queue \in Seq(Request) /\ Len(queue) \in Nat /\ DOMAIN queue = 1..Len(queue)
        /\ DOMAIN queue' = 1..Len(queue) - k
  BY DEF Drops, Inv, QueueTyped
<1>4. ASSUME NEW n \in DOMAIN queue', NEW item, item = queue[n + k], NEW new, new = queue'[n]
      PROVE  /\ n + k \in DOMAIN queue /\ Same(new, item)
             /\ new.call \in DOMAIN calls /\ new.index \in DOMAIN calls[new.call].cmds
             /\ Waits(new)'
  <2>1. n \in 1..Len(queue) - k /\ n + k \in DOMAIN queue
    BY <1>3
  <2>2. /\ item.call \in DOMAIN calls /\ item.index \in DOMAIN calls[item.call].cmds /\ Waits(item)
        /\ Same(new, item) /\ calls'[item.call].results[item.index] = "none"
        /\ new.done = item.done \/ (new.done = "no" /\ <<item.call, item.index>> \in resent')
    BY <1>4, <2>1 DEF Inv, QueueTyped, Waiting, Drops
  <2>3. runs' = runs /\ resent \subseteq resent'
    BY DEF Drops
  <2> QED BY <2>1, <2>2, <2>3 DEF Waits, Same
<1>5. QueueTyped'
  BY <1>1, <1>2, <1>4 DEF QueueTyped, Drops, Request
<1>6. Distinct'
  <2> SUFFICES ASSUME NEW m \in DOMAIN queue', NEW n \in DOMAIN queue', Same(queue'[m], queue'[n])
               PROVE  m = n
    BY DEF Distinct
  <2>1. m + k \in DOMAIN queue /\ n + k \in DOMAIN queue /\ Same(queue[m + k], queue[n + k])
    BY <1>4 DEF Same
  <2>2. m + k = n + k
    BY <2>1 DEF Inv, Distinct
  <2> QED BY <1>3, <2>2
<1>7. Waiting'
  BY <1>4 DEF Waiting
<1>8. AllTold'
  BY <1>1, <1>2 DEF AllTold, Told, Inv, Drops
<1> QED BY <1>1, <1>5, <1>6, <1>7, <1>8 DEF Inv

\* A reply answers the oldest request.
LEMMA ReplyStep == ASSUME Inv, Reply PROVE Inv' /\ \E k \in 0..Len(queue) : Dropping(k)
<1>1. PICK item : item = Head(queue)
  OBVIOUS
<1>2. /\ queue # <<>> /\ item.done # "no" /\ queue' = Tail(queue)
      /\ calls' = [calls EXCEPT ![item.call].results = WithResult(@, item.index, item.done)]
      /\ UNCHANGED <<readonly, status, store, once, runs, resent>>
  BY <1>1 DEF Reply
<1>3. listed' \subseteq Own
  BY DEF Reply, KeysWithPrefix, Inv
<1>4. /\ queue \in Seq(Request) /\ 1 \in DOMAIN queue /\ item = queue[1] /\ Len(queue) \in Nat
      /\ Len(queue) >= 1
  BY <1>1, <1>2 DEF Inv, QueueTyped
<1>5. /\ item \in Request /\ item.call \in DOMAIN calls /\ item.index \in DOMAIN calls[item.call].cmds
      /\ item.done \in {"ok", "wrong"} /\ Waits(item)
  <2>1. item.call \in DOMAIN calls /\ item.index \in DOMAIN calls[item.call].cmds /\ Waits(item)
    BY <1>4 DEF Inv, QueueTyped, Waiting
  <2>2. item \in Request /\ item.done \in Done
    <3>1. item \in Request
      BY ONLY <1>4
    <3> QED BY ONLY <3>1 DEF Request
  <2>3. item.done # "no"
    BY <1>2
  <2>4. item.done \in {"ok", "wrong"}
    BY ONLY <2>2, <2>3 DEF Done
  <2> QED BY <2>1, <2>2, <2>4
<1>6. /\ Answering
      /\ calls'[item.call].results[item.index] = item.done
      /\ \A c \in DOMAIN calls : \A i \in DOMAIN calls[c].cmds :
           ~(c = item.call /\ i = item.index) => calls'[c].results[i] = calls[c].results[i]
  BY <1>2, <1>5, ReplyAnswers
<1>7. Drops(1)
  <2>1. /\ queue' \in Seq(Request) /\ Len(queue') = Len(queue) - 1
        /\ \A n \in 1..Len(queue) - 1 : queue'[n] = queue[n + 1] /\ n + 1 \in DOMAIN queue
    BY <1>2, <1>4
  <2>2. ASSUME NEW n \in 1..Len(queue) - 1, NEW other, other = queue[n + 1]
        PROVE  calls'[other.call].results[other.index] = "none"
    <3>1. other.call \in DOMAIN calls /\ other.index \in DOMAIN calls[other.call].cmds /\ Waits(other)
      BY <2>1, <2>2 DEF Inv, QueueTyped, Waiting
    <3>2. ~Same(other, item)
      <4>1. Distinct /\ n + 1 # 1
        BY DEF Inv
      <4> QED BY ONLY <1>4, <2>1, <2>2, <4>1 DEF Distinct
    <3> QED BY ONLY <1>6, <3>1, <3>2 DEF Waits, Same
  <2> QED BY <1>2, <2>1, <2>2 DEF Drops, Same
<1>8. \A c \in DOMAIN calls : \A i \in DOMAIN calls[c].cmds :
        calls'[c].results[i] \in {"ok", "wrong"} => runs[c][i] > 0
  BY <1>5, <1>6 DEF Waits, Inv, AllTold, Told
<1>9. 1 \in 0..Len(queue)
  BY <1>4
<1>10. Inv'
  BY <1>2, <1>3, <1>6, <1>7, <1>8, <1>9, DropStep
<1>11. Dropping(1)
  <2>1. /\ DOMAIN queue' = 1..Len(queue) - 1
        /\ \A n \in DOMAIN queue' : queue'[n] = queue[n + 1]
    BY ONLY <1>2, <1>4
  <2>2. DOMAIN calls' = DOMAIN calls /\ \A c \in DOMAIN calls : calls'[c].cmds = calls[c].cmds
    BY <1>2, <1>6, AnsweringTypes DEF Answering
  <2>3. \A n \in DOMAIN queue' : Same(queue'[n], queue[n + 1]) /\ queue'[n].done = queue[n + 1].done
    BY ONLY <2>1 DEF Same
  <2>4. /\ queue[1].done # "no"
        /\ calls'[queue[1].call].results[queue[1].index] = queue[1].done
    BY ONLY <1>2, <1>4, <1>6
  <2>5. \A c \in DOMAIN calls : \A i \in DOMAIN calls[c].cmds :
          (\A n \in 1..1 : ~Is(queue[n], c, i)) => calls'[c].results[i] = calls[c].results[i]
    BY ONLY <1>4, <1>6 DEF Is
  <2>6. UNCHANGED <<runs, store, once, status>> /\ \A n \in 1..1 : n = 1
    BY ONLY <1>2
  <2> QED BY ONLY <2>1, <2>2, <2>3, <2>4, <2>5, <2>6 DEF Dropping
<1> QED BY <1>9, <1>10, <1>11

\* The oldest k requests fail, the others are sent again or stay as they are.
LEMMA FailingStep ==
  ASSUME Inv, UNCHANGED <<readonly, store, once, runs, listed>>, NEW k \in 0..Len(queue), NEW items,
         items = {queue[m] : m \in 1..k}, FailAll(items),
         queue' \in Seq(Request), Len(queue') = Len(queue) - k, resent \subseteq resent',
         \A n \in 1..Len(queue) - k :
           /\ Same(queue'[n], queue[n + k]) /\ queue'[n].done = "no"
           /\ <<queue[n + k].call, queue[n + k].index>> \in resent',
         status' = "ended" => status = "ended" \/ k = Len(queue)
  PROVE  Inv' /\ Dropping(k)
<1>1. /\ Answering
      /\ \A c \in DOMAIN calls : \A i \in DOMAIN calls[c].cmds :
           calls'[c].results[i] = IF \E item \in items : item.call = c /\ item.index = i
                                  THEN "failed" ELSE calls[c].results[i]
  BY FailAllAnswers
<1>2. Len(queue) \in Nat /\ DOMAIN queue = 1..Len(queue)
  BY DEF Inv, QueueTyped
<1>3. ASSUME NEW n \in 1..Len(queue) - k, NEW other, other = queue[n + k]
      PROVE  calls'[other.call].results[other.index] = "none"
  <2>1. /\ n + k \in DOMAIN queue /\ other.call \in DOMAIN calls
        /\ other.index \in DOMAIN calls[other.call].cmds /\ Waits(other)
    BY <1>2, <1>3 DEF Inv, QueueTyped, Waiting
  <2>2. ASSUME NEW m \in 1..k PROVE ~Same(queue[m], other)
    <3>1. m \in DOMAIN queue /\ m # n + k
      BY <1>2
    <3> QED BY <1>3, <2>1, <3>1 DEF Inv, Distinct
  <2>3. ~\E item \in items : item.call = other.call /\ item.index = other.index
    BY <2>2 DEF Same
  <2> QED BY <1>1, <2>1, <2>3 DEF Waits
<1>4. Drops(k)
  BY <1>3 DEF Drops
<1>5. \A c \in DOMAIN calls : \A i \in DOMAIN calls[c].cmds :
        calls'[c].results[i] \in {"ok", "wrong"} => runs[c][i] > 0
  BY <1>1 DEF Inv, AllTold, Told
<1>6. listed' \subseteq Own
  BY DEF Inv
<1>7. Inv'
  BY <1>1, <1>4, <1>5, <1>6, DropStep
<1>8. Dropping(k)
  <2>1. DOMAIN queue' = 1..Len(queue) - k
    BY <1>2
  <2>2. DOMAIN calls' = DOMAIN calls /\ \A c \in DOMAIN calls : calls'[c].cmds = calls[c].cmds
    BY <1>1, AnsweringTypes DEF Answering
  <2>3. \A n \in DOMAIN queue' : Same(queue'[n], queue[n + k]) /\ queue'[n].done = "no"
    BY <2>1
  <2>4. ASSUME NEW n \in 1..k, NEW item, item = queue[n]
        PROVE  calls'[item.call].results[item.index] = "failed"
    <3>1. n \in DOMAIN queue /\ item \in items
      BY <1>2, <2>4
    <3>2. item.call \in DOMAIN calls /\ item.index \in DOMAIN calls[item.call].cmds
      BY <2>4, <3>1 DEF Inv, QueueTyped
    <3> QED BY <1>1, <3>1, <3>2
  <2>5. \A c \in DOMAIN calls : \A i \in DOMAIN calls[c].cmds :
          (\A n \in 1..k : ~Is(queue[n], c, i)) => calls'[c].results[i] = calls[c].results[i]
    BY <1>1 DEF Is
  <2>6. UNCHANGED <<runs, store, once>> /\ (status' = "ended" => status = "ended" \/ k = Len(queue))
    OBVIOUS
  <2> QED BY ONLY <2>1, <2>2, <2>3, <2>4, <2>5, <2>6 DEF Dropping
<1> QED BY <1>7, <1>8

\* A lost connection answers what it cannot send again, and keeps the rest.
LEMMA LoseStep == ASSUME Inv, Lose PROVE Inv' /\ \E k \in 0..Len(queue) : Dropping(k)
<1>1. PICK k \in 0..Len(queue) :
        LET kept == SubSeq(queue, k + 1, Len(queue))
        IN  /\ FailAll({queue[m] : m \in 1..k})
            /\ resent' = resent \cup {<<item.call, item.index>> : item \in Range(kept)}
            /\ queue' = SentAgain([m \in DOMAIN kept |-> [kept[m] EXCEPT !.done = "no"]])
  BY DEF Lose
<1>2. PICK kept : kept = SubSeq(queue, k + 1, Len(queue))
  OBVIOUS
<1>3. queue \in Seq(Request) /\ Len(queue) \in Nat /\ DOMAIN queue = 1..Len(queue)
  BY DEF Inv, QueueTyped
<1>4. /\ kept \in Seq(Request) /\ Len(kept) = Len(queue) - k /\ DOMAIN kept = 1..Len(queue) - k
      /\ \A n \in 1..Len(queue) - k : kept[n] = queue[n + k]
  <2>1. k \in 0..Len(queue)
    OBVIOUS
  <2>2. queue \in Seq(Request)
    BY <1>3
  <2>3. PICK rest : rest = SubSeq(queue, k + 1, Len(queue))
    OBVIOUS
  <2>4. /\ rest \in Seq(Request) /\ Len(rest) = Len(queue) - k /\ DOMAIN rest = 1..Len(queue) - k
        /\ \A n \in 1..Len(queue) - k : rest[n] = queue[n + k]
    BY ONLY <2>1, <2>2, <2>3, Rest
  <2> QED BY <1>2, <2>3, <2>4
<1>5. ASSUME NEW n \in 1..Len(queue) - k, NEW item, item = [kept[n] EXCEPT !.done = "no"]
      PROVE  item \in Request /\ item.done = "no" /\ Same(item, kept[n])
  <2>1. PICK old \in Request : old = kept[n]
    BY <1>4
  <2> QED BY <1>5, <2>1 DEF Request, Done, Same
<1>6. queue' = [n \in 1..Len(queue) - k |-> [kept[n] EXCEPT !.done = "no"]]
  BY <1>1, <1>2, <1>4 DEF SentAgain
<1>7. Len(queue) - k \in Nat
  BY <1>3
<1>8. queue' \in Seq(Request) /\ Len(queue') = Len(queue) - k
  BY <1>5, <1>6, <1>7
<1>9. resent' = resent \cup {<<item.call, item.index>> : item \in Range(kept)}
  BY <1>1, <1>2
<1>10. \A n \in 1..Len(queue) - k :
         /\ Same(queue'[n], queue[n + k]) /\ queue'[n].done = "no"
         /\ <<queue[n + k].call, queue[n + k].index>> \in resent'
  <2> SUFFICES ASSUME NEW n \in 1..Len(queue) - k
               PROVE  /\ Same(queue'[n], queue[n + k]) /\ queue'[n].done = "no"
                      /\ <<queue[n + k].call, queue[n + k].index>> \in resent'
    OBVIOUS
  <2>1. queue'[n] = [kept[n] EXCEPT !.done = "no"] /\ kept[n] = queue[n + k]
    BY <1>4, <1>6
  <2>2. kept[n] \in Range(kept)
    BY <1>4 DEF Range
  <2> QED BY <1>5, <1>9, <2>1, <2>2
<1> QED BY <1>1, <1>8, <1>9, <1>10, FailingStep DEF Lose

\* All that waits fails, when the client gives up or is closed.
LEMMA EmptyStep ==
  ASSUME Inv, FailAll(Range(queue)), queue' = <<>>, UNCHANGED <<readonly, store, once, runs, listed, resent>>
  PROVE  Inv' /\ \E k \in 0..Len(queue) : Dropping(k)
<1>1. Len(queue) \in Nat /\ DOMAIN queue = 1..Len(queue)
  BY DEF Inv, QueueTyped
<1>2. PICK items : items = {queue[m] : m \in 1..Len(queue)}
  OBVIOUS
<1>3. Range(queue) = items
  BY <1>1, <1>2 DEF Range
<1>4. /\ queue' \in Seq(Request) /\ Len(queue') = Len(queue) - Len(queue)
      /\ 1..Len(queue) - Len(queue) = {} /\ Len(queue) \in 0..Len(queue)
  BY <1>1
<1> QED BY <1>2, <1>3, <1>4, FailingStep

\* The client connects, or fails to for another time.
LEMMA WaitStep ==
  ASSUME Inv, UNCHANGED <<readonly, queue, calls, store, once, runs, resent, listed>>,
         status' = "ended" => status = "ended"
  PROVE  Inv' /\ \E k \in 0..Len(queue) : Dropping(k)
<1>1. Inv'
  BY DEF Inv, CallsTyped, QueueTyped, Distinct, Waiting, AllTold, Made, Permitted, Waits, Told
<1>2. Len(queue) \in Nat /\ DOMAIN queue = 1..Len(queue) /\ 0 \in 0..Len(queue) /\ Len(queue) - 0 = Len(queue)
  BY DEF Inv, QueueTyped
<1>3. \A n \in DOMAIN queue : n + 0 = n
  BY <1>2
<1>4. Dropping(0)
  BY <1>2, <1>3 DEF Dropping, Same
<1> QED BY <1>1, <1>2, <1>4

\* What every step is, to what waits and what is told.
LEMMA NextStep ==
  ASSUME Inv, [Next]_vars
  PROVE  /\ Inv'
         /\ \/ Calling
            \/ \E n \in DOMAIN queue : Running(n)
            \/ \E k \in 0..Len(queue) : Dropping(k)
<1>1. CASE Call
  BY <1>1, CallStep
<1>2. CASE Execute
  BY <1>2, ExecuteStep
<1>3. CASE Reply
  BY <1>3, ReplyStep
<1>4. CASE Lose
  BY <1>4, LoseStep
<1>5. CASE Connects
  BY <1>5, WaitStep DEF Connects
<1>6. CASE ConnectFails
  BY <1>6, EmptyStep, WaitStep DEF ConnectFails
<1>7. CASE Close
  BY <1>7, EmptyStep DEF Close
<1>8. CASE UNCHANGED vars
  BY <1>8, WaitStep DEF vars
<1> QED BY <1>1, <1>2, <1>3, <1>4, <1>5, <1>6, <1>7, <1>8 DEF Next

\* What every step keeps: a request waits once and unanswered, it ran if it has a reply, and
\* ran before only if it was sent again; and a call sends only what the guards let through.
THEOREM RedisInvariant == Spec => []Inv
BY InitInv, NextStep, PTL DEF Spec

\* For any calls and any number of lost connections: an answer of a command, ok or an error
\* of the server, means that the server ran it, and more than once only if the client sent
\* it again.
THEOREM RepliesAreTrue == Spec => []RepliesTrue
<1>1. Inv => RepliesTrue
  <2> SUFFICES ASSUME Inv, NEW c \in DOMAIN calls, NEW i \in DOMAIN runs[c]
               PROVE  /\ calls[c].results[i] \in {"ok", "wrong"} => runs[c][i] > 0
                      /\ calls[c].results[i] = "ok" /\ runs[c][i] > 1 => <<c, i>> \in resent
    BY DEF RepliesTrue
  <2>1. calls[c] \in Made /\ runs[c] \in Seq(Nat) /\ Len(runs[c]) = Len(calls[c].cmds)
    BY DEF Inv, CallsTyped
  <2>2. calls[c].cmds \in Seq(Permitted)
    BY <2>1 DEF Made
  <2>3. i \in DOMAIN calls[c].cmds
    BY <2>1, <2>2
  <2> QED BY <2>3 DEF Inv, AllTold, Told
<1> QED BY <1>1, RedisInvariant, PTL

-----------------------------------------------------------------------------
(* The order of the requests.                                                *)

Before(item, other) == InOrder(item.call, item.index, other.call, other.index)

\* What waits is in the order in which it was called; the requests with a reply, and those
\* that ran at all, are the oldest; and what waits no more was answered and is older.
Sorted == \A m, n \in DOMAIN queue : m < n => Before(queue[m], queue[n])

RepliedFirst ==
  \A m, n \in DOMAIN queue : m < n /\ queue[m].done = "no" => queue[n].done = "no"

Ran(item) == runs[item.call][item.index] > 0

RanFirst == \A m, n \in DOMAIN queue : m < n /\ Ran(queue[n]) => Ran(queue[m])

Settled(c, i) ==
  \/ \E n \in DOMAIN queue : Is(queue[n], c, i)
  \/ /\ calls[c].results[i] # "none"
     /\ \A n \in DOMAIN queue : InOrder(c, i, queue[n].call, queue[n].index)

AllSettled == \A c \in DOMAIN calls : \A i \in DOMAIN calls[c].cmds : Settled(c, i)

OrderInv ==
  /\ status = "ended" => queue = <<>>
  /\ Sorted /\ RepliedFirst /\ RanFirst /\ AllSettled

\* At the start nothing waits.
LEMMA InitOrder == Init => OrderInv
BY DEF Init, OrderInv, Sorted, RepliedFirst, RanFirst, AllSettled

\* The places of the queue and of the commands are numbers.
LEMMA Places ==
  ASSUME Inv
  PROVE  /\ Len(queue) \in Nat /\ DOMAIN queue = 1..Len(queue)
         /\ DOMAIN calls \subseteq Nat
         /\ \A n \in DOMAIN queue : /\ queue[n].call \in DOMAIN calls
                                    /\ queue[n].index \in DOMAIN calls[queue[n].call].cmds
         /\ \A c \in DOMAIN calls : /\ DOMAIN calls[c].cmds \subseteq Nat
                                    /\ DOMAIN runs[c] = DOMAIN calls[c].cmds
                                    /\ \A i \in DOMAIN calls[c].cmds : runs[c][i] \in Nat
<1>1. Len(queue) \in Nat /\ DOMAIN queue = 1..Len(queue)
  BY DEF Inv, QueueTyped
<1>2. \A n \in DOMAIN queue : /\ queue[n].call \in DOMAIN calls
                              /\ queue[n].index \in DOMAIN calls[queue[n].call].cmds
  BY DEF Inv, QueueTyped
<1>3. CallsTyped
  BY DEF Inv
<1>4. DOMAIN calls = 1..Len(calls) /\ DOMAIN runs = 1..Len(runs) /\ Len(runs) = Len(calls)
  BY ONLY <1>3 DEF CallsTyped
<1>5. ASSUME NEW c \in DOMAIN calls
      PROVE  /\ DOMAIN calls[c].cmds \subseteq Nat /\ DOMAIN runs[c] = DOMAIN calls[c].cmds
             /\ \A i \in DOMAIN calls[c].cmds : runs[c][i] \in Nat
  <2>1. calls[c] \in Made
    BY ONLY <1>3, <1>5 DEF CallsTyped
  <2>2. runs[c] \in Seq(Nat) /\ Len(runs[c]) = Len(calls[c].cmds)
    BY ONLY <1>3, <1>4, <1>5 DEF CallsTyped
  <2>3. calls[c].cmds \in Seq(Permitted)
    BY ONLY <2>1 DEF Made
  <2>4. DOMAIN calls[c].cmds = 1..Len(calls[c].cmds)
    BY ONLY <2>3
  <2>5. DOMAIN runs[c] = 1..Len(runs[c]) /\ \A i \in DOMAIN runs[c] : runs[c][i] \in Nat
    BY ONLY <2>2
  <2> QED BY ONLY <2>2, <2>4, <2>5
<1>6. DOMAIN calls \subseteq Nat
  BY ONLY <1>4
<1> QED BY <1>1, <1>2, <1>5, <1>6

\* A call is queued behind everything.
LEMMA OrderCalling == ASSUME Inv, Inv', OrderInv, Calling PROVE OrderInv'
<1>1. /\ Len(queue) \in Nat /\ DOMAIN queue = 1..Len(queue)
      /\ \A n \in DOMAIN queue : /\ queue[n].call \in DOMAIN calls
                                 /\ queue[n].index \in DOMAIN calls[queue[n].call].cmds
      /\ \A c \in DOMAIN calls : \A i \in DOMAIN calls[c].cmds : runs[c][i] \in Nat
  BY Places
<1>2. DOMAIN queue' = 1..Len(queue') /\ Len(queue') \in Nat
  BY DEF Inv, QueueTyped
<1>3. \A n \in DOMAIN queue : n \in DOMAIN queue' /\ queue'[n] = queue[n]
  BY DEF Calling
<1>4. \A c \in DOMAIN calls : c \in DOMAIN calls' /\ calls'[c] = calls[c] /\ runs'[c] = runs[c]
  BY DEF Calling
<1>5. ASSUME NEW n \in DOMAIN queue' \ DOMAIN queue, NEW item, item = queue'[n]
      PROVE  /\ \A m \in DOMAIN queue : m < n
             /\ item.done = "no" /\ item.call \in DOMAIN calls' /\ item.call \notin DOMAIN calls
             /\ \A d \in DOMAIN calls : d < item.call
             /\ runs'[item.call][item.index] = 0
  BY <1>5 DEF Calling
<1>6. \A m, n \in DOMAIN queue' \ DOMAIN queue :
        m < n => queue'[m].call = queue'[n].call /\ queue'[m].index < queue'[n].index
  BY DEF Calling
<1>7. ASSUME NEW m \in DOMAIN queue', NEW n \in DOMAIN queue', m < n, n \in DOMAIN queue
      PROVE  m \in DOMAIN queue
  BY ONLY <1>1, <1>2, <1>7
<1>8. Sorted'
  <2> SUFFICES ASSUME NEW m \in DOMAIN queue', NEW n \in DOMAIN queue', m < n
               PROVE  Before(queue'[m], queue'[n])
    BY DEF Sorted, Before, InOrder
  <2>1. CASE n \in DOMAIN queue
    BY <1>3, <1>7, <2>1 DEF OrderInv, Sorted
  <2>2. CASE n \notin DOMAIN queue /\ m \in DOMAIN queue
    BY <1>1, <1>3, <1>5, <2>2 DEF Before, InOrder
  <2>3. CASE n \notin DOMAIN queue /\ m \notin DOMAIN queue
    BY <1>6, <2>3 DEF Before, InOrder
  <2> QED BY <2>1, <2>2, <2>3
<1>9. RepliedFirst'
  <2> SUFFICES ASSUME NEW m \in DOMAIN queue', NEW n \in DOMAIN queue', m < n, queue'[m].done = "no"
               PROVE  queue'[n].done = "no"
    BY DEF RepliedFirst
  <2>1. CASE n \in DOMAIN queue
    BY <1>3, <1>7, <2>1 DEF OrderInv, RepliedFirst
  <2> QED BY <1>5, <2>1
<1>10. RanFirst'
  <2> SUFFICES ASSUME NEW m \in DOMAIN queue', NEW n \in DOMAIN queue', m < n,
                      runs'[queue'[n].call][queue'[n].index] > 0
               PROVE  runs'[queue'[m].call][queue'[m].index] > 0
    BY DEF RanFirst, Ran
  <2>1. n \in DOMAIN queue
    <3>1. ~(0 > 0)
      OBVIOUS
    <3> QED BY <1>5, <3>1
  <2>2. m \in DOMAIN queue
    BY <1>7, <2>1
  <2> QED BY <1>1, <1>3, <1>4, <2>1, <2>2 DEF OrderInv, RanFirst, Ran
<1>11. AllSettled'
  <2> SUFFICES ASSUME NEW c \in DOMAIN calls', NEW i \in DOMAIN calls'[c].cmds PROVE Settled(c, i)'
    BY DEF AllSettled
  <2>1. CASE c \in DOMAIN calls
    <3>1. Settled(c, i)
      BY <1>4, <2>1 DEF OrderInv, AllSettled
    <3>2. ASSUME NEW n \in DOMAIN queue' \ DOMAIN queue
          PROVE  InOrder(c, i, queue'[n].call, queue'[n].index)
      BY <1>5, <2>1, <3>2 DEF InOrder
    <3> QED BY <1>3, <1>4, <2>1, <3>1, <3>2 DEF Settled, InOrder, Is
  <2>2. CASE c \notin DOMAIN calls
    <3>1. CASE status = "ended"
      <4>1. calls'[c].results[i] = "failed"
        BY <2>2, <3>1 DEF Calling
      <4>2. \A n \in DOMAIN queue' : FALSE
        <5>1. queue = <<>>
          BY <3>1 DEF OrderInv
        <5> QED BY <3>1, <5>1 DEF Calling
      <4> QED BY <4>1, <4>2 DEF Settled
    <3>2. CASE status # "ended"
      BY <2>2, <3>2 DEF Calling, Settled
    <3> QED BY <3>1, <3>2
  <2> QED BY <2>1, <2>2
<1>12. status' = "ended" => queue' = <<>>
  <2> SUFFICES ASSUME status = "ended" PROVE queue' = <<>>
    BY DEF Calling
  <2>1. queue = <<>>
    BY DEF OrderInv
  <2>2. DOMAIN queue' = {}
    <3>1. \A n \in DOMAIN queue' : n \in DOMAIN queue
      BY DEF Calling
    <3> QED BY <2>1, <3>1
  <2>3. queue' \in Seq(Request)
    BY DEF Inv, QueueTyped, Request
  <2> QED BY <2>2, <2>3
<1> QED BY <1>8, <1>9, <1>10, <1>11, <1>12 DEF OrderInv

\* The request the server runs is the oldest without a reply.
LEMMA OrderRunning == ASSUME Inv, OrderInv, NEW n \in DOMAIN queue, Running(n) PROVE OrderInv'
<1>1. /\ Len(queue) \in Nat /\ DOMAIN queue = 1..Len(queue)
      /\ \A m \in DOMAIN queue : /\ queue[m].call \in DOMAIN calls
                                 /\ queue[m].index \in DOMAIN calls[queue[m].call].cmds
      /\ \A c \in DOMAIN calls : \A i \in DOMAIN calls[c].cmds : runs[c][i] \in Nat
  BY Places
<1>2. /\ calls' = calls /\ status' = status /\ NextToRun(n) /\ DOMAIN queue' = DOMAIN queue
      /\ queue'[n].done # "no"
      /\ \A m \in DOMAIN queue : m # n => queue'[m] = queue[m]
  BY DEF Running
<1>3. \A m \in DOMAIN queue : queue'[m].call = queue[m].call /\ queue'[m].index = queue[m].index
  BY <1>2 DEF Running, Same
<1>4. ASSUME NEW c \in DOMAIN calls, NEW i \in DOMAIN calls[c].cmds
      PROVE  (runs[c][i] > 0 => runs'[c][i] > 0)
             /\ (~Is(queue[n], c, i) => runs'[c][i] = runs[c][i])
  BY <1>1 DEF Running, Is
<1>5. Sorted'
  BY <1>2, <1>3 DEF OrderInv, Sorted, Before, InOrder
<1>6. ASSUME NEW m \in DOMAIN queue, m < n PROVE queue[m].done # "no" /\ Ran(queue[m])
  <2>1. m \in 1..n - 1
    BY <1>1, <1>6
  <2>2. queue[m].done # "no"
    BY <1>2, <2>1 DEF NextToRun
  <2> QED BY <2>2 DEF Inv, Waiting, Waits, Ran
<1>7. RepliedFirst'
  <2> SUFFICES ASSUME NEW m \in DOMAIN queue, NEW p \in DOMAIN queue, m < p, queue'[m].done = "no"
               PROVE  queue'[p].done = "no"
    BY <1>2 DEF RepliedFirst
  <2>1. m # n /\ queue[m].done = "no"
    BY <1>2
  <2>2. p # n
    BY <1>6, <2>1
  <2> QED BY <1>2, <2>1, <2>2 DEF OrderInv, RepliedFirst
<1>8. RanFirst'
  <2> SUFFICES ASSUME NEW m \in DOMAIN queue, NEW p \in DOMAIN queue, m < p,
                      runs'[queue[p].call][queue[p].index] > 0
               PROVE  runs'[queue[m].call][queue[m].index] > 0
    BY <1>2, <1>3 DEF RanFirst, Ran
  <2>1. Ran(queue[m])
    <3>1. CASE p = n
      BY <1>6, <3>1
    <3>2. CASE p # n
      <4>1. ~Is(queue[n], queue[p].call, queue[p].index)
        BY <3>2 DEF Inv, Distinct, Same, Is
      <4>2. Ran(queue[p])
        BY <1>1, <1>4, <4>1 DEF Ran
      <4> QED BY <4>2 DEF OrderInv, RanFirst
    <3> QED BY <3>1, <3>2
  <2> QED BY <1>1, <1>4, <2>1 DEF Ran
<1>9. AllSettled'
  <2> SUFFICES ASSUME NEW c \in DOMAIN calls, NEW i \in DOMAIN calls[c].cmds PROVE Settled(c, i)'
    BY <1>2 DEF AllSettled
  <2>1. Settled(c, i)
    BY DEF OrderInv, AllSettled
  <2> QED BY <1>2, <1>3, <2>1 DEF Settled, Is, InOrder
<1>10. status' = "ended" => queue' = <<>>
  <2> SUFFICES ASSUME status = "ended" PROVE FALSE
    BY <1>2
  <2> QED BY DEF OrderInv
<1> QED BY <1>5, <1>7, <1>8, <1>9, <1>10 DEF OrderInv

\* What is answered is the oldest, and what waits on keeps its order.
LEMMA OrderDropping ==
  ASSUME Inv, Inv', OrderInv, NEW k \in 0..Len(queue), Dropping(k)
  PROVE  OrderInv'
<1>1. /\ Len(queue) \in Nat /\ DOMAIN queue = 1..Len(queue)
      /\ \A n \in DOMAIN queue : /\ queue[n].call \in DOMAIN calls
                                 /\ queue[n].index \in DOMAIN calls[queue[n].call].cmds
  BY Places
<1>2. /\ runs' = runs /\ DOMAIN calls' = DOMAIN calls /\ DOMAIN queue' = 1..Len(queue) - k
      /\ \A c \in DOMAIN calls : calls'[c].cmds = calls[c].cmds
  BY DEF Dropping
<1>3. ASSUME NEW n \in DOMAIN queue'
      PROVE  /\ n + k \in DOMAIN queue
             /\ queue'[n].call = queue[n + k].call /\ queue'[n].index = queue[n + k].index
  <2>1. k \in 0..Len(queue)
    OBVIOUS
  <2>2. n + k \in DOMAIN queue
    BY ONLY <1>1, <1>2, <1>3, <2>1
  <2>3. Same(queue'[n], queue[n + k])
    BY DEF Dropping
  <2> QED BY <2>2, <2>3 DEF Same
<1>4. \A m, n \in DOMAIN queue' : m < n => m + k < n + k
  BY <1>1, <1>2
<1>5. Sorted'
  BY <1>3, <1>4 DEF OrderInv, Sorted, Before, InOrder
<1>6. RepliedFirst'
  <2>1. CASE \A n \in DOMAIN queue' : queue'[n].done = queue[n + k].done
    BY <1>3, <1>4, <2>1 DEF OrderInv, RepliedFirst
  <2>2. CASE \A n \in DOMAIN queue' : queue'[n].done = "no"
    BY <2>2 DEF RepliedFirst
  <2> QED BY <2>1, <2>2 DEF Dropping
<1>7. RanFirst'
  BY <1>2, <1>3, <1>4 DEF OrderInv, RanFirst, Ran
<1>8. AllSettled'
  <2> SUFFICES ASSUME NEW c \in DOMAIN calls, NEW i \in DOMAIN calls[c].cmds PROVE Settled(c, i)'
    BY <1>2 DEF AllSettled
  <2>1. CASE \E n \in 1..k : Is(queue[n], c, i)
    <3>1. PICK n \in 1..k : Is(queue[n], c, i)
      BY <2>1
    <3>2. n \in DOMAIN queue /\ queue[n].done \in Done
      <4>1. n \in DOMAIN queue
        BY <1>1
      <4>2. queue \in Seq(Request)
        BY DEF Inv, QueueTyped
      <4>3. queue[n] \in Request
        BY ONLY <4>1, <4>2
      <4> QED BY <4>1, <4>3 DEF Request
    <3>3. calls'[c].results[i] # "none"
      BY <3>1, <3>2 DEF Dropping, Is, Done
    <3>4. ASSUME NEW m \in DOMAIN queue' PROVE InOrder(c, i, queue'[m].call, queue'[m].index)
      <4>1. n < m + k
        BY <1>1, <1>2, <3>4
      <4> QED BY <1>3, <3>1, <3>2, <4>1 DEF OrderInv, Sorted, Before, Is
    <3> QED BY <3>3, <3>4 DEF Settled
  <2>2. CASE \A n \in 1..k : ~Is(queue[n], c, i)
    <3>1. calls'[c].results[i] = calls[c].results[i]
      BY <2>2 DEF Dropping
    <3>2. Settled(c, i)
      BY DEF OrderInv, AllSettled
    <3>3. CASE \E n \in DOMAIN queue : Is(queue[n], c, i)
      <4>1. PICK n \in DOMAIN queue : Is(queue[n], c, i)
        BY <3>3
      <4>2. n - k \in DOMAIN queue' /\ (n - k) + k = n
        BY <1>1, <1>2, <2>2, <4>1
      <4>3. Is(queue'[n - k], c, i)
        BY <1>3, <4>1, <4>2 DEF Is
      <4> QED BY <4>2, <4>3 DEF Settled
    <3> QED BY <1>3, <3>1, <3>2, <3>3 DEF Settled, InOrder
  <2> QED BY <2>1, <2>2
<1>9. status' = "ended" => queue' = <<>>
  <2> SUFFICES ASSUME status' = "ended" PROVE queue' = <<>>
    OBVIOUS
  <2>1. DOMAIN queue' = {}
    <3>1. CASE status = "ended"
      <4>1. \A n \in DOMAIN queue' : n + k \in DOMAIN queue
        BY <1>3
      <4>2. queue = <<>>
        BY <3>1 DEF OrderInv
      <4> QED BY <4>1, <4>2
    <3>2. CASE k = Len(queue)
      BY <1>1, <1>2, <3>2
    <3> QED BY <3>1, <3>2 DEF Dropping
  <2>2. queue' \in Seq(Request)
    BY DEF Inv, QueueTyped, Request
  <2> QED BY <2>1, <2>2
<1> QED BY <1>5, <1>6, <1>7, <1>8, <1>9 DEF OrderInv

\* Every step keeps the order.
LEMMA NextOrder == ASSUME Inv, OrderInv, [Next]_vars PROVE OrderInv'
<1>1. Inv'
  BY NextStep
<1> QED BY <1>1, NextStep, OrderCalling, OrderRunning, OrderDropping

-----------------------------------------------------------------------------
(* Sending requests again.                                                   *)

Plain(held) == held.ttl = FALSE

\* A command that is repeatable gives a key no expiry.
LEMMA RepeatableKeepsPlain ==
  ASSUME NEW op, op \notin NotRepeatable, NEW c, NEW held, Plain(held)
  PROVE  Plain(After(op, c, held))
<1>1. CASE ~RightType(op, held)
  BY <1>1 DEF After
<1>2. CASE RightType(op, held) /\ op \in {"set", "del", "hset", "sadd", "zadd", "hdel", "srem", "zrem"}
  BY <1>2 DEF After, Str, Nothing, Holding, Plain
<1>3. CASE RightType(op, held) /\ op \notin {"set", "del", "hset", "sadd", "zadd", "hdel", "srem", "zrem"}
  BY <1>3 DEF After, NotRepeatable
<1> QED BY <1>1, <1>2, <1>3

\* What a repeatable command leaves where it changes the value, it leaves of every other.
LEMMA RepeatableIsConstant ==
  ASSUME NEW op, op \notin NotRepeatable, NEW c,
         NEW held, Plain(held), After(op, c, held) # held,
         NEW other, Plain(other), RightType(op, other)
  PROVE  After(op, c, other) = After(op, c, held)
<1>1. RightType(op, held)
  BY DEF After
<1>2. op \in {"set", "del", "hset", "sadd", "zadd", "hdel", "srem", "zrem"}
  BY <1>1 DEF After, NotRepeatable
<1> QED BY <1>1, <1>2 DEF After, Holding, Plain

OpOf(c, i) == calls[c].cmds[i].op
KeyOf(c, i) == calls[c].cmds[i].key

\* A command that is not repeatable was used on the key, or one on it was not answered ok.
Spoilt(k) ==
  \E c \in DOMAIN calls : \E i \in DOMAIN calls[c].cmds :
    KeyOf(c, i) = k /\ (OpOf(c, i) \in NotRepeatable \/ calls[c].results[i] \in {"wrong", "failed"})

\* What ran on the key, later than a given command or ever, changes nothing where every
\* command runs once.
NoneAfter(k, c, i) ==
  \A d \in DOMAIN calls : \A j \in DOMAIN calls[d].cmds :
    KeyOf(d, j) = k /\ runs[d][j] > 0 /\ InOrder(c, i, d, j) => After(OpOf(d, j), d, once[k]) = once[k]

None(k) ==
  \A d \in DOMAIN calls : \A j \in DOMAIN calls[d].cmds :
    KeyOf(d, j) = k /\ runs[d][j] > 0 => After(OpOf(d, j), d, once[k]) = once[k]

\* It is still to run again; or a request on the key, not after it, has run with an error
\* that its caller will be told unless it runs again; or the key holds what it left.
Restored(k, c, i) ==
  \/ \E n \in DOMAIN queue : Is(queue[n], c, i) /\ queue[n].done = "no"
  \/ \E n \in DOMAIN queue :
       /\ queue[n].done = "wrong" /\ KeyOf(queue[n].call, queue[n].index) = k
       /\ Is(queue[n], c, i) \/ InOrder(queue[n].call, queue[n].index, c, i)
  \/ store[k] = once[k]

\* Command i of call c was the last to change the key where every command runs once.
LastChange(k, c, i) ==
  /\ c \in DOMAIN calls /\ i \in DOMAIN calls[c].cmds /\ KeyOf(c, i) = k
  /\ runs[c][i] > 0
  /\ \A held : Plain(held) /\ RightType(OpOf(c, i), held) => After(OpOf(c, i), c, held) = once[k]
  /\ NoneAfter(k, c, i)
  /\ Restored(k, c, i)

KeyInv(k) ==
  \/ Spoilt(k)
  \/ /\ Plain(store[k]) /\ Plain(once[k])
     /\ (store[k] = once[k] /\ None(k)) \/ \E c, i : LastChange(k, c, i)

ResendInv == \A k \in Own : KeyInv(k)

\* At the start no command ran at all.
LEMMA InitResend == Init => ResendInv
<1> SUFFICES ASSUME Init, NEW k \in Own PROVE KeyInv(k)
  BY DEF ResendInv
<1>1. PICK held \in Found \cup {Nothing} : store = [j \in Keys |-> IF j \in Own THEN held ELSE Str(0)]
  BY DEF Init
<1>2. Plain(held)
  BY DEF Found, Nothing, Str, Plain
<1>3. store[k] = held /\ once = store /\ calls = <<>>
  BY <1>1, OwnAssumption DEF Init
<1> QED BY <1>2, <1>3 DEF KeyInv, None

\* New requests ran not at all.
LEMMA ResendCalling == ASSUME Inv, Inv', Calling, NEW k \in Own, KeyInv(k) PROVE KeyInv(k)'
<1>1. \A c \in DOMAIN calls : c \in DOMAIN calls' /\ calls'[c] = calls[c] /\ runs'[c] = runs[c]
  BY DEF Calling
<1>2. \A c \in DOMAIN calls' : \A i \in DOMAIN calls'[c].cmds : runs'[c][i] > 0 => c \in DOMAIN calls
  <2>1. ~(0 > 0)
    OBVIOUS
  <2> QED BY <2>1 DEF Calling
<1>3. store' = store /\ once' = once
  BY DEF Calling
<1>4. \A n \in DOMAIN queue : n \in DOMAIN queue' /\ queue'[n] = queue[n]
  BY DEF Calling
<1>5. CASE Spoilt(k)
  <2>1. Spoilt(k)'
    BY <1>1, <1>5 DEF Spoilt, KeyOf, OpOf
  <2> QED BY <2>1 DEF KeyInv
<1>6. ASSUME Plain(store[k]), Plain(once[k]), store[k] = once[k], None(k) PROVE KeyInv(k)'
  <2>1. None(k)'
    BY <1>1, <1>2, <1>3, <1>6 DEF None, KeyOf, OpOf
  <2> QED BY <1>3, <1>6, <2>1 DEF KeyInv, Plain
<1>7. ASSUME Plain(store[k]), Plain(once[k]), NEW c, NEW i, LastChange(k, c, i) PROVE KeyInv(k)'
  <2>1. NoneAfter(k, c, i)'
    BY <1>1, <1>2, <1>3, <1>7 DEF LastChange, NoneAfter, KeyOf, OpOf
  <2>2. Restored(k, c, i)'
    <3>1. \A n \in DOMAIN queue : queue[n].call \in DOMAIN calls
      BY DEF Inv, QueueTyped
    <3> QED BY <1>1, <1>3, <1>4, <1>7, <3>1 DEF LastChange, Restored, Is, KeyOf
  <2>3. LastChange(k, c, i)'
    BY <1>1, <1>3, <1>7, <2>1, <2>2 DEF LastChange, KeyOf, OpOf
  <2> QED BY <1>3, <1>7, <2>3 DEF KeyInv, Plain
<1> QED BY <1>5, <1>6, <1>7 DEF KeyInv

\* A request runs.  If it is its first time and it changes the key where every command runs
\* once, it is the last to do so.  If it is another time, whatever was the last to change the
\* key waits to run again as well, or left the key as it is.
LEMMA ResendRunning ==
  ASSUME Inv, OrderInv, NEW n \in DOMAIN queue, Running(n), NEW k \in Own, KeyInv(k)
  PROVE  KeyInv(k)'
<1>1. PICK c0, i0, op : c0 = queue[n].call /\ i0 = queue[n].index /\ op = OpOf(c0, i0)
  OBVIOUS
<1>2. /\ c0 \in DOMAIN calls /\ i0 \in DOMAIN calls[c0].cmds
      /\ \A c \in DOMAIN calls : c \in Nat /\ \A i \in DOMAIN calls[c].cmds : i \in Nat /\ runs[c][i] \in Nat
  BY <1>1, Places
<1>3. /\ calls' = calls /\ DOMAIN queue' = DOMAIN queue
      /\ queue[n].done = "no" /\ queue'[n].done \in {"ok", "wrong"} /\ Is(queue'[n], c0, i0)
      /\ \A m \in DOMAIN queue : m # n => queue'[m] = queue[m]
  BY <1>1 DEF Running, NextToRun, Same, Is
<1>4. /\ runs'[c0][i0] = runs[c0][i0] + 1
      /\ \A c \in DOMAIN calls : \A i \in DOMAIN calls[c].cmds :
           ~(c = c0 /\ i = i0) => runs'[c][i] = runs[c][i]
  BY <1>1 DEF Running, Is
<1>5. k \in Keys
  BY OwnAssumption
<1>6. IF k # KeyOf(c0, i0) THEN store'[k] = store[k] /\ once'[k] = once[k]
      ELSE /\ queue'[n].done = IF RightType(op, store[k]) THEN "ok" ELSE "wrong"
           /\ store'[k] = After(op, c0, store[k])
           /\ once'[k] = IF runs[c0][i0] > 0 THEN once[k] ELSE After(op, c0, once[k])
  BY <1>1, <1>5 DEF Running, CommandOf, KeyOf, OpOf
<1>7. CASE Spoilt(k)
  <2>1. Spoilt(k)'
    BY <1>3, <1>7 DEF Spoilt, KeyOf, OpOf
  <2> QED BY <2>1 DEF KeyInv
<1>8. \A c, i : OpOf(c, i)' = OpOf(c, i) /\ KeyOf(c, i)' = KeyOf(c, i)
  BY <1>3 DEF OpOf, KeyOf
\* What of the queue stays as it is.
<1>9. ASSUME NEW m \in DOMAIN queue, queue[m].done = "wrong" PROVE queue'[m] = queue[m]
  BY <1>3, <1>9
<1>10. ASSUME NEW m \in DOMAIN queue, NEW c, NEW i, Is(queue[m], c, i), ~(c = c0 /\ i = i0)
       PROVE  queue'[m] = queue[m]
  BY <1>1, <1>3, <1>10 DEF Is
<1>11. CASE k # KeyOf(c0, i0)
  <2>1. store'[k] = store[k] /\ once'[k] = once[k]
    BY <1>6, <1>11
  <2>2. ASSUME NEW d \in DOMAIN calls, NEW j \in DOMAIN calls[d].cmds, KeyOf(d, j) = k
        PROVE  runs'[d][j] = runs[d][j]
    BY <1>4, <1>11, <2>2
  <2>3. ASSUME Plain(store[k]), Plain(once[k]), store[k] = once[k], None(k) PROVE KeyInv(k)'
    <3>1. None(k)'
      BY <1>3, <1>8, <2>1, <2>2, <2>3 DEF None
    <3> QED BY <2>1, <2>3, <3>1 DEF KeyInv, Plain
  <2>4. ASSUME Plain(store[k]), Plain(once[k]), NEW c, NEW i, LastChange(k, c, i) PROVE KeyInv(k)'
    <3>1. NoneAfter(k, c, i)'
      BY <1>3, <1>8, <2>1, <2>2, <2>4 DEF LastChange, NoneAfter
    <3>2. Restored(k, c, i)'
      BY <1>3, <1>8, <1>9, <1>10, <1>11, <2>1, <2>4 DEF LastChange, Restored
    <3>3. LastChange(k, c, i)'
      BY <1>3, <1>8, <2>1, <2>2, <2>4, <3>1, <3>2 DEF LastChange
    <3> QED BY <2>1, <2>4, <3>3 DEF KeyInv, Plain
  <2> QED BY <1>7, <2>3, <2>4 DEF KeyInv
<1>12. CASE k = KeyOf(c0, i0) /\ ~Spoilt(k)
  <2>1. op \notin NotRepeatable
    BY <1>1, <1>2, <1>12 DEF Spoilt
  <2>2. Plain(store[k]) /\ Plain(once[k])
    BY <1>12 DEF KeyInv
  <2>3. /\ queue'[n].done = IF RightType(op, store[k]) THEN "ok" ELSE "wrong"
        /\ store'[k] = After(op, c0, store[k])
        /\ once'[k] = IF runs[c0][i0] > 0 THEN once[k] ELSE After(op, c0, once[k])
    BY <1>6, <1>12
  <2>4. Plain(store'[k]) /\ Plain(once'[k])
    BY <2>1, <2>2, <2>3, RepeatableKeepsPlain
  <2>5. runs'[c0][i0] > 0
    BY <1>2, <1>4
  <2>6. ASSUME store[k] = once[k], None(k), once'[k] = once[k] PROVE KeyInv(k)'
    <3>1. After(op, c0, once[k]) = once[k]
      BY <1>1, <1>2, <1>12, <2>3, <2>6 DEF None
    <3>2. store'[k] = once'[k]
      BY <2>3, <2>6, <3>1
    <3>3. None(k)'
      BY <1>1, <1>3, <1>4, <1>8, <2>6, <3>1 DEF None
    <3> QED BY <2>4, <3>2, <3>3 DEF KeyInv, Plain
  <2>7. ASSUME NEW c, NEW i, LastChange(k, c, i), once'[k] = once[k] PROVE KeyInv(k)'
    <3>1. c \in DOMAIN calls /\ i \in DOMAIN calls[c].cmds /\ c \in Nat /\ i \in Nat /\ c0 \in Nat /\ i0 \in Nat
      BY <1>2, <2>7 DEF LastChange
    <3>2. runs'[c][i] > 0
      BY <1>4, <2>5, <2>7, <3>1 DEF LastChange
    <3>3. NoneAfter(k, c, i)'
      <4> SUFFICES ASSUME NEW d \in DOMAIN calls, NEW j \in DOMAIN calls[d].cmds,
                          KeyOf(d, j) = k, runs'[d][j] > 0, InOrder(c, i, d, j)
                   PROVE  After(OpOf(d, j), d, once[k]) = once[k]
        BY <1>3, <1>8, <2>7 DEF NoneAfter, InOrder
      <4>1. CASE ~(d = c0 /\ j = i0)
        BY <1>4, <2>7, <4>1 DEF LastChange, NoneAfter
      <4>2. CASE d = c0 /\ j = i0 /\ runs[c0][i0] > 0
        BY <2>7, <4>2 DEF LastChange, NoneAfter
      <4>3. CASE d = c0 /\ j = i0 /\ ~(runs[c0][i0] > 0)
        BY <1>1, <2>3, <2>7, <4>3
      <4> QED BY <4>1, <4>2, <4>3
    <3>4. Restored(k, c, i)'
      <4>1. CASE c = c0 /\ i = i0
        <5>1. CASE RightType(op, store[k])
          BY <1>1, <2>2, <2>3, <2>7, <4>1, <5>1 DEF LastChange, Restored
        <5>2. CASE ~RightType(op, store[k])
          BY <1>3, <1>8, <1>12, <2>3, <4>1, <5>2 DEF Restored, Is
        <5> QED BY <5>1, <5>2
      <4>2. CASE InOrder(c0, i0, c, i)
        <5>1. ~InOrder(c, i, c0, i0) /\ ~(c = c0 /\ i = i0)
          BY ONLY <3>1, <4>2 DEF InOrder
        <5>2. PICK p \in DOMAIN queue : Is(queue[p], c, i)
          BY <1>1, <3>1, <5>1 DEF OrderInv, AllSettled, Settled
        <5>3. n < p
          <6>1. n # p
            BY <1>1, <5>1, <5>2 DEF Is
          <6>2. ~(p < n)
            BY <1>1, <5>1, <5>2 DEF OrderInv, Sorted, Before, Is
          <6>3. n \in Nat /\ p \in Nat
            BY Places
          <6> QED BY ONLY <6>1, <6>2, <6>3
        <5>4. queue[p].done = "no"
          BY <1>3, <5>3 DEF OrderInv, RepliedFirst
        <5> QED BY <1>3, <1>10, <5>1, <5>2, <5>4 DEF Restored
      <4>3. CASE InOrder(c, i, c0, i0)
        <5>1. After(op, c0, once[k]) = once[k]
          BY <1>1, <1>2, <1>12, <2>3, <2>7, <4>3 DEF LastChange, NoneAfter
        <5>2. ~(c = c0 /\ i = i0)
          BY ONLY <3>1, <4>3 DEF InOrder
        <5>3. CASE store[k] = once[k]
          BY <2>3, <2>7, <5>1, <5>3 DEF Restored
        <5>4. CASE \E p \in DOMAIN queue : Is(queue[p], c, i) /\ queue[p].done = "no"
          BY <1>3, <1>10, <5>2, <5>4 DEF Restored
        <5>5. CASE \E p \in DOMAIN queue :
                     /\ queue[p].done = "wrong" /\ KeyOf(queue[p].call, queue[p].index) = k
                     /\ Is(queue[p], c, i) \/ InOrder(queue[p].call, queue[p].index, c, i)
          <6>1. PICK p \in DOMAIN queue :
                  /\ queue[p].done = "wrong" /\ KeyOf(queue[p].call, queue[p].index) = k
                  /\ Is(queue[p], c, i) \/ InOrder(queue[p].call, queue[p].index, c, i)
            BY <5>5
          <6>2. queue'[p] = queue[p]
            BY <1>9, <6>1
          <6> QED BY <1>3, <1>8, <6>1, <6>2 DEF Restored, Is, InOrder
        <5> QED BY <2>7, <5>3, <5>4, <5>5 DEF LastChange, Restored
      <4> QED BY <3>1, <4>1, <4>2, <4>3 DEF InOrder
    <3>5. LastChange(k, c, i)'
      BY <1>3, <1>8, <2>7, <3>1, <3>2, <3>3, <3>4 DEF LastChange
    <3> QED BY <2>4, <3>5 DEF KeyInv, Plain
  <2>8. CASE once'[k] # once[k]
    <3>1. ~(runs[c0][i0] > 0) /\ once'[k] = After(op, c0, once[k]) /\ After(op, c0, once[k]) # once[k]
      BY <2>3, <2>8
    <3>2. \A held : Plain(held) /\ RightType(op, held) => After(op, c0, held) = once'[k]
      BY <2>1, <2>2, <3>1, RepeatableIsConstant
    <3>3. NoneAfter(k, c0, i0)'
      <4> SUFFICES ASSUME NEW d \in DOMAIN calls, NEW j \in DOMAIN calls[d].cmds,
                          runs'[d][j] > 0, InOrder(c0, i0, d, j)
                   PROVE  FALSE
        BY <1>3, <1>8 DEF NoneAfter, InOrder
      <4>1. d \in Nat /\ j \in Nat /\ c0 \in Nat /\ i0 \in Nat
        BY <1>2
      <4>2. ~(d = c0 /\ j = i0) /\ ~InOrder(d, j, c0, i0)
        BY <4>1 DEF InOrder
      <4>3. runs[d][j] > 0
        BY <1>4, <4>2
      <4>4. PICK p \in DOMAIN queue : Is(queue[p], d, j)
        BY <1>1, <4>2 DEF OrderInv, AllSettled, Settled
      <4>5. n < p
        <5>1. n # p
          BY <1>1, <4>2, <4>4 DEF Is
        <5>2. ~(p < n)
          BY <1>1, <4>2, <4>4 DEF OrderInv, Sorted, Before, Is
        <5>3. n \in Nat /\ p \in Nat
          BY Places
        <5> QED BY ONLY <5>1, <5>2, <5>3
      <4>6. Ran(queue[n])
        BY <4>3, <4>4, <4>5 DEF OrderInv, RanFirst, Ran, Is
      <4> QED BY <1>1, <3>1, <4>6 DEF Ran
    <3>4. Restored(k, c0, i0)'
      <4>1. CASE RightType(op, store[k])
        BY <2>2, <2>3, <3>2, <4>1 DEF Restored
      <4>2. CASE ~RightType(op, store[k])
        BY <1>3, <1>8, <1>12, <2>3, <4>2 DEF Restored, Is
      <4> QED BY <4>1, <4>2
    <3>5. LastChange(k, c0, i0)'
      BY <1>1, <1>2, <1>3, <1>8, <1>12, <2>5, <3>2, <3>3, <3>4 DEF LastChange
    <3> QED BY <2>4, <3>5 DEF KeyInv, Plain
  <2> QED BY <1>12, <2>6, <2>7, <2>8 DEF KeyInv
<1> QED BY <1>7, <1>11, <1>12

\* The oldest requests are answered: what was the last to change the key is told so if it
\* left an error, and what is sent again runs again up to it.
LEMMA ResendDropping ==
  ASSUME Inv, OrderInv, NEW k \in 0..Len(queue), Dropping(k), NEW key \in Own, KeyInv(key)
  PROVE  KeyInv(key)'
<1>1. /\ Len(queue) \in Nat /\ DOMAIN queue = 1..Len(queue)
      /\ \A n \in DOMAIN queue : /\ queue[n].call \in DOMAIN calls
                                 /\ queue[n].index \in DOMAIN calls[queue[n].call].cmds
  BY Places
<1>2. /\ runs' = runs /\ store' = store /\ once' = once
      /\ DOMAIN calls' = DOMAIN calls /\ \A c \in DOMAIN calls : calls'[c].cmds = calls[c].cmds
  BY DEF Dropping
<1>3. \A c \in DOMAIN calls : \A i : OpOf(c, i)' = OpOf(c, i) /\ KeyOf(c, i)' = KeyOf(c, i)
  BY <1>2 DEF OpOf, KeyOf
<1>4. \A n \in 1..k : n \in DOMAIN queue
  BY <1>1
<1>5. ASSUME NEW n \in DOMAIN queue, n \notin 1..k
      PROVE  /\ n - k \in DOMAIN queue' /\ Same(queue'[n - k], queue[n])
             /\ queue'[n - k].done = queue[n].done \/ \A m \in DOMAIN queue' : queue'[m].done = "no"
  <2>1. n - k \in 1..Len(queue) - k /\ (n - k) + k = n
    BY <1>1, <1>5
  <2>2. n - k \in DOMAIN queue'
    BY <2>1 DEF Dropping
  <2> QED BY <2>1, <2>2 DEF Dropping
<1>6. CASE Spoilt(key)
  <2>0. PICK c \in DOMAIN calls : \E i \in DOMAIN calls[c].cmds :
          KeyOf(c, i) = key /\ (OpOf(c, i) \in NotRepeatable \/ calls[c].results[i] \in {"wrong", "failed"})
    BY <1>6 DEF Spoilt
  <2>1. PICK i \in DOMAIN calls[c].cmds :
          KeyOf(c, i) = key /\ (OpOf(c, i) \in NotRepeatable \/ calls[c].results[i] \in {"wrong", "failed"})
    BY <2>0
  <2>2. ASSUME calls[c].results[i] # "none" PROVE calls'[c].results[i] = calls[c].results[i]
    <3>1. \A n \in 1..k : ~Is(queue[n], c, i)
      BY <1>4, <2>2 DEF Inv, Waiting, Waits, Is
    <3> QED BY <3>1 DEF Dropping
  <2>3. Spoilt(key)'
    BY <1>2, <1>3, <2>1, <2>2 DEF Spoilt
  <2> QED BY <2>3 DEF KeyInv
<1>7. ASSUME NEW n \in 1..k, queue[n].done \in {"no", "wrong"},
             KeyOf(queue[n].call, queue[n].index) = key
      PROVE  Spoilt(key)'
  <2>1. calls'[queue[n].call].results[queue[n].index] \in {"wrong", "failed"}
    BY <1>7 DEF Dropping
  <2>2. queue[n].call \in DOMAIN calls /\ queue[n].index \in DOMAIN calls[queue[n].call].cmds
    BY <1>1, <1>4
  <2> QED BY <1>2, <1>3, <1>7, <2>1, <2>2 DEF Spoilt
<1>8. ASSUME Plain(store[key]), Plain(once[key]), store[key] = once[key], None(key) PROVE KeyInv(key)'
  <2>1. None(key)'
    BY <1>2, <1>3, <1>8 DEF None
  <2> QED BY <1>2, <1>8, <2>1 DEF KeyInv, Plain
<1>9. ASSUME Plain(store[key]), Plain(once[key]), NEW c, NEW i, LastChange(key, c, i), ~Spoilt(key)'
      PROVE  KeyInv(key)'
  <2>1. c \in DOMAIN calls /\ i \in DOMAIN calls[c].cmds /\ KeyOf(c, i) = key
    BY <1>9 DEF LastChange
  <2>2. NoneAfter(key, c, i)'
    BY <1>2, <1>3, <1>9 DEF LastChange, NoneAfter
  <2>3. ASSUME store[key] = once[key] PROVE Restored(key, c, i)'
    BY <1>2, <2>3 DEF Restored
  <2>4. ASSUME NEW p \in DOMAIN queue, Is(queue[p], c, i), queue[p].done = "no" PROVE Restored(key, c, i)'
    <3>1. p \notin 1..k
      BY <1>7, <1>9, <2>1, <2>4 DEF Is
    <3>2. p - k \in DOMAIN queue' /\ Is(queue'[p - k], c, i) /\ queue'[p - k].done = "no"
      BY <1>5, <2>4, <3>1 DEF Same, Is
    <3> QED BY <3>2 DEF Restored
  <2>5. ASSUME NEW p \in DOMAIN queue, queue[p].done = "wrong", KeyOf(queue[p].call, queue[p].index) = key,
               Is(queue[p], c, i) \/ InOrder(queue[p].call, queue[p].index, c, i)
        PROVE  Restored(key, c, i)'
    <3>1. p \notin 1..k
      BY <1>7, <1>9, <2>5
    <3>2. p - k \in DOMAIN queue' /\ Same(queue'[p - k], queue[p])
      BY <1>5, <3>1
    <3>3. CASE queue'[p - k].done = queue[p].done
      <4>1. /\ queue'[p - k].done = "wrong" /\ KeyOf(queue'[p - k].call, queue'[p - k].index) = key
            /\ Is(queue'[p - k], c, i) \/ InOrder(queue'[p - k].call, queue'[p - k].index, c, i)
        BY <2>5, <3>2, <3>3 DEF Same, Is
      <4>3. calls'[queue'[p - k].call].cmds[queue'[p - k].index].key = key
        BY <1>1, <1>2, <4>1, <3>2 DEF KeyOf, Same
      <4> QED BY <3>2, <4>1, <4>3 DEF Restored, KeyOf, Is, InOrder
    <3>4. CASE \A m \in DOMAIN queue' : queue'[m].done = "no"
      <4>1. PICK q \in DOMAIN queue : Is(queue[q], c, i) /\ ~(q < p)
        <5>1. CASE Is(queue[p], c, i)
          BY <1>1, <5>1
        <5>2. CASE InOrder(queue[p].call, queue[p].index, c, i)
          <6>1. /\ queue[p].call \in Nat /\ queue[p].index \in Nat /\ c \in Nat /\ i \in Nat
            BY <2>1, Places
          <6>2. ~InOrder(c, i, queue[p].call, queue[p].index)
            BY ONLY <5>2, <6>1 DEF InOrder
          <6>3. PICK q \in DOMAIN queue : Is(queue[q], c, i)
            BY <2>1, <6>2 DEF OrderInv, AllSettled, Settled
          <6>4. ~(q < p)
            BY <6>2, <6>3 DEF OrderInv, Sorted, Before, Is
          <6> QED BY <6>3, <6>4
        <5> QED BY <2>5, <5>1, <5>2
      <4>2. q \notin 1..k
        BY <1>1, <3>1, <4>1
      <4>3. q - k \in DOMAIN queue' /\ Is(queue'[q - k], c, i)
        BY <1>5, <4>1, <4>2 DEF Same, Is
      <4> QED BY <3>4, <4>3 DEF Restored
    <3> QED BY <1>5, <3>1, <3>3, <3>4
  <2>6. Restored(key, c, i)'
    BY <1>9, <2>3, <2>4, <2>5 DEF LastChange, Restored
  <2>7. LastChange(key, c, i)'
    BY <1>2, <1>3, <1>9, <2>1, <2>2, <2>6 DEF LastChange
  <2> QED BY <1>2, <1>9, <2>7 DEF KeyInv, Plain
<1> QED BY <1>6, <1>8, <1>9 DEF KeyInv

\* For any calls and any number of lost connections: no command overtakes one that was called
\* earlier, and a key all of whose commands are repeatable and were answered ok holds what it
\* would hold had none of them been sent again.
THEOREM ResendsStayInvisible == Spec => []ResendsInvisible
<1>1. Inv /\ OrderInv /\ ResendInv /\ [Next]_vars => ResendInv'
  <2> SUFFICES ASSUME Inv, OrderInv, ResendInv, [Next]_vars, NEW k \in Own PROVE KeyInv(k)'
    BY DEF ResendInv
  <2>1. KeyInv(k) /\ Inv'
    BY NextStep DEF ResendInv
  <2> QED BY <2>1, NextStep, ResendCalling, ResendRunning, ResendDropping
<1>2. Inv /\ OrderInv /\ ResendInv => ResendsInvisible
  <2> SUFFICES ASSUME Inv, OrderInv, ResendInv PROVE ResendsInvisible
    OBVIOUS
  <2>1. ASSUME NEW c \in DOMAIN calls, NEW d \in DOMAIN calls, NEW i \in DOMAIN runs[c],
               NEW j \in DOMAIN runs[d], InOrder(c, i, d, j), runs[d][j] > 0, ~(runs[c][i] > 0)
        PROVE  calls[c].results[i] = "failed"
    <3>1. /\ i \in DOMAIN calls[c].cmds /\ j \in DOMAIN calls[d].cmds
          /\ c \in Nat /\ d \in Nat /\ i \in Nat /\ j \in Nat
      BY Places
    <3>2. ~InOrder(d, j, c, i)
      BY ONLY <2>1, <3>1 DEF InOrder
    <3>3. ASSUME NEW p \in DOMAIN queue, Is(queue[p], c, i) PROVE FALSE
      <4>1. PICK q \in DOMAIN queue : Is(queue[q], d, j)
        BY <3>1, <3>2, <3>3 DEF OrderInv, AllSettled, Settled, Is
      <4>2. p < q
        <5>1. p # q
          BY <2>1, <3>1, <3>3, <4>1 DEF Is, InOrder
        <5>2. ~(q < p)
          BY <3>2, <3>3, <4>1 DEF OrderInv, Sorted, Before, Is
        <5>3. p \in Nat /\ q \in Nat
          BY Places
        <5> QED BY ONLY <5>1, <5>2, <5>3
      <4> QED BY <2>1, <3>3, <4>1, <4>2 DEF OrderInv, RanFirst, Ran, Is
    <3>4. calls[c].results[i] # "none"
      BY <3>1, <3>3 DEF OrderInv, AllSettled, Settled
    <3>5. calls[c].results[i] \notin {"ok", "wrong"}
      BY <2>1, <3>1 DEF Inv, AllTold, Told
    <3>6. calls[c].results[i] \in Results
      <4>1. CallsTyped
        BY DEF Inv
      <4>2. calls[c] \in Made /\ Len(calls[c].results) = Len(calls[c].cmds)
        BY ONLY <4>1, <2>1 DEF CallsTyped
      <4>3. calls[c].results \in Seq(Results) /\ calls[c].cmds \in Seq(Permitted)
        BY ONLY <4>2 DEF Made
      <4> QED BY ONLY <3>1, <4>2, <4>3
    <3> QED BY <3>4, <3>5, <3>6 DEF Results
  <2>2. ASSUME NEW k \in Own,
               \A c \in DOMAIN calls : \A i \in DOMAIN calls[c].cmds :
                 calls[c].cmds[i].key = k => /\ calls[c].cmds[i].op \notin NotRepeatable
                                             /\ calls[c].results[i] = "ok"
        PROVE  store[k] = once[k]
    <3>1. KeyInv(k) /\ ~Spoilt(k)
      BY <2>2 DEF ResendInv, Spoilt, KeyOf, OpOf
    <3>2. ASSUME NEW c, NEW i, LastChange(k, c, i) PROVE store[k] = once[k]
      <4>1. \A n \in DOMAIN queue : KeyOf(queue[n].call, queue[n].index) # k
        <5>1. \A n \in DOMAIN queue : /\ queue[n].call \in DOMAIN calls
                                      /\ queue[n].index \in DOMAIN calls[queue[n].call].cmds
                                      /\ calls[queue[n].call].results[queue[n].index] = "none"
          BY DEF Inv, QueueTyped, Waiting, Waits
        <5> QED BY <2>2, <5>1 DEF KeyOf
      <4> QED BY <3>2, <4>1 DEF LastChange, Restored, Is
    <3> QED BY <3>1, <3>2 DEF KeyInv
  <2> QED BY <2>1, <2>2 DEF ResendsInvisible
<1>3. Init => Inv /\ OrderInv /\ ResendInv
  BY InitInv, InitOrder, InitResend
<1>4. Inv /\ OrderInv /\ [Next]_vars => OrderInv'
  BY NextOrder
<1>5. Spec => []Inv
  BY RedisInvariant
<1>6. Spec => [](Inv /\ OrderInv /\ ResendInv)
  BY <1>1, <1>3, <1>4, NextStep, PTL DEF Spec
<1> QED BY <1>2, <1>6, PTL

-----------------------------------------------------------------------------
(* The guards.                                                               *)

\* A command that no method of a read-only connection refuses changes no value.
LEMMA ReadsChangeNothing ==
  ASSUME NEW op \in KeyedTools, op \notin GuardedMethods, NEW c, NEW held
  PROVE  After(op, c, held) = held
<1>1. op \notin {"set", "del", "hset", "sadd", "zadd", "hdel", "srem", "zrem", "lpush", "rpush",
                 "lpop", "rpop", "expire"}
  BY DEF GuardedMethods, StringWrites, HashWrites, ListWrites, SetWrites, ZsetWrites, KeyWrites
<1> QED BY <1>1 DEF After

\* For any keys and any calls, made again or not: a key without the prefix, and on a
\* read-only connection any key, keeps its value, and redis_scan names only keys with the
\* prefix.
THEOREM GuardsAreKept == Spec => GuardsHold
<1> DEFINE Kept == \A k \in Keys : readonly \/ k \notin Own => store'[k] = store[k]
<1>1. ASSUME Inv, [Next]_vars PROVE Kept
  <2> SUFFICES ASSUME NEW k \in Keys, readonly \/ k \notin Own, store'[k] # store[k] PROVE FALSE
    OBVIOUS
  <2>1. Execute
    BY <1>1 DEF Next, Call, StringCall, HashCall, ListCall, SetCall, ZsetCall, KeyCall, KeylessCall,
                PipelineCall, Single, Issue, Reply, Lose, Connects, ConnectFails, Close, vars
  <2>2. PICK n \in DOMAIN queue :
          LET item == queue[n]
              cmd  == CommandOf(item)
          IN  /\ cmd.op \notin KeylessTools
              /\ store' = [store EXCEPT ![cmd.key] = After(cmd.op, item.call, @)]
    BY <2>1 DEF Execute
  <2>3. PICK item, cmd : item = queue[n] /\ cmd = CommandOf(item)
    OBVIOUS
  <2>4. cmd \in Permitted
    <3>1. item.call \in DOMAIN calls /\ item.index \in DOMAIN calls[item.call].cmds
      BY <1>1, <2>3 DEF Inv, QueueTyped
    <3>2. calls[item.call].cmds \in Seq(Permitted)
      <4>1. calls[item.call] \in Made
        BY <1>1, <3>1 DEF Inv, CallsTyped
      <4> QED BY <4>1 DEF Made
    <3> QED BY <2>3, <3>1, <3>2 DEF CommandOf
  <2>5. /\ cmd.op \in KeyedTools /\ cmd.key \in Own /\ (readonly => cmd.op \notin GuardedMethods)
        /\ store' = [store EXCEPT ![cmd.key] = After(cmd.op, item.call, @)]
    BY <2>2, <2>3, <2>4 DEF Permitted
  <2>6. k = cmd.key /\ readonly /\ store'[k] = After(cmd.op, item.call, store[k])
    BY <1>1, <2>5 DEF Inv
  <2> QED BY <2>5, <2>6, ReadsChangeNothing
<1>2. Inv => listed \subseteq Own
  BY DEF Inv
<1> HIDE DEF Kept
<1>3. Spec => [][Kept]_vars /\ [](listed \subseteq Own)
  BY <1>1, <1>2, RedisInvariant, PTL DEF Spec
<1> QED BY <1>3 DEF GuardsHold, Kept

-----------------------------------------------------------------------------
\* A call is told of each command once: neither a second reply nor an error of the client
\* replaces what it was told.
ToldOnce ==
  \A c \in DOMAIN calls : \A i \in DOMAIN calls[c].cmds :
    calls[c].results[i] # "none" => calls'[c].results[i] = calls[c].results[i]

\* What fails was not answered before.
LEMMA FailingTellsOnce ==
  ASSUME Inv, readonly' = readonly, NEW items, items \subseteq Range(queue), FailAll(items)
  PROVE  ToldOnce
<1>1. \A c \in DOMAIN calls : \A i \in DOMAIN calls[c].cmds :
        calls'[c].results[i] = IF \E item \in items : item.call = c /\ item.index = i
                               THEN "failed" ELSE calls[c].results[i]
  BY FailAllAnswers
<1>2. ASSUME NEW item \in items PROVE calls[item.call].results[item.index] = "none"
  BY DEF Range, Inv, Waiting, Waits
<1> QED BY <1>1, <1>2 DEF ToldOnce

\* For any calls and any number of lost connections: what a call was told of a command is
\* never told differently.
THEOREM AnswersStay == Spec => [][ToldOnce]_vars
<1>1. ASSUME Inv, [Next]_vars PROVE ToldOnce \/ UNCHANGED vars
  <2>1. CASE Call
    <3>1. PICK made : calls' = Append(calls, made)
      BY <2>1 DEF Call, StringCall, HashCall, ListCall, SetCall, ZsetCall, KeyCall, KeylessCall,
                  PipelineCall, Single, Issue
    <3>2. calls \in Seq(Made)
      BY <1>1 DEF Inv, CallsTyped
    <3> QED BY <3>1, <3>2 DEF ToldOnce
  <2>2. CASE Reply
    <3>1. PICK item : item = Head(queue)
      OBVIOUS
    <3>2. /\ calls' = [calls EXCEPT ![item.call].results = WithResult(@, item.index, item.done)]
          /\ readonly' = readonly /\ item.done # "no" /\ queue # <<>>
      BY <2>2, <3>1 DEF Reply
    <3>3. queue \in Seq(Request) /\ 1 \in DOMAIN queue
      BY <1>1, <3>2 DEF Inv, QueueTyped
    <3>4. item = queue[1]
      BY <3>1, <3>3
    <3>5. /\ item \in Request /\ item.call \in DOMAIN calls /\ Waits(item)
          /\ item.index \in DOMAIN calls[item.call].cmds
      BY <1>1, <3>3, <3>4 DEF Inv, QueueTyped, Waiting
    <3>6. item.done \in Done
      BY ONLY <3>5 DEF Request
    <3>7. item.done \in {"ok", "wrong"}
      BY <3>2, <3>6 DEF Done
    <3>8. \A c \in DOMAIN calls : \A i \in DOMAIN calls[c].cmds :
            ~(c = item.call /\ i = item.index) => calls'[c].results[i] = calls[c].results[i]
      BY <1>1, <3>2, <3>5, <3>7, ReplyAnswers
    <3> QED BY <3>5, <3>8 DEF ToldOnce, Waits
  <2>3. CASE Lose
    <3>1. PICK k \in 0..Len(queue) : FailAll({queue[m] : m \in 1..k})
      BY <2>3 DEF Lose
    <3>2. {queue[m] : m \in 1..k} \subseteq Range(queue) /\ readonly' = readonly
      BY <1>1, <2>3 DEF Lose, Range, Inv, QueueTyped
    <3> QED BY <1>1, <3>1, <3>2, FailingTellsOnce
  <2>4. CASE FailAll(Range(queue)) /\ readonly' = readonly
    BY <1>1, <2>4, FailingTellsOnce
  <2>5. CASE calls' = calls
    BY <2>5 DEF ToldOnce
  <2>6. Call \/ Reply \/ Lose \/ (FailAll(Range(queue)) /\ readonly' = readonly) \/ calls' = calls
    BY <1>1 DEF Next, Execute, Connects, ConnectFails, Close, vars
  <2> QED BY <2>1, <2>2, <2>3, <2>4, <2>5, <2>6
<1> QED BY <1>1, RedisInvariant, PTL DEF Spec
=============================================================================
