----------------------- MODULE MongoTransactionsProofs -----------------------
(* What TLAPS proves of MongoTransactions, for any transactions, numbers of  *)
(* operations and faults.                                                    *)
EXTENDS MongoTransactions, TLAPS

SessionStates ==
  {"none", "starting", "in_progress", "committed", "committed_empty", "aborted", "no_transaction"}

TypeOK ==
  /\ table \subseteq Txs /\ ended \subseteq Txs
  /\ commitFailed \subseteq Txs /\ overlapped \subseteq Txs
  /\ session \in [Txs -> SessionStates]
  /\ req \in [Writes -> {"unused", "called", "first", "within", "outside", "answered"}]
  /\ ending \in [Txs -> [Enders -> {"idle", "sent", "done", "refused"}]]
  /\ server \in [Txs -> {"none", "open", "committed", "aborted"}]
  /\ pend \subseteq Writes /\ durable \subseteq Writes /\ acked \subseteq Writes
  /\ told \in [Txs -> SUBSET {"committed", "rolled_back"}]

InFlight == {"first", "within", "outside"}

\* Nothing of t was sent yet.
Untouched(t) ==
  /\ server[t] = "none" /\ \A n \in 1..MaxWrites : req[<<t, n>>] \notin InFlight
  /\ \A w \in durable \cup acked : w[1] # t

\* What the states of a session say of its table entry and its end.
Sessions ==
  \A t \in Txs :
    /\ t \in table \/ told[t] # {} => session[t] # "none"
    /\ \A n \in 1..MaxWrites : req[<<t, n>>] # "unused" => session[t] # "none"
    /\ session[t] \in {"none", "starting"} => Untouched(t)
    /\ session[t] = "committed_empty" => Untouched(t) /\ t \in ended \ table
    /\ session[t] \notin Active \cup {"none"} => t \in ended \cup commitFailed
    /\ \A e \in Enders : ending[t][e] # "idle" => session[t] \notin {"none", "starting"}

\* A transaction is started once at the server, and never again after its end.
Started ==
  \A t \in Txs, n \in 1..MaxWrites :
    /\ req[<<t, n>>] = "first" => server[t] \in {"none", "aborted"}
    /\ \A m \in 1..MaxWrites : req[<<t, n>>] = "first" /\ req[<<t, m>>] = "first" => n = m
    /\ req[<<t, n>>] = "outside" => t \in commitFailed

\* Where the acknowledged writes are.
AckedIn(t, where) == \A w \in acked : w[1] = t => w \in where

WrittenOf(t) ==
  /\ server[t] \in {"none", "committed"} => AckedIn(t, durable)
  /\ (\E n \in 1..MaxWrites : req[<<t, n>>] = "first") => AckedIn(t, durable)
  /\ server[t] = "open" => AckedIn(t, pend \cup durable)
  /\ ending[t]["commit"] = "done" => server[t] = "committed"
  /\ "committed" \in told[t] => server[t] = "committed" \/ session[t] = "committed_empty"

Written == \A t \in Txs : WrittenOf(t)

\* What is known of a transaction that no two calls were ending at once.
AloneOf(t) ==
  /\ \A d, e \in Enders : ending[t][d] # "idle" /\ ending[t][e] # "idle" => d = e
  /\ t \in commitFailed => session[t] \in {"committed", "no_transaction"}
  /\ ending[t]["commit"] # "idle" => session[t] \in {"in_progress", "committed", "no_transaction"}
  /\ session[t] \in Active /\ ending[t]["commit"] = "idle" => \A w \in durable : w[1] # t
  /\ "rolled_back" \in told[t] =>
       /\ \A w \in durable : w[1] # t
       /\ ending[t]["commit"] = "idle" /\ t \notin table \cup commitFailed

Alone == \A t \in Txs \ overlapped : AloneOf(t)

IInv ==
  /\ TypeOK /\ Sessions /\ Started /\ Written /\ Alone
  /\ OnlyCommitPersistsUntilOneFails /\ SessionsEnd

\* A new transaction has neither writes nor a table entry to lose.
LEMMA BeginStep ==
  ASSUME IInv, NEW t \in Txs, Begin(t)
  PROVE  IInv'
<1> USE MongoAssumption DEF IInv, Writes, Enders, Active, serverVars, endVars, Begin
<1>1. TypeOK'
  BY DEF TypeOK, SessionStates
<1>2. Sessions'
  BY DEF TypeOK, SessionStates, Sessions, Untouched, InFlight
<1>3. Started'
  BY DEF TypeOK, Started
<1>4. Written'
  <2> SUFFICES ASSUME NEW u \in Txs
               PROVE  WrittenOf(u)'
    BY DEF Written
  <2>1. CASE u # t
    BY <2>1 DEF TypeOK, Written, WrittenOf, AckedIn
  <2>2. CASE u = t
    BY <2>2 DEF TypeOK, Sessions, Untouched, InFlight, Started, Written, WrittenOf, AckedIn
  <2> QED
    BY <2>1, <2>2
<1>5. Alone'
  BY DEF TypeOK, SessionStates, Sessions, Untouched, InFlight, Started, Alone, AloneOf
<1>6. OnlyCommitPersistsUntilOneFails'
  BY DEF TypeOK, Started, OnlyCommitPersistsUntilOneFails
<1>7. SessionsEnd'
  BY DEF TypeOK, SessionStates, Sessions, SessionsEnd
<1> QED
  BY <1>1, <1>2, <1>3, <1>4, <1>5, <1>6, <1>7

\* A commit that is only sent changes no write; one the library answers by itself is of an untouched transaction.
LEMMA CommitStep ==
  ASSUME IInv, NEW t \in Txs, Commit(t)
  PROVE  IInv'
<1> USE MongoAssumption DEF IInv, Writes, Enders, Active, serverVars, endVars, Commit, Resolve, Overlaps
<1>1. TypeOK'
  <2>1. ending' \in [Txs -> [Enders -> {"idle", "sent", "done", "refused"}]]
    <3>1. \E v \in {"idle", "sent"} : ending' = [ending EXCEPT ![t]["commit"] = v] \/ ending' = ending
      OBVIOUS
    <3> QED
      BY <3>1 DEF TypeOK
  <2>2. session' \in [Txs -> SessionStates] /\ server' \in [Txs -> {"none", "open", "committed", "aborted"}]
    BY DEF TypeOK, SessionStates
  <2>3. told' \in [Txs -> SUBSET {"committed", "rolled_back"}] /\ req' = req
    <3>1. told' \in {told, [told EXCEPT ![t] = @ \cup {"committed"}]} /\ req' = req
      OBVIOUS
    <3> QED
      BY <3>1 DEF TypeOK
  <2>4. pend' \subseteq Writes /\ durable' \subseteq Writes /\ acked' \subseteq Writes
    BY DEF TypeOK
  <2>5. table' \subseteq Txs /\ ended' \subseteq Txs /\ commitFailed' \subseteq Txs /\ overlapped' \subseteq Txs
    BY DEF TypeOK
  <2> QED
    BY <2>1, <2>2, <2>3, <2>4, <2>5 DEF TypeOK
<1>2. Sessions'
  <2> SUFFICES ASSUME NEW u \in Txs
               PROVE  /\ u \in table' \/ told'[u] # {} => session'[u] # "none"
                      /\ \A n \in 1..MaxWrites : req'[<<u, n>>] # "unused" => session'[u] # "none"
                      /\ session'[u] \in {"none", "starting"} => Untouched(u)'
                      /\ session'[u] = "committed_empty" => Untouched(u)' /\ u \in ended' \ table'
                      /\ session'[u] \notin {"starting", "in_progress", "none"} => u \in ended' \cup commitFailed'
                      /\ \A e \in Enders : ending'[u][e] # "idle" => session'[u] \notin {"none", "starting"}
    BY DEF Sessions
  <2>1. Untouched(u)' = Untouched(u)
    BY DEF Untouched
  <2>2. CASE u # t
    <3>1. session'[u] = session[u] /\ told'[u] = told[u] /\ ending'[u] = ending[u]
      BY <2>2 DEF TypeOK
    <3> QED
      BY <2>1, <2>2, <3>1 DEF Sessions
  <2>3. CASE u = t
    <3>1. session[t] # "none" /\ session'[t] \notin {"none", "starting"}
      BY DEF TypeOK, Sessions
    <3>2. session[t] \in {"starting", "committed_empty"} => Untouched(t) /\ t \in ended' \ table'
      BY DEF Sessions
    <3>3. session'[t] = "committed_empty" <=> session[t] \in {"starting", "committed_empty"}
      BY DEF TypeOK
    <3>4. session[t] \notin {"starting", "committed_empty"} => session'[t] = session[t] /\ ended' = ended
      OBVIOUS
    <3>5. commitFailed' = commitFailed /\ req' = req
      OBVIOUS
    <3> HIDE DEF Commit, Resolve, Overlaps
    <3> QED
      BY <2>1, <2>3, <3>1, <3>2, <3>3, <3>4, <3>5 DEF Sessions
  <2> QED
    BY <2>2, <2>3
<1>3. Started'
  BY DEF TypeOK, Started
<1>4. Written'
  <2> SUFFICES ASSUME NEW u \in Txs
               PROVE  WrittenOf(u)'
    BY DEF Written
  <2>1. CASE u # t
    BY <2>1 DEF TypeOK, Written, WrittenOf, AckedIn
  <2>2. CASE u = t
    BY <2>2 DEF TypeOK, Sessions, Untouched, InFlight, Started, Written, WrittenOf, AckedIn
  <2> QED
    BY <2>1, <2>2
<1>5. Alone'
  BY DEF TypeOK, SessionStates, Sessions, Untouched, InFlight, Started, Alone, AloneOf
<1>6. OnlyCommitPersistsUntilOneFails'
  BY DEF TypeOK, Started, OnlyCommitPersistsUntilOneFails
<1>7. SessionsEnd'
  BY SMTT(40) DEF TypeOK, SessionStates, Sessions, SessionsEnd
<1> QED
  BY <1>1, <1>2, <1>3, <1>4, <1>5, <1>6, <1>7

\* A rollback that is only sent changes no write; an untouched transaction ends at once.
LEMMA RollbackStep ==
  ASSUME IInv, NEW t \in Txs, Rollback(t)
  PROVE  IInv'
<1> USE MongoAssumption DEF IInv, Writes, Enders, Active, serverVars, endVars, Rollback, Resolve, Overlaps
<1>1. TypeOK'
  <2>1. ending' \in [Txs -> [Enders -> {"idle", "sent", "done", "refused"}]]
    BY DEF TypeOK
  <2>2. session' \in [Txs -> SessionStates] /\ server' \in [Txs -> {"none", "open", "committed", "aborted"}]
    BY DEF TypeOK, SessionStates
  <2>3. told' \in [Txs -> SUBSET {"committed", "rolled_back"}] /\ req' = req
    <3>1. told' \in {told, [told EXCEPT ![t] = @ \cup {"rolled_back"}]} /\ req' = req
      OBVIOUS
    <3> QED
      BY <3>1 DEF TypeOK
  <2>4. pend' \subseteq Writes /\ durable' \subseteq Writes /\ acked' \subseteq Writes
    BY DEF TypeOK
  <2>5. table' \subseteq Txs /\ ended' \subseteq Txs /\ commitFailed' \subseteq Txs /\ overlapped' \subseteq Txs
    BY DEF TypeOK
  <2> QED
    BY <2>1, <2>2, <2>3, <2>4, <2>5 DEF TypeOK
<1>2. Sessions'
  BY DEF TypeOK, SessionStates, Sessions, Untouched, InFlight
<1>3. Started'
  BY DEF TypeOK, Started
<1>4. Written'
  <2> SUFFICES ASSUME NEW u \in Txs
               PROVE  WrittenOf(u)'
    BY DEF Written
  <2>1. CASE u # t
    BY <2>1 DEF TypeOK, Written, WrittenOf, AckedIn
  <2>2. CASE u = t
    BY <2>2 DEF TypeOK, Sessions, Untouched, InFlight, Started, Written, WrittenOf, AckedIn
  <2> QED
    BY <2>1, <2>2
<1>5. Alone'
  BY DEF TypeOK, SessionStates, Sessions, Untouched, InFlight, Started, Alone, AloneOf
<1>6. OnlyCommitPersistsUntilOneFails'
  BY DEF TypeOK, Started, OnlyCommitPersistsUntilOneFails
<1>7. SessionsEnd'
  BY DEF TypeOK, SessionStates, Sessions, SessionsEnd
<1> QED
  BY <1>1, <1>2, <1>3, <1>4, <1>5, <1>6, <1>7

\* The timer drops the entry only while it ends the session itself or nothing is left to end.
LEMMA CleanupStep ==
  ASSUME IInv, NEW t \in Txs, Cleanup(t)
  PROVE  IInv'
<1> USE MongoAssumption DEF IInv, Writes, Enders, Active, serverVars, endVars, Cleanup, Resolve, Overlaps
<1>1. TypeOK'
  <2>1. ending' \in [Txs -> [Enders -> {"idle", "sent", "done", "refused"}]]
    BY DEF TypeOK
  <2>2. session' \in [Txs -> SessionStates] /\ server' \in [Txs -> {"none", "open", "committed", "aborted"}]
    BY DEF TypeOK, SessionStates
  <2>3. told' \in [Txs -> SUBSET {"committed", "rolled_back"}] /\ req' = req
    BY DEF TypeOK
  <2>4. pend' \subseteq Writes /\ durable' \subseteq Writes /\ acked' \subseteq Writes
    BY DEF TypeOK
  <2>5. table' \subseteq Txs /\ ended' \subseteq Txs /\ commitFailed' \subseteq Txs /\ overlapped' \subseteq Txs
    BY DEF TypeOK
  <2> QED
    BY <2>1, <2>2, <2>3, <2>4, <2>5 DEF TypeOK
<1>2. Sessions'
  BY DEF TypeOK, SessionStates, Sessions, Untouched, InFlight
<1>3. Started'
  BY DEF TypeOK, Started
<1>4. Written'
  <2> SUFFICES ASSUME NEW u \in Txs
               PROVE  WrittenOf(u)'
    BY DEF Written
  <2>1. CASE u # t
    BY <2>1 DEF TypeOK, Written, WrittenOf, AckedIn
  <2>2. CASE u = t
    BY <2>2 DEF TypeOK, Sessions, Untouched, InFlight, Started, Written, WrittenOf, AckedIn
  <2> QED
    BY <2>1, <2>2
<1>5. Alone'
  BY DEF TypeOK, SessionStates, Sessions, Untouched, InFlight, Started, Alone, AloneOf
<1>6. OnlyCommitPersistsUntilOneFails'
  BY DEF TypeOK, Started, OnlyCommitPersistsUntilOneFails
<1>7. SessionsEnd'
  <2>1. \A u \in Txs : u # t =>
          /\ session'[u] = session[u] /\ ending'[u] = ending[u]
          /\ u \in table' <=> u \in table
          /\ u \in ended' <=> u \in ended
    BY DEF TypeOK
  <2>2. t \in ended' \cup commitFailed' \/ ending'[t]["cleanup"] # "idle"
    BY DEF TypeOK, Sessions
  <2>3. commitFailed' = commitFailed
    OBVIOUS
  <2> HIDE DEF Cleanup, Resolve, Overlaps
  <2> QED
    BY <2>1, <2>2, <2>3 DEF SessionsEnd
<1> QED
  BY <1>1, <1>2, <1>3, <1>4, <1>5, <1>6, <1>7

\* A transaction the server ends by itself loses only writes that are not durable.
LEMMA ExpireStep ==
  ASSUME IInv, NEW t \in Txs, Expire(t)
  PROVE  IInv'
<1> USE MongoAssumption DEF IInv, Writes, Enders, Active, serverVars, endVars, Expire, PendingOf
<1>1. TypeOK'
  BY DEF TypeOK, SessionStates
<1>2. Sessions'
  BY DEF TypeOK, SessionStates, Sessions, Untouched, InFlight
<1>3. Started'
  BY DEF TypeOK, Started
<1>4. Written'
  <2> SUFFICES ASSUME NEW u \in Txs
               PROVE  WrittenOf(u)'
    BY DEF Written
  <2>1. CASE u # t
    BY <2>1 DEF TypeOK, Written, WrittenOf, AckedIn
  <2>2. CASE u = t
    <3>1. server[t] = "open" /\ server'[t] = "aborted" /\ durable' = durable /\ acked' = acked
      BY DEF TypeOK
    <3>2. "committed" \notin told[t]
      BY <3>1 DEF Written, WrittenOf, Sessions, Untouched
    <3> QED
      BY <2>2, <3>1, <3>2 DEF Written, WrittenOf, AckedIn
  <2> QED
    BY <2>1, <2>2
<1>5. Alone'
  BY DEF TypeOK, SessionStates, Sessions, Untouched, InFlight, Started, Alone, AloneOf
<1>6. OnlyCommitPersistsUntilOneFails'
  BY DEF TypeOK, Started, OnlyCommitPersistsUntilOneFails
<1>7. SessionsEnd'
  BY DEF TypeOK, SessionStates, Sessions, SessionsEnd
<1> QED
  BY <1>1, <1>2, <1>3, <1>4, <1>5, <1>6, <1>7

\* A commit at the server makes exactly the writes pending there durable.
LEMMA CommitAtServerStep ==
  ASSUME IInv, NEW t \in Txs, CommitAtServer(t)
  PROVE  IInv'
<1> USE MongoAssumption DEF IInv, Writes, Enders, Active, serverVars, endVars, CommitAtServer, PendingOf
<1>1. TypeOK'
  <2>1. ending' \in [Txs -> [Enders -> {"idle", "sent", "done", "refused"}]]
    BY SMTT(40) DEF TypeOK
  <2>2. session' \in [Txs -> SessionStates] /\ server' \in [Txs -> {"none", "open", "committed", "aborted"}]
    BY DEF TypeOK, SessionStates
  <2>3. told' \in [Txs -> SUBSET {"committed", "rolled_back"}] /\ req' = req
    BY DEF TypeOK
  <2>4. pend' \subseteq Writes /\ durable' \subseteq Writes /\ acked' \subseteq Writes
    BY DEF TypeOK
  <2>5. table' \subseteq Txs /\ ended' \subseteq Txs /\ commitFailed' \subseteq Txs /\ overlapped' \subseteq Txs
    BY DEF TypeOK
  <2> QED
    BY <2>1, <2>2, <2>3, <2>4, <2>5 DEF TypeOK
<1>2. Sessions'
  BY DEF TypeOK, SessionStates, Sessions, Untouched, InFlight
<1>3. Started'
  BY DEF TypeOK, Started
<1>4. Written'
  <2> SUFFICES ASSUME NEW u \in Txs
               PROVE  WrittenOf(u)'
    BY DEF Written
  <2>1. CASE u # t
    BY <2>1 DEF TypeOK, Written, WrittenOf, AckedIn
  <2>2. CASE u = t
    BY <2>2 DEF TypeOK, Sessions, Untouched, InFlight, Started, Written, WrittenOf, AckedIn
  <2> QED
    BY <2>1, <2>2
<1>5. Alone'
  BY DEF TypeOK, SessionStates, Sessions, Untouched, InFlight, Started, Alone, AloneOf
<1>6. OnlyCommitPersistsUntilOneFails'
  BY DEF TypeOK, Started, OnlyCommitPersistsUntilOneFails
<1>7. SessionsEnd'
  BY DEF TypeOK, SessionStates, Sessions, SessionsEnd
<1> QED
  BY <1>1, <1>2, <1>3, <1>4, <1>5, <1>6, <1>7

\* Success is answered only for a commit the server has done; any other reply leaves a failed commit.
LEMMA CommitRepliedStep ==
  ASSUME IInv, NEW t \in Txs, CommitReplied(t)
  PROVE  IInv'
<1> USE MongoAssumption DEF IInv, Writes, Enders, Active, serverVars, endVars, CommitReplied, Confirmed, Resolve, Reject
<1>1. TypeOK'
  BY SMTT(40) DEF TypeOK, SessionStates
<1>2. Sessions'
  BY DEF TypeOK, SessionStates, Sessions, Untouched, InFlight
<1>3. Started'
  BY DEF TypeOK, Started
<1>4. Written'
  <2> SUFFICES ASSUME NEW u \in Txs
               PROVE  WrittenOf(u)'
    BY DEF Written
  <2>1. CASE u # t
    BY <2>1 DEF TypeOK, Written, WrittenOf, AckedIn
  <2>2. CASE u = t
    BY <2>2 DEF TypeOK, Sessions, Untouched, InFlight, Started, Written, WrittenOf, AckedIn
  <2> QED
    BY <2>1, <2>2
<1>5. Alone'
  BY DEF TypeOK, SessionStates, Sessions, Untouched, InFlight, Started, Alone, AloneOf
<1>6. OnlyCommitPersistsUntilOneFails'
  BY DEF TypeOK, Started, OnlyCommitPersistsUntilOneFails
<1>7. SessionsEnd'
  BY DEF TypeOK, SessionStates, Sessions, SessionsEnd
<1> QED
  BY <1>1, <1>2, <1>3, <1>4, <1>5, <1>6, <1>7

\* An abort takes pending writes only, and never those of a committed transaction.
LEMMA AbortAtServerStep ==
  ASSUME IInv, NEW t \in Txs, NEW e \in Enders, AbortAtServer(t, e)
  PROVE  IInv'
<1> USE MongoAssumption DEF IInv, Writes, Enders, Active, serverVars, endVars, AbortAtServer, Aborts, PendingOf
<1>1. TypeOK'
  BY DEF TypeOK, SessionStates
<1>2. Sessions'
  BY DEF TypeOK, SessionStates, Sessions, Untouched, InFlight
<1>3. Started'
  BY ZenonT(60) DEF TypeOK, Started
<1>4. Written'
  <2> SUFFICES ASSUME NEW u \in Txs
               PROVE  WrittenOf(u)'
    BY DEF Written
  <2>1. CASE u # t
    BY <2>1 DEF TypeOK, Written, WrittenOf, AckedIn
  <2>2. CASE u = t
    BY <2>2 DEF TypeOK, Sessions, Untouched, InFlight, Started, Written, WrittenOf, AckedIn
  <2> QED
    BY <2>1, <2>2
<1>5. Alone'
  BY DEF TypeOK, SessionStates, Sessions, Untouched, InFlight, Started, Alone, AloneOf
<1>6. OnlyCommitPersistsUntilOneFails'
  BY DEF TypeOK, Started, OnlyCommitPersistsUntilOneFails
<1>7. SessionsEnd'
  BY DEF TypeOK, SessionStates, Sessions, SessionsEnd
<1> QED
  BY <1>1, <1>2, <1>3, <1>4, <1>5, <1>6, <1>7

\* A rollback is answered only for a session still in progress, which nobody else has ended.
LEMMA AbortRepliedStep ==
  ASSUME IInv, NEW t \in Txs, NEW e \in Enders, AbortReplied(t, e)
  PROVE  IInv'
<1> USE MongoAssumption DEF IInv, Writes, Enders, Active, serverVars, endVars, AbortReplied, Resolve, Reject
<1>1. TypeOK'
  <2>1. ending' \in [Txs -> [Enders -> {"idle", "sent", "done", "refused"}]]
    <3>1. ending' = [ending EXCEPT ![t][e] = "idle"]
      OBVIOUS
    <3> QED
      BY <3>1 DEF TypeOK
  <2>2. session' \in [Txs -> SessionStates] /\ server' \in [Txs -> {"none", "open", "committed", "aborted"}]
    BY DEF TypeOK, SessionStates
  <2>3. told' \in [Txs -> SUBSET {"committed", "rolled_back"}] /\ req' = req
    BY DEF TypeOK
  <2>4. pend' \subseteq Writes /\ durable' \subseteq Writes /\ acked' \subseteq Writes
    BY DEF TypeOK
  <2>5. table' \subseteq Txs /\ ended' \subseteq Txs /\ commitFailed' \subseteq Txs /\ overlapped' \subseteq Txs
    BY DEF TypeOK
  <2> QED
    BY <2>1, <2>2, <2>3, <2>4, <2>5 DEF TypeOK
<1>2. Sessions'
  BY DEF TypeOK, SessionStates, Sessions, Untouched, InFlight
<1>3. Started'
  BY DEF TypeOK, Started
<1>4. Written'
  <2> SUFFICES ASSUME NEW u \in Txs
               PROVE  WrittenOf(u)'
    BY DEF Written
  <2>1. CASE u # t
    BY <2>1 DEF TypeOK, Written, WrittenOf, AckedIn
  <2>2. CASE u = t
    BY <2>2 DEF TypeOK, Sessions, Untouched, InFlight, Started, Written, WrittenOf, AckedIn
  <2> QED
    BY <2>1, <2>2
<1>5. Alone'
  <2>1. ending[t][e] = "done" /\ session[t] \notin {"none", "starting"} /\ ending' = [ending EXCEPT ![t][e] = "idle"]
    BY DEF Sessions, TypeOK
  <2>2. durable' = durable /\ commitFailed' = commitFailed /\ overlapped' = overlapped
    OBVIOUS
  <2> SUFFICES ASSUME NEW u \in Txs \ overlapped
               PROVE  AloneOf(u)'
    BY <2>2 DEF Alone
  <2>3. CASE u # t
    BY <2>1, <2>2, <2>3 DEF TypeOK, Alone, AloneOf
  <2>4. CASE u = t
    <3>1. ending[t]["commit"] = "idle" /\ ending'[t]["commit"] = "idle"
      BY <2>1, <2>4 DEF Alone, AloneOf, TypeOK
    <3>2. \A d \in Enders : ending'[t][d] # "idle" => ending[t][d] # "idle"
      BY <2>1 DEF TypeOK
    <3>3. CASE session[t] = "in_progress"
      <4>1. session'[t] = "aborted" /\ t \notin table' /\ t \notin commitFailed
        BY <2>4, <3>3 DEF TypeOK, Alone, AloneOf
      <4>2. \A w \in durable : w[1] # t
        BY <2>4, <3>1, <3>3 DEF Alone, AloneOf
      <4> QED
        BY <2>2, <2>4, <3>1, <3>2, <4>1, <4>2 DEF Alone, AloneOf
    <3>4. CASE session[t] # "in_progress"
      BY <2>2, <2>4, <3>1, <3>2, <3>4 DEF Alone, AloneOf
    <3> QED
      BY <3>3, <3>4
  <2> QED
    BY <2>3, <2>4
<1>6. OnlyCommitPersistsUntilOneFails'
  BY DEF TypeOK, Started, OnlyCommitPersistsUntilOneFails
<1>7. SessionsEnd'
  BY DEF TypeOK, SessionStates, Sessions, SessionsEnd
<1> QED
  BY <1>1, <1>2, <1>3, <1>4, <1>5, <1>6, <1>7

\* An execute call changes nothing but its own state.
LEMMA ExecuteStep ==
  ASSUME IInv, NEW t \in Txs, NEW n \in 1..MaxWrites, Execute(t, n)
  PROVE  IInv'
<1> USE MongoAssumption DEF IInv, Writes, Enders, Active, serverVars, endVars, Execute
<1>1. TypeOK'
  BY DEF TypeOK, SessionStates
<1>2. Sessions'
  BY DEF TypeOK, SessionStates, Sessions, Untouched, InFlight
<1>3. Started'
  BY ZenonT(60) DEF TypeOK, Sessions, Untouched, InFlight, Started
<1>4. Written'
  <2> SUFFICES ASSUME NEW u \in Txs
               PROVE  WrittenOf(u)'
    BY DEF Written
  <2>1. CASE u # t
    BY <2>1 DEF TypeOK, Written, WrittenOf, AckedIn
  <2>2. CASE u = t
    BY <2>2 DEF TypeOK, Sessions, Untouched, InFlight, Started, Written, WrittenOf, AckedIn
  <2> QED
    BY <2>1, <2>2
<1>5. Alone'
  BY DEF TypeOK, SessionStates, Sessions, Untouched, InFlight, Started, Alone, AloneOf
<1>6. OnlyCommitPersistsUntilOneFails'
  BY DEF TypeOK, Started, OnlyCommitPersistsUntilOneFails
<1>7. SessionsEnd'
  BY DEF TypeOK, SessionStates, Sessions, SessionsEnd
<1> QED
  BY <1>1, <1>2, <1>3, <1>4, <1>5, <1>6, <1>7

\* What is sent outside a transaction belongs to one a commit of which has failed.
LEMMA SendStep ==
  ASSUME IInv, NEW t \in Txs, NEW n \in 1..MaxWrites, Send(t, n)
  PROVE  IInv'
<1> USE MongoAssumption DEF IInv, Writes, Enders, Active, serverVars, endVars, Send, HasEnded, Sent
<1>1. TypeOK'
  BY DEF TypeOK, SessionStates
<1> HIDE DEF Send, Sent
<1>8. /\ \A u \in Txs, m \in 1..MaxWrites : <<u, m>> # <<t, n>> => req'[<<u, m>>] = req[<<u, m>>]
      /\ \A u \in Txs : u # t => session'[u] = session[u]
      /\ req[<<t, n>>] = "called" /\ req'[<<t, n>>] # "unused"
      /\ UNCHANGED <<serverVars, endVars>>
  BY DEF TypeOK, Send, Sent
<1>9. ASSUME t \in ended
      PROVE  Sessions' /\ Started' /\ Written'
  <2>1. req'[<<t, n>>] = "answered" /\ session' = session
    BY <1>9 DEF TypeOK, Send
  <2>2. Sessions'
    BY <1>8, <2>1 DEF Sessions, Untouched, InFlight
  <2>3. Started'
    <3>1. \A u \in Txs, m \in 1..MaxWrites :
            req'[<<u, m>>] \in {"first", "outside"} => req'[<<u, m>>] = req[<<u, m>>]
      BY <1>8, <2>1
    <3>2. server' = server /\ commitFailed' = commitFailed
      BY <1>8
    <3> SUFFICES ASSUME NEW u \in Txs, NEW m \in 1..MaxWrites
                 PROVE  /\ req'[<<u, m>>] = "first" => server'[u] \in {"none", "aborted"}
                        /\ \A k \in 1..MaxWrites : req'[<<u, m>>] = "first" /\ req'[<<u, k>>] = "first" => m = k
                        /\ req'[<<u, m>>] = "outside" => u \in commitFailed'
      BY DEF Started
    <3> QED
      BY <3>1, <3>2 DEF Started
  <2>4. Written'
    BY <1>8, <2>1 DEF Written, WrittenOf, AckedIn
  <2> QED
    BY <2>2, <2>3, <2>4
<1>10. ASSUME t \notin ended
      PROVE  Sessions' /\ Started' /\ Written'
  <2>1. session[t] \notin {"none", "committed_empty"}
    BY <1>8, <1>10 DEF Sessions
  <2>2. /\ session[t] = "starting" => req'[<<t, n>>] = "first"
        /\ session[t] = "in_progress" => req'[<<t, n>>] = "within"
        /\ session[t] \notin Active => req'[<<t, n>>] = "outside" /\ t \in commitFailed
        /\ session'[t] = IF session[t] \in Active THEN "in_progress" ELSE "no_transaction"
    BY <1>10, <2>1 DEF TypeOK, Sessions, Send, Sent
  <2>3. session[t] = "starting" => Untouched(t)
    BY DEF Sessions
  <2>4. Sessions'
    BY <1>8, <2>1, <2>2 DEF Sessions, Untouched, InFlight
  <2>5. Started'
    <3>1. req'[<<t, n>>] = "first" => server[t] = "none" /\ \A m \in 1..MaxWrites : req[<<t, m>>] # "first"
      BY <2>2, <2>3 DEF Active, Untouched, InFlight
    <3>2. req'[<<t, n>>] = "outside" => t \in commitFailed
      BY <2>2 DEF Active
    <3> SUFFICES ASSUME NEW u \in Txs, NEW m \in 1..MaxWrites
                 PROVE  /\ req'[<<u, m>>] = "first" => server'[u] \in {"none", "aborted"}
                        /\ \A k \in 1..MaxWrites : req'[<<u, m>>] = "first" /\ req'[<<u, k>>] = "first" => m = k
                        /\ req'[<<u, m>>] = "outside" => u \in commitFailed'
      BY DEF Started
    <3>3. CASE <<u, m>> = <<t, n>>
      BY <1>8, <3>1, <3>2, <3>3
    <3>4. CASE <<u, m>> # <<t, n>>
      BY <1>8, <3>1, <3>4 DEF Started
    <3> QED
      BY <3>3, <3>4
  <2>6. ASSUME NEW u \in Txs
        PROVE  WrittenOf(u)'
    <3>1. CASE u # t
      BY <1>8, <3>1 DEF Written, WrittenOf, AckedIn
    <3>2. CASE u = t
      <4>1. session[t] = "starting" => AckedIn(t, durable)
        BY <2>3 DEF Untouched, AckedIn
      <4> QED
        BY <1>8, <2>1, <2>2, <3>2, <4>1 DEF Written, WrittenOf, AckedIn
    <3> QED
      BY <3>1, <3>2
  <2> QED
    BY <2>4, <2>5, <2>6 DEF Written
<1>2. Sessions' /\ Started' /\ Written'
  BY <1>9, <1>10
<1> USE DEF Send, Sent
<1>5. Alone'
  BY DEF TypeOK, SessionStates, Sessions, Untouched, InFlight, Started, Alone, AloneOf
<1>6. OnlyCommitPersistsUntilOneFails'
  BY DEF TypeOK, Started, OnlyCommitPersistsUntilOneFails
<1>7. SessionsEnd'
  BY DEF TypeOK, SessionStates, Sessions, SessionsEnd
<1> QED
  BY <1>1, <1>2, <1>5, <1>6, <1>7

\* An operation takes effect inside the open transaction, or after a commit has failed.
LEMMA ExecuteOkStep ==
  ASSUME IInv, NEW t \in Txs, NEW n \in 1..MaxWrites, ExecuteOk(t, n)
  PROVE  IInv'
<1> USE MongoAssumption DEF IInv, Writes, Enders, Active, serverVars, endVars, ExecuteOk, Takes
<1>1. TypeOK'
  BY DEF TypeOK, SessionStates
<1>2. Sessions'
  BY DEF TypeOK, SessionStates, Sessions, Untouched, InFlight
<1>3. Started'
  <2>1. /\ \A u \in Txs, m \in 1..MaxWrites :
             req'[<<u, m>>] \in {"first", "outside"} => req'[<<u, m>>] = req[<<u, m>>] /\ <<u, m>> # <<t, n>>
        /\ \A u \in Txs : u # t => server'[u] = server[u]
        /\ commitFailed' = commitFailed
    BY DEF TypeOK
  <2>2. req[<<t, n>>] # "first" => server' = server
    OBVIOUS
  <2> HIDE DEF ExecuteOk, Takes
  <2> SUFFICES ASSUME NEW u \in Txs, NEW m \in 1..MaxWrites
               PROVE  /\ req'[<<u, m>>] = "first" => server'[u] \in {"none", "aborted"}
                      /\ \A k \in 1..MaxWrites : req'[<<u, m>>] = "first" /\ req'[<<u, k>>] = "first" => m = k
                      /\ req'[<<u, m>>] = "outside" => u \in commitFailed
    BY <2>1 DEF Started
  <2>3. req'[<<u, m>>] = "first" => server'[u] = server[u]
    BY <2>1, <2>2 DEF Started
  <2> QED
    BY <2>1, <2>3 DEF Started
<1>4. Written'
  <2> SUFFICES ASSUME NEW u \in Txs
               PROVE  WrittenOf(u)'
    BY DEF Written
  <2>1. CASE u # t
    BY <2>1 DEF TypeOK, Written, WrittenOf, AckedIn
  <2>2. CASE u = t
    <3> USE <2>2 DEF TypeOK
    <3>2. CASE req[<<t, n>>] = "first"
      <4>1. server'[t] = "open" /\ AckedIn(t, durable)
        BY <3>2 DEF Written, WrittenOf
      <4>2. AckedIn(t, pend \cup durable)'
        BY <3>2, <4>1 DEF AckedIn
      <4>3. \A m \in 1..MaxWrites : req'[<<t, m>>] # "first"
        BY <3>2 DEF Started
      <4>4. server[t] # "committed"
        BY <3>2 DEF Started
      <4>5. session[t] # "committed_empty"
        BY <3>2 DEF Sessions, Untouched, InFlight
      <4> QED
        BY <4>1, <4>2, <4>3, <4>4, <4>5 DEF Written, WrittenOf
    <3>3. CASE req[<<t, n>>] = "within"
      <4>1. server' = server /\ server[t] = "open" /\ AckedIn(t, pend \cup durable)
        BY <3>3 DEF Written, WrittenOf
      <4>2. AckedIn(t, pend \cup durable)'
        BY <3>3, <4>1 DEF AckedIn
      <4>3. \A m \in 1..MaxWrites : req'[<<t, m>>] # "first"
        BY <3>3, <4>1 DEF Started
      <4> QED
        BY <4>1, <4>2, <4>3 DEF Written, WrittenOf
    <3>4. CASE req[<<t, n>>] = "outside"
      <4>1. server' = server /\ durable' = durable \cup {<<t, n>>} /\ pend' = pend
        BY <3>4
      <4>2. \A m \in 1..MaxWrites : req'[<<t, m>>] = "first" => req[<<t, m>>] = "first"
        BY <3>4
      <4>3. /\ AckedIn(t, durable) => AckedIn(t, durable)'
            /\ AckedIn(t, pend \cup durable) => AckedIn(t, pend \cup durable)'
        BY <3>4, <4>1 DEF AckedIn
      <4> QED
        BY <4>1, <4>2, <4>3 DEF Written, WrittenOf
    <3> QED
      BY <3>2, <3>3, <3>4
  <2> QED
    BY <2>1, <2>2
<1>5. Alone'
  BY DEF TypeOK, SessionStates, Sessions, Untouched, InFlight, Started, Alone, AloneOf
<1>6. OnlyCommitPersistsUntilOneFails'
  BY SMTT(40) DEF TypeOK, Started, OnlyCommitPersistsUntilOneFails
<1>7. SessionsEnd'
  BY DEF TypeOK, SessionStates, Sessions, SessionsEnd
<1> QED
  BY <1>1, <1>2, <1>3, <1>4, <1>5, <1>6, <1>7

\* A refused operation takes the pending writes of its transaction with it.
LEMMA ExecuteFailsStep ==
  ASSUME IInv, NEW t \in Txs, NEW n \in 1..MaxWrites, ExecuteFails(t, n)
  PROVE  IInv'
<1> USE MongoAssumption DEF IInv, Writes, Enders, Active, serverVars, endVars, ExecuteFails, PendingOf
<1>1. TypeOK'
  BY DEF TypeOK, SessionStates
<1>2. Sessions'
  BY DEF TypeOK, SessionStates, Sessions, Untouched, InFlight
<1>3. Started'
  BY ZenonT(60) DEF TypeOK, Sessions, Untouched, InFlight, Started
<1>4. Written'
  <2> SUFFICES ASSUME NEW u \in Txs
               PROVE  WrittenOf(u)'
    BY DEF Written
  <2>1. CASE u # t
    BY <2>1 DEF TypeOK, Written, WrittenOf, AckedIn
  <2>2. CASE u = t
    <3>1. durable' = durable /\ acked' = acked /\ told' = told /\ session' = session /\ ending' = ending
      OBVIOUS
    <3>2. \A m \in 1..MaxWrites : req'[<<t, m>>] = "first" => req[<<t, m>>] = "first"
      BY DEF TypeOK
    <3>3. \/ server'[t] = server[t] /\ (pend' = pend \/ server[t] = "committed")
          \/ server'[t] = "aborted" /\ server[t] # "committed"
      BY DEF TypeOK
    <3>4. req[<<t, n>>] = "outside" => server' = server /\ pend' = pend
      OBVIOUS
    <3>5. server[t] # server'[t] => session[t] # "committed_empty"
      BY <3>4 DEF Sessions, Untouched, InFlight
    <3> QED
      BY <2>2, <3>1, <3>2, <3>3, <3>5 DEF Written, WrittenOf, AckedIn
  <2> QED
    BY <2>1, <2>2
<1>5. Alone'
  BY DEF TypeOK, SessionStates, Sessions, Untouched, InFlight, Started, Alone, AloneOf
<1>6. OnlyCommitPersistsUntilOneFails'
  BY DEF TypeOK, Started, OnlyCommitPersistsUntilOneFails
<1>7. SessionsEnd'
  BY DEF TypeOK, SessionStates, Sessions, SessionsEnd
<1> QED
  BY <1>1, <1>2, <1>3, <1>4, <1>5, <1>6, <1>7

\* Nothing is begun, written or told at first.
LEMMA InitInv == Init => IInv
  BY MongoAssumption DEF Init, IInv, TypeOK, SessionStates, Sessions, Untouched, InFlight, Started,
     Written, WrittenOf, AckedIn, Alone, AloneOf, OnlyCommitPersistsUntilOneFails, SessionsEnd,
     Writes, Enders, Active

\* Every step of a tool, the library, the server or the timer keeps the invariant.
LEMMA StepInv ==
  ASSUME IInv, [Next]_vars
  PROVE  IInv'
<1>1. ASSUME NEW t \in Txs, Begin(t)
      PROVE  IInv'
  BY <1>1, BeginStep
<1>2. ASSUME NEW t \in Txs, Commit(t)
      PROVE  IInv'
  BY <1>2, CommitStep
<1>3. ASSUME NEW t \in Txs, Rollback(t)
      PROVE  IInv'
  BY <1>3, RollbackStep
<1>4. ASSUME NEW t \in Txs, Cleanup(t)
      PROVE  IInv'
  BY <1>4, CleanupStep
<1>5. ASSUME NEW t \in Txs, Expire(t)
      PROVE  IInv'
  BY <1>5, ExpireStep
<1>6. ASSUME NEW t \in Txs, CommitAtServer(t)
      PROVE  IInv'
  BY <1>6, CommitAtServerStep
<1>7. ASSUME NEW t \in Txs, CommitReplied(t)
      PROVE  IInv'
  BY <1>7, CommitRepliedStep
<1>8. ASSUME NEW t \in Txs, NEW e \in Enders, AbortAtServer(t, e)
      PROVE  IInv'
  BY <1>8, AbortAtServerStep
<1>9. ASSUME NEW t \in Txs, NEW e \in Enders, AbortReplied(t, e)
      PROVE  IInv'
  BY <1>9, AbortRepliedStep
<1>10. ASSUME NEW t \in Txs, NEW n \in 1..MaxWrites, Execute(t, n)
       PROVE  IInv'
  BY <1>10, ExecuteStep
<1>11. ASSUME NEW t \in Txs, NEW n \in 1..MaxWrites, Send(t, n)
       PROVE  IInv'
  BY <1>11, SendStep
<1>12. ASSUME NEW t \in Txs, NEW n \in 1..MaxWrites, ExecuteOk(t, n)
       PROVE  IInv'
  BY <1>12, ExecuteOkStep
<1>13. ASSUME NEW t \in Txs, NEW n \in 1..MaxWrites, ExecuteFails(t, n)
       PROVE  IInv'
  BY <1>13, ExecuteFailsStep
<1>14. CASE UNCHANGED vars
  BY <1>14 DEF vars, IInv, TypeOK, Sessions, Untouched, Started, Written, WrittenOf, AckedIn,
     Alone, AloneOf, OnlyCommitPersistsUntilOneFails, SessionsEnd
<1> QED
  BY <1>1, <1>2, <1>3, <1>4, <1>5, <1>6, <1>7, <1>8, <1>9, <1>10, <1>11, <1>12, <1>13, <1>14
     DEF Next

\* What answers say follows from where the invariant keeps the writes.
LEMMA InvAnswers == IInv => AnswersAreTrue
<1> SUFFICES ASSUME IInv, NEW t \in Txs
             PROVE  /\ "committed" \in told[t] => \A w \in acked : w[1] = t => w \in durable
                    /\ "rolled_back" \in told[t] /\ t \notin overlapped => DurableOf(t) = {}
  BY DEF AnswersAreTrue
<1>1. "committed" \in told[t] => AckedIn(t, durable)
  BY DEF IInv, Written, WrittenOf, Sessions, Untouched, AckedIn
<1>2. "rolled_back" \in told[t] /\ t \notin overlapped => \A w \in durable : w[1] # t
  BY DEF IInv, Alone, AloneOf
<1> QED
  BY <1>1, <1>2 DEF AckedIn, DurableOf

\* The inductive invariant of the Mongo tools, the library and the server: where each
\* session is says what was sent, who still ends it, and where its acknowledged writes are.
THEOREM MongoInvariant == Spec => []IInv
<1>1. Init => IInv
  BY InitInv
<1>2. IInv /\ [Next]_vars => IInv'
  BY StepInv
<1> QED
  BY <1>1, <1>2, PTL DEF Spec

\* However calls of a transaction overlap its end and the cleanup timer, what was written
\* in it takes effect only by its commit, until a commit of it was answered with an error.
THEOREM MongoOnlyCommitPersists == Spec => []OnlyCommitPersistsUntilOneFails
<1>1. IInv => OnlyCommitPersistsUntilOneFails
  BY DEF IInv
<1> QED
  BY <1>1, MongoInvariant, PTL

\* Committed means that every acknowledged write took effect, whatever calls overlap;
\* rolled_back that none did, for transactions that no other call was ending as well.
THEOREM MongoAnswersTrue == Spec => []AnswersAreTrue
<1>1. IInv => AnswersAreTrue
  BY InvAnswers
<1> QED
  BY <1>1, MongoInvariant, PTL

\* No session of the client is forgotten by the table, the tools and the timer, except
\* after a commit that was answered with an error.
THEOREM MongoSessionsEnd == Spec => []SessionsEnd
<1>1. IInv => SessionsEnd
  BY DEF IInv
<1> QED
  BY <1>1, MongoInvariant, PTL
=============================================================================
