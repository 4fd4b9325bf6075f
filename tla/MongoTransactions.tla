------------------------- MODULE MongoTransactions -------------------------
(* Multi-document transactions on MongoDB: the transaction tools of          *)
(* src/tools/mongo.ts composed with src/drivers/mongo/mongo-driver.ts, the   *)
(* session of the mongodb client library and the server.                     *)
(*                                                                           *)
(* A tool finds its entry in the table, and the library looks at the state   *)
(* of the session only when the request is about to be sent, so calls of one *)
(* transaction that overlap interleave there, at the server and at their     *)
(* replies, and the timer with all of them.  What follows a reply up to the  *)
(* answer has no further waiting in it and is one step.                      *)
(*                                                                           *)
(* A write is <<t, n>>: the n-th mongo_execute_in_transaction call of t.     *)
EXTENDS Naturals

CONSTANTS
  Txs,       \* transaction ids
  Faults,    \* bound: what may go wrong
  MaxWrites  \* bound: execute calls of one transaction

\* "execute": an operation is refused, and with it the server aborts the
\* transaction; "lost": the reply to an operation or to commitTransaction is lost,
\* or an abortTransaction; "expire": the server ends a transaction by itself.
FaultKinds == {"execute", "lost", "expire"}

ASSUME MongoAssumption == Faults \subseteq FaultKinds /\ MaxWrites \in Nat

Writes == Txs \X (1..MaxWrites)

\* Who ends a transaction: the two tools and the cleanup timer.
Enders == {"commit", "rollback", "cleanup"}

VARIABLES
  table,         \* activeMongoTransactions
  session,       \* the library's state of each session
  ended,         \* sessions that endSession ended
  req,           \* where each execute call is
  ending,        \* where each call that ends a transaction is
  server,        \* the server's state of each transaction
  pend,          \* writes of open server transactions
  durable,       \* writes that took effect for good
  acked,         \* history: writes answered with success
  commitFailed,  \* history: transactions a commit of which was answered with an error
  overlapped,    \* history: transactions ended again before the first end was answered
  told           \* history: successful answers to mongo_commit and mongo_rollback

vars == <<table, session, ended, req, ending, server, pend, durable,
          acked, commitFailed, overlapped, told>>

serverVars == <<server, pend, durable, acked>>
endVars == <<table, ended, ending, commitFailed, overlapped, told>>

\* session: "none", then "starting", "in_progress" with the first operation sent,
\* "committed" or "committed_empty", "aborted", "no_transaction".
Active == {"starting", "in_progress"}

\* req: "unused", "called" until the library sends it; then "first" starts the
\* server's transaction, "within" belongs to it, "outside" is an operation without
\* a transaction; "answered".

Init ==
  /\ table = {} /\ ended = {}
  /\ session = [t \in Txs |-> "none"]
  /\ req = [w \in Writes |-> "unused"]
  /\ ending = [t \in Txs |-> [e \in Enders |-> "idle"]]
  /\ server = [t \in Txs |-> "none"]
  /\ pend = {} /\ durable = {} /\ acked = {}
  /\ commitFailed = {} /\ overlapped = {}
  /\ told = [t \in Txs |-> {}]

PendingOf(t) == {w \in pend : w[1] = t}
DurableOf(t) == {w \in durable : w[1] = t}

-----------------------------------------------------------------------------
(* mongo_begin_transaction and mongo_execute_in_transaction.                 *)

Begin(t) ==
  /\ session[t] = "none"
  /\ session' = [session EXCEPT ![t] = "starting"]
  /\ table' = table \cup {t}
  /\ UNCHANGED <<ended, req, ending, serverVars, commitFailed, overlapped, told>>

Execute(t, n) ==
  /\ t \in table /\ req[<<t, n>>] = "unused"
  /\ n > 1 => req[<<t, n - 1>>] # "unused"
  /\ req' = [req EXCEPT ![<<t, n>>] = "called"]
  /\ UNCHANGED <<session, serverVars, endVars>>

\* Faulty variant: the library does not refuse a session that has ended.
EndedUnchecked(t) == FALSE

HasEnded(t) == t \in ended

\* What the library makes of an operation at the moment it sends it.
Sent(state) ==
  CASE state = "starting"    -> "first"
    [] state = "in_progress" -> "within"
    [] OTHER                 -> "outside"

Send(t, n) ==
  /\ req[<<t, n>>] = "called"
  /\ IF HasEnded(t)
     THEN req' = [req EXCEPT ![<<t, n>>] = "answered"] /\ UNCHANGED session
     ELSE /\ req' = [req EXCEPT ![<<t, n>>] = Sent(session[t])]
          /\ session' = [session EXCEPT ![t] = IF @ \in Active THEN "in_progress"
                                               ELSE "no_transaction"]
  /\ UNCHANGED <<serverVars, endVars>>

\* The server takes an operation, unless it belongs to a transaction that is not
\* open there.
Takes(t, n) ==
  \/ req[<<t, n>>] = "first" /\ server' = [server EXCEPT ![t] = "open"]
  \/ req[<<t, n>>] = "within" /\ server[t] = "open" /\ UNCHANGED server
  \/ req[<<t, n>>] = "outside" /\ UNCHANGED server

ExecuteOk(t, n) ==
  /\ Takes(t, n)
  /\ IF req[<<t, n>>] = "outside" THEN durable' = durable \cup {<<t, n>>} /\ UNCHANGED pend
     ELSE pend' = pend \cup {<<t, n>>} /\ UNCHANGED durable
  /\ req' = [req EXCEPT ![<<t, n>>] = "answered"]
  /\ \/ acked' = acked \cup {<<t, n>>}
     \/ "lost" \in Faults /\ UNCHANGED acked
  /\ UNCHANGED <<session, endVars>>

ExecuteFails(t, n) ==
  /\ \/ req[<<t, n>>] \in {"first", "within"} /\ "execute" \in Faults
        /\ server' = [server EXCEPT ![t] = IF @ = "committed" THEN @ ELSE "aborted"]
        /\ pend' = pend \ PendingOf(t)
     \/ req[<<t, n>>] = "within" /\ server[t] # "open" /\ UNCHANGED <<server, pend>>
     \/ req[<<t, n>>] = "outside" /\ "execute" \in Faults /\ UNCHANGED <<server, pend>>
  /\ req' = [req EXCEPT ![<<t, n>>] = "answered"]
  /\ UNCHANGED <<session, durable, acked, endVars>>

-----------------------------------------------------------------------------
(* commit and rollback of the driver, and the tools around them.  The entry  *)
(* goes, and the session ends, only when the library reports success.        *)

Resolve(t, e, answer) ==
  /\ ending' = [ending EXCEPT ![t][e] = "idle"]
  /\ ended' = ended \cup {t}
  /\ table' = table \ {t}
  /\ told' = [told EXCEPT ![t] = @ \cup answer]

Reject(t, e) ==
  ending' = [ending EXCEPT ![t][e] = "idle"] /\ UNCHANGED <<table, ended, told>>

Overlaps(t) ==
  overlapped' = IF \E e \in Enders : ending[t][e] # "idle" THEN overlapped \cup {t}
                ELSE overlapped

\* mongo_commit.  The library answers by itself if nothing was sent yet, and asks
\* the server again if an earlier commit failed.
Commit(t) ==
  /\ t \in table /\ ending[t]["commit"] = "idle"
  /\ \/ /\ session[t] \in {"starting", "committed_empty"}
        /\ session' = [session EXCEPT ![t] = "committed_empty"]
        /\ Resolve(t, "commit", {"committed"})
     \/ /\ session[t] \in {"in_progress", "committed"}
        /\ ending' = [ending EXCEPT ![t]["commit"] = "sent"]
        /\ UNCHANGED <<table, session, ended, told>>
  /\ Overlaps(t)
  /\ UNCHANGED <<req, serverVars, commitFailed>>

CommitAtServer(t) ==
  /\ ending[t]["commit"] = "sent"
  /\ IF server[t] \in {"open", "committed"}
     THEN /\ ending' = [ending EXCEPT ![t]["commit"] = "done"]
          /\ server' = [server EXCEPT ![t] = "committed"]
          /\ durable' = durable \cup PendingOf(t)
          /\ pend' = pend \ PendingOf(t)
     ELSE ending' = [ending EXCEPT ![t]["commit"] = "refused"] /\ UNCHANGED <<server, durable, pend>>
  /\ UNCHANGED <<table, session, ended, req, acked, commitFailed, overlapped, told>>

\* Faulty variant: an error reply counts as success.
RepliedAtAll(t) == ending[t]["commit"] \in {"done", "refused"}

Confirmed(t) == ending[t]["commit"] = "done"

\* Whatever the reply, the session counts as committed from then on; if it was
\* aborted meanwhile, the library throws.
CommitReplied(t) ==
  /\ ending[t]["commit"] \in {"done", "refused"}
  /\ LET legal == session[t] \in {"in_progress", "committed"}
     IN  /\ session' = [session EXCEPT ![t] = IF legal THEN "committed" ELSE @]
         /\ \/ /\ legal /\ Confirmed(t)
               /\ Resolve(t, "commit", {"committed"})
               /\ UNCHANGED commitFailed
            \/ /\ ~legal \/ ~Confirmed(t) \/ "lost" \in Faults
               /\ Reject(t, "commit")
               /\ commitFailed' = commitFailed \cup {t}
  /\ UNCHANGED <<req, serverVars, overlapped>>

\* mongo_rollback.  A session that is not in a transaction any more makes the
\* library throw, which only the answer shows.
Rollback(t) ==
  /\ t \in table /\ ending[t]["rollback"] = "idle"
  /\ \/ /\ session[t] = "starting"
        /\ session' = [session EXCEPT ![t] = "aborted"]
        /\ Resolve(t, "rollback", {"rolled_back"})
     \/ /\ session[t] = "in_progress"
        /\ ending' = [ending EXCEPT ![t]["rollback"] = "sent"]
        /\ UNCHANGED <<table, session, ended, told>>
  /\ Overlaps(t)
  /\ UNCHANGED <<req, serverVars, commitFailed>>

\* Faulty variant: the entry goes without a rollback.
CleanupForgets(t) ==
  /\ t \in table
  /\ table' = table \ {t}
  /\ UNCHANGED <<session, ended, req, ending, serverVars, commitFailed, overlapped, told>>

\* The timer calls rollback without waiting for it, and the entry goes at once.
Cleanup(t) ==
  /\ t \in table
  /\ \/ /\ session[t] = "starting"
        /\ session' = [session EXCEPT ![t] = "aborted"]
        /\ Resolve(t, "cleanup", {})
     \/ /\ session[t] = "in_progress"
        /\ ending' = [ending EXCEPT ![t]["cleanup"] = "sent"]
        /\ table' = table \ {t}
        /\ UNCHANGED <<session, ended, told>>
     \/ /\ session[t] \notin Active
        /\ table' = table \ {t}
        /\ UNCHANGED <<session, ended, ending, told>>
  /\ Overlaps(t)
  /\ UNCHANGED <<req, serverVars, commitFailed>>

Aborts(t) ==
  /\ server' = [server EXCEPT ![t] = IF @ = "open" THEN "aborted" ELSE @]
  /\ pend' = pend \ PendingOf(t)

AbortAtServer(t, e) ==
  /\ e \in {"rollback", "cleanup"} /\ ending[t][e] = "sent"
  /\ ending' = [ending EXCEPT ![t][e] = "done"]
  /\ Aborts(t) \/ ("lost" \in Faults /\ UNCHANGED <<server, pend>>)
  /\ UNCHANGED <<table, session, ended, req, durable, acked, commitFailed, overlapped, told>>

\* The library swallows errors of an abort, but throws if another call ended the
\* transaction meanwhile.
AbortReplied(t, e) ==
  /\ e \in {"rollback", "cleanup"} /\ ending[t][e] = "done"
  /\ IF session[t] = "in_progress"
     THEN /\ session' = [session EXCEPT ![t] = "aborted"]
          /\ Resolve(t, e, IF e = "rollback" THEN {"rolled_back"} ELSE {})
     ELSE Reject(t, e) /\ UNCHANGED session
  /\ UNCHANGED <<req, serverVars, commitFailed, overlapped>>

Expire(t) ==
  /\ "expire" \in Faults /\ server[t] = "open"
  /\ server' = [server EXCEPT ![t] = "aborted"]
  /\ pend' = pend \ PendingOf(t)
  /\ UNCHANGED <<table, session, ended, req, ending, durable, acked, commitFailed, overlapped, told>>

-----------------------------------------------------------------------------
Next ==
  \/ \E t \in Txs : Begin(t) \/ Commit(t) \/ Rollback(t) \/ Cleanup(t) \/ Expire(t)
  \/ \E t \in Txs : CommitAtServer(t) \/ CommitReplied(t)
  \/ \E t \in Txs, e \in Enders : AbortAtServer(t, e) \/ AbortReplied(t, e)
  \/ \E t \in Txs, n \in 1..MaxWrites :
       Execute(t, n) \/ Send(t, n) \/ ExecuteOk(t, n) \/ ExecuteFails(t, n)

Spec == Init /\ [][Next]_vars

-----------------------------------------------------------------------------
(* Properties.                                                               *)

\* API.md: mongo_execute_in_transaction writes inside the transaction, so what it
\* writes takes effect only by a commit of that transaction.
OnlyCommitPersists == \A w \in durable : server[w[1]] = "committed"

\* The same as long as no commit of the transaction was answered with an error:
\* calls that overlap its end, and the timer, let no write slip out of it.
OnlyCommitPersistsUntilOneFails ==
  \A w \in durable : server[w[1]] = "committed" \/ w[1] \in commitFailed

\* A transaction that was answered committed has all its acknowledged writes,
\* retries of failed commits and overlapping calls included.  One that was answered
\* rolled_back has left nothing, unless a second call was ending it at the same time:
\* then a commit may have taken effect, and mongo_rollback answers the same.
AnswersAreTrue ==
  \A t \in Txs :
    /\ "committed" \in told[t] => \A w \in acked : w[1] = t => w \in durable
    /\ "rolled_back" \in told[t] /\ t \notin overlapped => DurableOf(t) = {}

\* No session of the client is forgotten: one that has not ended has its entry, or
\* a call is ending it, or a commit failed after which the library lets nobody end it.
SessionsEnd ==
  \A t \in Txs :
    session[t] # "none" =>
      \/ t \in table \cup ended \cup commitFailed
      \/ \E e \in Enders : ending[t][e] # "idle"
=============================================================================
