------------------------- MODULE PooledTransactions -------------------------
(***************************************************************************)
(* Explicit SQL transactions over a connection pool: the transaction table *)
(* and the five transaction tools of src/tools/sql.ts, composed with       *)
(* beginTransaction of the MySQL and PostgreSQL drivers.                   *)
(*                                                                         *)
(* The server is one Node.js thread, so a handler runs without             *)
(* interruption from one await to the next.  Every await of this component *)
(* waits for the pool to grant a connection or for one connection to       *)
(* answer a command, so a tool call in flight is represented by the        *)
(* command it awaits: queue[c] is the FIFO of commands written to          *)
(* connection c, and the action that answers the command at its head also  *)
(* runs the handler's continuation up to its next await.                   *)
(*                                                                         *)
(* A transaction handle (the object beginTransaction returns) is an        *)
(* element of Txs and is used at most once, which bounds txCounter.  A     *)
(* write is <<t, n>>, the n-th statement sent through handle t.            *)
(***************************************************************************)
EXTENDS Naturals, Sequences, FiniteSets, SequencesExt

CONSTANTS
  ToolTxs,    \* handles obtained by sql_begin_transaction
  BatchTxs,   \* handles obtained by sql_batch_execute
  Conns,      \* the pool's physical connections (connectionLimit / max)
  NoConn,     \* a closure that has not captured a connection yet
  Engine,     \* "mysql" or "postgres"
  Faults,     \* what the server may do: see FaultKinds
  BatchSize,  \* statements in one sql_batch_execute call
  MaxStmts,   \* bound: statements sent through one interactive handle
  MaxQueue    \* bound: commands outstanding when a client sends another

Txs == ToolTxs \cup BatchTxs

\* "begin": BEGIN is refused; "stmt": a statement is refused; "deadlock": a
\* statement is refused and the server rolls the whole transaction back;
\* "commit": COMMIT is refused and the server rolls back (a deferred constraint,
\* a serialization failure); "timeout": withTimeout gives up on a statement.
FaultKinds == {"begin", "stmt", "deadlock", "commit", "timeout"}

ASSUME PoolAssumption ==
  /\ ToolTxs \cap BatchTxs = {}
  /\ NoConn \notin Conns
  /\ Engine \in {"mysql", "postgres"}
  /\ Faults \subseteq FaultKinds
  /\ BatchSize \in Nat
  /\ MaxStmts \in Nat
  /\ MaxQueue \in Nat

VARIABLES
  table,     \* activeTransactions: the handles a client can still name
  waitq,     \* beginTransaction calls waiting for pool.getConnection/connect
  lease,     \* where each handle is in its driver-level life
  conn,      \* the connection captured by each handle's closure
  idle,      \* how many times each connection is in the pool's free list
  queue,     \* commands written to each connection and not yet answered
  sess,      \* server side: "auto" (no transaction), "open" or "aborted"
  pend,      \* server side: writes of the open transaction
  durable,   \* server side: committed writes
  sent,      \* statements sent so far through each handle
  acked,     \* history: statements each client was told succeeded
  failed,    \* history: handles with a statement the server refused
  finished,  \* history: handles whose commit() or rollback() was called
  late,      \* history: handles used again after that call
  told       \* history: final answers given for each handle

clientVars == <<table, waitq, lease, conn, idle, sent>>
serverVars == <<sess, pend, durable>>
history    == <<acked, failed, finished, late, told>>
vars == <<clientVars, queue, serverVars, history>>

Ops == {"BEGIN", "STMT", "COMMIT", "ROLLBACK"}
\* Which code awaits the answer: a transaction tool, the try or the catch block
\* of sql_batch_execute, the cleanup timer; "nobody" after withTimeout gave up.
Callers == {"tool", "batch", "catch", "timer", "nobody"}
Command == [op : Ops, tx : Txs, by : Callers, n : Nat]
Cmd(op, t, by, n) == [op |-> op, tx |-> t, by |-> by, n |-> n]
Finishing(cmd) == cmd.op \in {"COMMIT", "ROLLBACK"}

Init ==
  /\ table = {} /\ waitq = << >> /\ durable = {}
  /\ failed = {} /\ finished = {} /\ late = {}
  /\ lease = [t \in Txs |-> "unused"]
  /\ conn = [t \in Txs |-> NoConn]
  /\ idle = [c \in Conns |-> 1]
  /\ queue = [c \in Conns |-> << >>]
  /\ sess = [c \in Conns |-> "auto"]
  /\ pend = [c \in Conns |-> {}]
  /\ sent = [t \in Txs |-> 0]
  /\ acked = [t \in Txs |-> {}]
  /\ told = [t \in Txs |-> {}]

-----------------------------------------------------------------------------
(* Driver and table helpers.                                               *)

\* Bound on what clients send: interactive calls outstanding on one connection.
Room(c) == Len(queue[c]) < MaxQueue

\* A call on a handle: what it is, and whether the handle was already finished.
Called(cmd) ==
  /\ finished' = IF Finishing(cmd) THEN finished \cup {cmd.tx} ELSE finished
  /\ late' = IF cmd.tx \in finished THEN late \cup {cmd.tx} ELSE late

\* The command at the head of c's queue is answered; the handler that awaited it
\* issues nothing more, or issues cmd as its next command.
Answered(c) == queue' = [queue EXCEPT ![c] = Tail(@)] /\ UNCHANGED <<finished, late>>
AnsweredThen(c, cmd) ==
  queue' = [queue EXCEPT ![c] = Append(Tail(@), cmd)] /\ Called(cmd)

\* A handler awaiting nothing on c writes a new command to it.
Issue(c, cmd) == queue' = [queue EXCEPT ![c] = Append(@, cmd)] /\ Called(cmd)

\* Faulty variants: the pool lends a connection without looking whether it is
\* free, or without taking it off the free list.
AvailableUnchecked(c) == TRUE
TakenNotRemoved(c) == idle

\* The pool lends c: it leaves the free list.
Available(c) == idle[c] > 0
Taken(c) == [idle EXCEPT ![c] = @ - 1]

\* Faulty variant: the driver forgets to release the connection.
FreedForgotten(c) == idle

\* conn.release() of the driver's finally block.  The pool takes the connection
\* back whoever holds it now: mysql2 pushes it on its free list once more,
\* pg-pool runs the release closure of the current checkout.
Freed(c) == [idle EXCEPT ![c] = IF Engine = "postgres" THEN 1 ELSE @ + 1]
\* pg-pool throws when the client is already back in the pool.
ReleaseThrows(c) == Engine = "postgres" /\ idle[c] > 0

\* The handler of sql_commit and sql_rollback removes the entry only after the
\* driver call resolved; a rejection leaves it in the table.
TableAfterFinish(t, ok) == IF ok THEN table \ {t} ELSE table

\* Faulty variant: the batch commits one statement early.
AfterStatementEarly(t, n) ==
  IF n + 1 < BatchSize
  THEN {Cmd("STMT", t, "batch", n + 1), Cmd("ROLLBACK", t, "batch", 0)}
  ELSE {Cmd("COMMIT", t, "batch", 0)}

\* sql_batch_execute, from the statement after the n-th: the driver's guards may
\* refuse it (result success:false, so the handler rolls back in the try block),
\* otherwise it is sent; past the last one the handler commits.
AfterStatement(t, n) ==
  IF n < BatchSize
  THEN {Cmd("STMT", t, "batch", n + 1), Cmd("ROLLBACK", t, "batch", 0)}
  ELSE {Cmd("COMMIT", t, "batch", 0)}

\* The catch block of sql_batch_execute rolls the handle back.
CatchCommand(t) == Cmd("ROLLBACK", t, "catch", 0)

Tell(t, answer) == told' = [told EXCEPT ![t] = @ \cup {answer}]

-----------------------------------------------------------------------------
(* beginTransaction: wait for the pool, then BEGIN.                          *)

CallBegin(t) ==
  /\ lease[t] = "unused"
  /\ lease' = [lease EXCEPT ![t] = "waiting"]
  /\ waitq' = Append(waitq, t)
  /\ UNCHANGED <<table, conn, idle, sent, queue, serverVars, history>>

\* The pool hands an idle connection to the longest waiting caller.
PoolGrant(c) ==
  /\ waitq # << >> /\ Available(c)
  /\ LET t == Head(waitq) IN
       /\ waitq' = Tail(waitq)
       /\ lease' = [lease EXCEPT ![t] = "held"]
       /\ conn' = [conn EXCEPT ![t] = c]
       /\ idle' = Taken(c)
       /\ Issue(c, Cmd("BEGIN", t, IF t \in ToolTxs THEN "tool" ELSE "batch", 0))
  /\ UNCHANGED <<table, sent, serverVars, acked, failed, told>>

\* pg-pool gives up on a caller that waited connectionTimeoutMillis, whoever holds the
\* connections: beginTransaction rejects and the tool answers an error.  The pool of
\* mysql2 lets its callers wait.
WaitTimesOut(i) ==
  /\ Engine = "postgres"
  /\ waitq' = RemoveAt(waitq, i)
  /\ lease' = [lease EXCEPT ![waitq[i]] = "refused"]
  /\ UNCHANGED <<table, conn, idle, sent, queue, serverVars, history>>

\* BEGIN inside an open transaction commits it on MySQL, is a warning on
\* PostgreSQL, and is refused when the transaction is aborted.
BeginOk(c, cmd) ==
  /\ cmd.op = "BEGIN" /\ sess[c] # "aborted"
  /\ sess' = [sess EXCEPT ![c] = "open"]
  /\ IF Engine = "mysql"
     THEN /\ durable' = durable \cup pend[c]
          /\ pend' = [pend EXCEPT ![c] = {}]
     ELSE UNCHANGED <<durable, pend>>
  /\ \/ /\ cmd.by = "tool"
        /\ table' = table \cup {cmd.tx}
        /\ Answered(c)
     \/ /\ cmd.by = "batch"
        /\ \E next \in AfterStatement(cmd.tx, 0) : AnsweredThen(c, next)
        /\ UNCHANGED table
  /\ UNCHANGED <<waitq, lease, conn, idle, sent, acked, failed, told>>

\* beginTransaction rejects and nothing releases the connection it was granted.
BeginFails(c, cmd) ==
  /\ cmd.op = "BEGIN"
  /\ "begin" \in Faults \/ sess[c] = "aborted"
  /\ Answered(c)
  /\ lease' = [lease EXCEPT ![cmd.tx] = "leaked"]
  /\ UNCHANGED <<table, waitq, conn, idle, sent, serverVars, acked, failed, told>>

-----------------------------------------------------------------------------
(* The transaction tools and the timer: each sends one command.              *)

ExecInTx(t) ==
  /\ t \in table /\ Room(conn[t]) /\ sent[t] < MaxStmts
  /\ sent' = [sent EXCEPT ![t] = @ + 1]
  /\ Issue(conn[t], Cmd("STMT", t, "tool", sent[t] + 1))
  /\ UNCHANGED <<table, waitq, lease, conn, idle, serverVars, acked, failed, told>>

Finish(t, op) ==
  /\ t \in table /\ Room(conn[t])
  /\ Issue(conn[t], Cmd(op, t, "tool", 0))
  /\ UNCHANGED <<clientVars, serverVars, acked, failed, told>>

\* Faulty variant: the timer releases the connection instead of rolling back.
CleanupReleases(t) ==
  /\ t \in table
  /\ table' = table \ {t}
  /\ idle' = Freed(conn[t])
  /\ lease' = [lease EXCEPT ![t] = "released"]
  /\ UNCHANGED <<waitq, conn, sent, queue, serverVars, history>>

\* Faulty variant: the timer drops the entry and leaves the transaction.
CleanupForgets(t) ==
  /\ t \in table
  /\ table' = table \ {t}
  /\ UNCHANGED <<waitq, lease, conn, idle, sent, queue, serverVars, history>>

\* One iteration of the interval's loop on an entry older than
\* DB_TRANSACTION_TIMEOUT_MS: the rollback is not awaited, the entry goes at once.
CleanupExpired(t) ==
  /\ t \in table
  /\ Issue(conn[t], Cmd("ROLLBACK", t, "timer", 0))
  /\ table' = table \ {t}
  /\ UNCHANGED <<waitq, lease, conn, idle, sent, serverVars, acked, failed, told>>

-----------------------------------------------------------------------------
(* Answers to statements.                                                    *)

\* Faulty variant: the statement goes through the pool and commits by itself.
JoinsNoTx(c) == FALSE

\* The statement runs on the connection BEGIN was sent on, so it joins the
\* transaction open there, if one is.
JoinsTx(c) == sess[c] = "open"

StmtOk(c, cmd) ==
  LET write == <<cmd.tx, cmd.n>> IN
  /\ cmd.op = "STMT" /\ sess[c] # "aborted"
  /\ IF JoinsTx(c)
     THEN pend' = [pend EXCEPT ![c] = @ \cup {write}] /\ UNCHANGED durable
     ELSE durable' = durable \cup {write} /\ UNCHANGED pend
  /\ acked' = IF cmd.by = "nobody" THEN acked
              ELSE [acked EXCEPT ![cmd.tx] = @ \cup {cmd.n}]
  /\ IF cmd.by = "batch"
     THEN \E next \in AfterStatement(cmd.tx, cmd.n) : AnsweredThen(c, next)
     ELSE Answered(c)
  /\ UNCHANGED <<clientVars, sess, failed, told>>

\* PostgreSQL aborts the transaction; MySQL undoes the statement only, except
\* that a deadlock rolls the whole transaction back and leaves the session in
\* autocommit.  A batch goes to its catch block; a tool answers the error.
StmtFails(c, cmd) ==
  /\ cmd.op = "STMT"
  /\ \/ /\ "stmt" \in Faults \/ sess[c] = "aborted"
        /\ sess' = [sess EXCEPT ![c] =
                      IF Engine = "postgres" /\ @ = "open" THEN "aborted" ELSE @]
        /\ UNCHANGED pend
     \/ /\ "deadlock" \in Faults /\ Engine = "mysql"
        /\ sess' = [sess EXCEPT ![c] = "auto"]
        /\ pend' = [pend EXCEPT ![c] = {}]
  /\ failed' = failed \cup {cmd.tx}
  /\ IF cmd.by = "batch" THEN AnsweredThen(c, CatchCommand(cmd.tx)) ELSE Answered(c)
  /\ UNCHANGED <<clientVars, durable, acked, told>>

\* withTimeout rejects: the caller goes on, the statement stays on the wire.
StmtTimesOut(c, i) ==
  LET cmd == queue[c][i]
      orphaned == [queue EXCEPT ![c][i].by = "nobody"]
  IN
  /\ "timeout" \in Faults
  /\ cmd.op = "STMT" /\ cmd.by # "nobody"
  /\ IF cmd.by = "batch"
     THEN /\ queue' = [orphaned EXCEPT ![c] = Append(@, CatchCommand(cmd.tx))]
          /\ Called(CatchCommand(cmd.tx))
     ELSE queue' = orphaned /\ UNCHANGED <<finished, late>>
  /\ UNCHANGED <<clientVars, serverVars, acked, failed, told>>

-----------------------------------------------------------------------------
(* Answers to COMMIT and ROLLBACK: the driver releases the connection in its *)
(* finally block whatever the answer is.                                     *)

\* What the caller of commit() or rollback() does once it resolved (ok) or
\* rejected: answer the client, or enter the catch block of the batch.
Conclude(c, cmd, ok, answer) ==
  \/ /\ cmd.by = "tool"
     /\ table' = TableAfterFinish(cmd.tx, ok)
     /\ IF ok THEN Tell(cmd.tx, answer) ELSE UNCHANGED told
     /\ Answered(c)
  \/ /\ cmd.by = "batch"
     /\ IF ok THEN Tell(cmd.tx, IF cmd.op = "COMMIT" THEN "success" ELSE "failure") /\ Answered(c)
        ELSE AnsweredThen(c, CatchCommand(cmd.tx)) /\ UNCHANGED told
     /\ UNCHANGED table
  \/ /\ cmd.by = "catch"
     /\ Tell(cmd.tx, "failure")
     /\ Answered(c)
     /\ UNCHANGED table
  \/ /\ cmd.by = "timer"
     /\ Answered(c)
     /\ UNCHANGED <<table, told>>

EndOfTx(c, cmd, ok, answer) ==
  /\ sess' = [sess EXCEPT ![c] = "auto"]
  /\ pend' = [pend EXCEPT ![c] = {}]
  /\ idle' = Freed(c)
  /\ lease' = [lease EXCEPT ![cmd.tx] = "released"]
  /\ Conclude(c, cmd, ok /\ ~ReleaseThrows(c), answer)
  /\ UNCHANGED <<waitq, conn, sent, acked, failed>>

\* COMMIT of an aborted PostgreSQL transaction is answered without an error, and
\* rolls it back.
CommitOk(c, cmd) ==
  /\ cmd.op = "COMMIT"
  /\ durable' = IF sess[c] = "open" THEN durable \cup pend[c] ELSE durable
  /\ EndOfTx(c, cmd, TRUE, "committed")

CommitFails(c, cmd) ==
  /\ cmd.op = "COMMIT" /\ "commit" \in Faults /\ sess[c] = "open"
  /\ EndOfTx(c, cmd, FALSE, "committed")
  /\ UNCHANGED durable

RollbackOk(c, cmd) ==
  /\ cmd.op = "ROLLBACK"
  /\ EndOfTx(c, cmd, TRUE, "rolled_back")
  /\ UNCHANGED durable

-----------------------------------------------------------------------------
Answer(c) ==
  /\ queue[c] # << >>
  /\ LET cmd == Head(queue[c]) IN
       \/ BeginOk(c, cmd) \/ BeginFails(c, cmd)
       \/ StmtOk(c, cmd) \/ StmtFails(c, cmd)
       \/ CommitOk(c, cmd) \/ CommitFails(c, cmd) \/ RollbackOk(c, cmd)

Next ==
  \/ \E t \in Txs : CallBegin(t)
  \/ \E c \in Conns : PoolGrant(c) \/ Answer(c)
  \/ \E i \in DOMAIN waitq : WaitTimesOut(i)
  \/ \E t \in ToolTxs : ExecInTx(t) \/ CleanupExpired(t)
  \/ \E t \in ToolTxs : Finish(t, "COMMIT") \/ Finish(t, "ROLLBACK")
  \/ \E c \in Conns : \E i \in DOMAIN queue[c] : StmtTimesOut(c, i)

Spec == Init /\ [][Next]_vars

-----------------------------------------------------------------------------
(* Properties.                                                               *)

Answers == {"committed", "rolled_back", "success", "failure"}

\* Every variable keeps its type: in particular the pool's free list and the
\* connections captured by handles only ever name the pool's connections.
TypeOK ==
  /\ table \subseteq Txs
  /\ waitq \in Seq(Txs)
  /\ lease \in [Txs -> {"unused", "waiting", "refused", "held", "leaked", "released"}]
  /\ conn \in [Txs -> Conns \cup {NoConn}]
  /\ idle \in [Conns -> Nat]
  /\ queue \in [Conns -> Seq(Command)]
  /\ sess \in [Conns -> {"auto", "open", "aborted"}]
  /\ pend \in [Conns -> SUBSET (Txs \X Nat)]
  /\ durable \subseteq Txs \X Nat
  /\ sent \in [Txs -> Nat]
  /\ acked \in [Txs -> SUBSET Nat]
  /\ failed \subseteq Txs /\ finished \subseteq Txs /\ late \subseteq Txs
  /\ told \in [Txs -> SUBSET Answers]

\* No handle was used again after its commit() or rollback() was called.  The
\* tools do not enforce it: two overlapping sql_commit / sql_rollback calls, the
\* timer overlapping one, and the catch block of a batch whose commit() rejected
\* all break it.
Disciplined == late = {}

Holders(c) == {t \in Txs : lease[t] = "held" /\ conn[t] = c}

\* Under that discipline a physical connection serves at most one transaction at
\* a time, and the pool never counts it as free while a transaction holds it or
\* a command is still outstanding on it.
LeaseExclusive ==
  Disciplined => \A c \in Conns :
    /\ \A t, u \in Holders(c) : t = u
    /\ idle[c] <= 1
    /\ idle[c] = 1 => Holders(c) = {} /\ queue[c] = << >>

\* Under that discipline a connection is handed out clean, whatever statements
\* failed, timed out or were rolled back by the server on it before: no open or
\* aborted transaction and no pending write of an earlier holder.
CleanHandout ==
  Disciplined => \A c \in Conns :
    idle[c] > 0 => sess[c] = "auto" /\ pend[c] = {}

\* Under that discipline an open server transaction holds writes of the handle
\* that leases the connection only, late answers to timed-out statements included.
Isolated ==
  Disciplined => \A c \in Conns : \A w \in pend[c] : w[1] \in Holders(c)

BatchWrites(t) == {t} \X (1..BatchSize)
BatchIsAtomic(t) ==
  /\ "success" \in told[t] => BatchWrites(t) \subseteq durable
  /\ "failure" \in told[t] => BatchWrites(t) \cap durable = {}

\* Under that discipline the answers are true, timeouts, refusals and deadlocks
\* midway included.  A batch is all or nothing: success means every statement is
\* durable, failure that none is.  Of a handle none of whose statements failed,
\* "committed" means that every acknowledged statement is durable, "rolled_back"
\* that none is, those whose acknowledgement the client gave up waiting for included.
AnswersAreTrue ==
  Disciplined =>
    /\ \A t \in BatchTxs : BatchIsAtomic(t)
    /\ \A t \in ToolTxs \ failed :
         /\ "committed" \in told[t] => {t} \X acked[t] \subseteq durable
         /\ "rolled_back" \in told[t] => \A w \in durable : w[1] # t

\* The tool's description and API.md, unconditionally: all or nothing.
BatchAtomic == \A t \in BatchTxs : BatchIsAtomic(t)

\* The tool's description and API.md: sql_commit makes all changes permanent.
\* Stated for disciplined clients whose commit answers "committed", also when a
\* statement in between had failed and the client was told so.
CommitMakesPermanent ==
  Disciplined => \A t \in ToolTxs :
    "committed" \in told[t] => {t} \X acked[t] \subseteq durable

\* Under that discipline no connection is lost: each is in the free list, held by a
\* live transaction, or was leaked by a refused BEGIN.
Conserved ==
  Disciplined => \A c \in Conns :
    idle[c] = 1 \/ \E t \in Txs : conn[t] = c /\ lease[t] \in {"held", "leaked"}

\* The handler that awaits q goes on to end the handle, or q ends it.
Ends(q) == q.op # "STMT" \/ q.by = "batch"

\* Whoever waits for a connection waits for something, whatever clients do, handles that
\* are ended twice included.  A connection that is not free is held, or was leaked by a
\* refused BEGIN; and of who holds one an end is on its way, or the table still has the
\* entry, by which the interval will find it.
ConnectionsReturn ==
  /\ \A c \in Conns :
       idle[c] > 0 \/ \E t \in Txs : conn[t] = c /\ lease[t] \in {"held", "leaked"}
  /\ \A t \in Txs : lease[t] = "held" =>
       t \in table \/ \E i \in 1..Len(queue[conn[t]]) :
                         queue[conn[t]][i].tx = t /\ Ends(queue[conn[t]][i])

\* Under that discipline a write sent through an interactive handle becomes durable
\* only by the answer to that handle's own COMMIT: never by the BEGIN of the next
\* holder (which commits implicitly on MySQL), by another handle's COMMIT, or at
\* once.  Handles with a refused statement are excepted: after a deadlock MySQL
\* has ended the transaction and runs later statements in autocommit.
OnlyOwnCommitPersists ==
  [][\A w \in durable' \ durable :
       (late' = {} /\ w[1] \in ToolTxs \ failed) =>
          \E c \in Conns : queue[c] # << >> /\ Head(queue[c]) = Cmd("COMMIT", w[1], "tool", 0)]_vars

-----------------------------------------------------------------------------
(* The promise of transactions.                                              *)

PendingOf(t) == {w[2] : w \in {x \in UNION {pend[c] : c \in Conns} : x[1] = t}}

Promise == INSTANCE AtomicStore WITH
  Stmts <- 1..(IF MaxStmts > BatchSize THEN MaxStmts ELSE BatchSize),
  store <- durable,
  local <- [t \in Txs |-> PendingOf(t)],
  ended <- {t \in Txs : lease[t] = "released"}

\* To disciplined clients transactions are an AtomicStore: every step, however many
\* handles share a connection one after the other, is a write, the publication or
\* the discarding of one handle's statements, or is invisible.  The promise is not
\* kept once MySQL resolved a deadlock by ending a transaction whose handle stays
\* usable, so such runs are followed up to their first refused statement.
Promised == Disciplined /\ ("deadlock" \in Faults => failed = {})

ImplementsAtomicStore ==
  Promise!Init /\ [][Promised' => [Promise!Next]_Promise!vars]_vars
=============================================================================
