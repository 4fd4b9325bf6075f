------------------------- MODULE SqliteTransactions -------------------------
(* Explicit transactions on SQLite: the transaction tools of                 *)
(* src/tools/sql.ts composed with the SQLite driver, whose transactions and  *)
(* plain statements all use one database handle.                             *)
(*                                                                           *)
(* better-sqlite3 is synchronous, so a database call and what follows it up  *)
(* to the next await is one step.  Handlers of requests that arrive together *)
(* interleave at their awaits: a batch between two statements, commit and    *)
(* rollback between the driver call and the removal of the table entry.      *)
(*                                                                           *)
(* A write is <<t, n>>: the n-th statement of handle t, or <<w, 1>> for the  *)
(* single statement of the sql_execute call w.                               *)
EXTENDS Naturals, FiniteSets

CONSTANTS
  ToolTxs,    \* handles of sql_begin_transaction
  BatchTxs,   \* handles of sql_batch_execute
  Writers,    \* sql_execute calls on the same connection
  Faults,     \* what SQLite may do: see FaultKinds
  BatchSize,  \* statements in one sql_batch_execute call
  MaxStmts    \* bound: statements sent through one interactive handle

Txs == ToolTxs \cup BatchTxs

\* "stmt": a statement is refused; "abort": a statement is refused and SQLite
\* rolls the transaction back (a full disk, an I/O error); "commit": COMMIT is
\* refused (SQLITE_BUSY, a deferred foreign key) and the transaction stays open.
FaultKinds == {"stmt", "abort", "commit"}

ASSUME SqliteAssumption ==
  /\ ToolTxs \cap BatchTxs = {} /\ Txs \cap Writers = {}
  /\ Faults \subseteq FaultKinds
  /\ BatchSize \in Nat /\ MaxStmts \in Nat

VARIABLES
  table,      \* activeTransactions
  pc,         \* where the call that owns or uses each handle is
  done,       \* statements sent through each handle
  finalised,  \* handles whose closure variable finalised is true
  ending,     \* commit and rollback calls that resolved, not yet answered
  dbtx,       \* is a transaction open on the database handle?
  pend,       \* writes of that transaction
  durable,    \* committed writes
  acked,      \* history: writes answered with success
  overlapped, \* history: handles ended again before the first end was answered
  told        \* history: final answers given for each handle

vars == <<table, pc, done, finalised, ending, dbtx, pend, durable,
          acked, overlapped, told>>

\* pc: "unused"; "refused": BEGIN threw; "begun": the handle exists and is not in the
\* table yet; "ready": open to calls or, for a batch, between two awaits; "undo":
\* the batch is about to call rollback; "closed": the batch has answered.
Answers == {"committed", "rolled_back", "success", "failure"}

Init ==
  /\ table = {} /\ finalised = {} /\ ending = {}
  /\ acked = {} /\ overlapped = {}
  /\ pc = [t \in Txs |-> "unused"]
  /\ done = [t \in Txs |-> 0]
  /\ dbtx = FALSE /\ pend = {} /\ durable = {}
  /\ told = [t \in Txs |-> {}]

Tell(t, answer) == told' = [told EXCEPT ![t] = @ \cup {answer}]

-----------------------------------------------------------------------------
(* The database handle.                                                      *)

\* A statement takes effect in the open transaction, whoever opened it, or
\* commits by itself.
Written(w) ==
  IF dbtx THEN pend' = pend \cup {w} /\ UNCHANGED <<dbtx, durable>>
  ELSE durable' = durable \cup {w} /\ UNCHANGED <<dbtx, pend>>

Stmt(w) == Written(w) /\ acked' = acked \cup {w}

Refused ==
  \/ "stmt" \in Faults /\ UNCHANGED <<dbtx, pend, durable>>
  \/ "abort" \in Faults /\ dbtx /\ dbtx' = FALSE /\ pend' = {} /\ UNCHANGED durable

CommitDone == dbtx /\ dbtx' = FALSE /\ durable' = durable \cup pend /\ pend' = {}
\* COMMIT throws: it is refused, or no transaction is active.
CommitThrows == (~dbtx \/ "commit" \in Faults) /\ UNCHANGED <<dbtx, pend, durable>>

\* Faulty variants: a rollback that does not issue ROLLBACK, and one that neither
\* looks at nor sets the finalised flag.
RolledBackSilently(t) ==
  finalised' = finalised \cup {t} /\ UNCHANGED <<dbtx, pend, durable>>
RolledBackUnflagged(t) ==
  dbtx' = FALSE /\ pend' = {} /\ UNCHANGED <<finalised, durable>>

\* rollback(): nothing if the handle is finalised, else ROLLBACK, whose error is
\* swallowed.
RolledBack(t) ==
  /\ finalised' = finalised \cup {t}
  /\ IF t \in finalised THEN UNCHANGED <<dbtx, pend>> ELSE dbtx' = FALSE /\ pend' = {}
  /\ UNCHANGED durable

-----------------------------------------------------------------------------
(* beginTransaction and the tools.                                           *)

Begin(t) ==
  /\ pc[t] = "unused"
  /\ pc' = [pc EXCEPT ![t] = IF dbtx THEN "refused"
                             ELSE IF t \in ToolTxs THEN "begun" ELSE "ready"]
  /\ dbtx' = TRUE
  /\ UNCHANGED <<table, done, finalised, ending, pend, durable, acked, overlapped, told>>

Register(t) ==
  /\ pc[t] = "begun"
  /\ pc' = [pc EXCEPT ![t] = "ready"]
  /\ table' = table \cup {t}
  /\ UNCHANGED <<done, finalised, ending, dbtx, pend, durable, acked, overlapped, told>>

\* execute() of a finalised handle answers an error and does nothing.
ExecInTx(t) ==
  /\ t \in table /\ t \notin finalised /\ done[t] < MaxStmts
  /\ done' = [done EXCEPT ![t] = @ + 1]
  /\ Stmt(<<t, done[t] + 1>>) \/ (Refused /\ UNCHANGED acked)
  /\ UNCHANGED <<table, pc, finalised, ending, overlapped, told>>

Overlap(t) ==
  overlapped' = IF \E answer \in Answers : <<t, answer>> \in ending
                THEN overlapped \cup {t} ELSE overlapped

Commit(t) ==
  /\ t \in table
  /\ finalised' = finalised \cup {t}
  /\ IF t \in finalised
     THEN ending' = ending \cup {<<t, "committed">>} /\ UNCHANGED <<dbtx, pend, durable>>
     ELSE \/ CommitDone /\ ending' = ending \cup {<<t, "committed">>}
          \/ CommitThrows /\ UNCHANGED ending
  /\ Overlap(t)
  /\ UNCHANGED <<table, pc, done, acked, told>>

Rollback(t) ==
  /\ t \in table
  /\ RolledBack(t)
  /\ ending' = ending \cup {<<t, "rolled_back">>}
  /\ Overlap(t)
  /\ UNCHANGED <<table, pc, done, acked, told>>

\* The handler resumes after the driver call, removes the entry and answers.
AnswerEnd(t, answer) ==
  /\ <<t, answer>> \in ending
  /\ ending' = ending \ {<<t, answer>>}
  /\ table' = table \ {t}
  /\ Tell(t, answer)
  /\ UNCHANGED <<pc, done, finalised, dbtx, pend, durable, acked, overlapped>>

CleanupExpired(t) ==
  /\ t \in table
  /\ RolledBack(t)
  /\ table' = table \ {t}
  /\ UNCHANGED <<pc, done, ending, acked, overlapped, told>>

\* sql_execute: the statement runs on the same database handle.
SqlExecute(w) ==
  /\ <<w, 1>> \notin acked
  /\ Stmt(<<w, 1>>) \/ (Refused /\ UNCHANGED acked)
  /\ UNCHANGED <<table, pc, done, finalised, ending, overlapped, told>>

-----------------------------------------------------------------------------
(* sql_batch_execute after its beginTransaction.                             *)

\* Faulty variant: the loop does not look at the statement's result.
BatchStmtUnchecked(t) ==
  /\ pc[t] = "ready" /\ done[t] < BatchSize
  /\ Stmt(<<t, done[t] + 1>>) \/ (Refused /\ UNCHANGED acked)
  /\ done' = [done EXCEPT ![t] = @ + 1]
  /\ UNCHANGED <<table, pc, finalised, ending, overlapped, told>>

BatchStmt(t) ==
  /\ pc[t] = "ready" /\ done[t] < BatchSize
  /\ \/ Stmt(<<t, done[t] + 1>>) /\ UNCHANGED pc
     \/ Refused /\ UNCHANGED acked /\ pc' = [pc EXCEPT ![t] = "undo"]
  /\ done' = [done EXCEPT ![t] = @ + 1]
  /\ UNCHANGED <<table, finalised, ending, overlapped, told>>

BatchCommit(t) ==
  /\ pc[t] = "ready" /\ done[t] = BatchSize
  /\ finalised' = finalised \cup {t}
  /\ \/ CommitDone /\ Tell(t, "success") /\ pc' = [pc EXCEPT ![t] = "closed"]
     \/ CommitThrows /\ UNCHANGED told /\ pc' = [pc EXCEPT ![t] = "undo"]
  /\ UNCHANGED <<table, done, ending, acked, overlapped>>

BatchUndo(t) ==
  /\ pc[t] = "undo"
  /\ RolledBack(t)
  /\ pc' = [pc EXCEPT ![t] = "closed"]
  /\ Tell(t, "failure")
  /\ UNCHANGED <<table, done, ending, acked, overlapped>>

-----------------------------------------------------------------------------
Next ==
  \/ \E t \in Txs : Begin(t)
  \/ \E t \in ToolTxs : Register(t) \/ ExecInTx(t) \/ CleanupExpired(t)
  \/ \E t \in ToolTxs : Commit(t) \/ Rollback(t)
  \/ \E t \in ToolTxs : AnswerEnd(t, "committed") \/ AnswerEnd(t, "rolled_back")
  \/ \E t \in BatchTxs : BatchStmt(t) \/ BatchCommit(t) \/ BatchUndo(t)
  \/ \E w \in Writers : SqlExecute(w)

Spec == Init /\ [][Next]_vars

\* The event loop resumes handlers and fires the interval.
Fairness ==
  /\ \A t \in ToolTxs : WF_vars(Register(t)) /\ WF_vars(CleanupExpired(t))
  /\ \A t \in BatchTxs : WF_vars(BatchStmt(t) \/ BatchCommit(t) \/ BatchUndo(t))

FairSpec == Spec /\ Fairness

-----------------------------------------------------------------------------
(* Properties.                                                               *)

Owners == {t \in Txs : pc[t] \in {"begun", "ready", "undo"} /\ t \notin finalised}
WritesOf(t) == {w \in durable \cup pend : w[1] = t}

\* As long as SQLite itself ends no transaction and refuses no COMMIT, at most one
\* handle is live, the database is in a transaction exactly while one is, and what is
\* pending was written through it or by a sql_execute call that joined it unasked:
\* however commits, rollbacks, the timer and batches interleave on the one database
\* handle.  That call is undone by the rollback of the transaction it joined.
SoleOwner ==
  Faults \subseteq {"stmt"} =>
    /\ \A t, u \in Owners : t = u
    /\ dbtx <=> Owners # {}
    /\ \A w \in pend : w[1] \in Writers \cup Owners

\* The tools' descriptions and API.md.  A batch is all or nothing: a failed one
\* leaves no write behind, not even a pending one that a later COMMIT on the same
\* database handle would make permanent.  Once sql_commit answered "committed" all
\* acknowledged statements of the handle are durable, once sql_rollback answered
\* "rolled_back" none is durable or pending, unless a second end of the handle
\* overlapped the first: that one does nothing and answers success all the same.
\* If SQLite may refuse a COMMIT this fails: the call that is told so leaves the handle
\* marked as ended and in the table, and the next one answers committed and does nothing.
AnswersAreTrue ==
  /\ \A t \in BatchTxs :
       /\ "success" \in told[t] => {t} \X (1..BatchSize) \subseteq durable
       /\ "failure" \in told[t] => WritesOf(t) = {}
  /\ \A t \in ToolTxs \ overlapped :
       /\ "committed" \in told[t] => \A w \in acked : w[1] = t => w \in durable
       /\ "rolled_back" \in told[t] => WritesOf(t) = {}

\* The database handle does not stay in a transaction for ever: what clients
\* abandon the timer rolls back.
NeverWedged == []<>(~dbtx)

-----------------------------------------------------------------------------
(* The promise of transactions.                                              *)

Promise == INSTANCE AtomicStore WITH
  Stmts <- 1..(IF MaxStmts > BatchSize THEN MaxStmts ELSE BatchSize),
  store <- {w \in durable : w[1] \in Txs},
  local <- [t \in Txs |-> {w[2] : w \in {x \in pend : x[1] = t}}],
  ended <- finalised

\* As long as SQLite ends no transaction by itself and refuses no COMMIT, the handles are
\* an AtomicStore, overlapping ends and sql_execute calls in between included.  It allows
\* the timer to discard what a client in steady use has written.
ImplementsAtomicStore == Promise!Spec
=============================================================================
