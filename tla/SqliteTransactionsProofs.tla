---------------------- MODULE SqliteTransactionsProofs ----------------------
(* What TLAPS proves of SqliteTransactions, for any handles, writers and     *)
(* batch sizes, as long as SQLite refuses statements but neither ends a      *)
(* transaction by itself nor refuses a COMMIT (StatementFaults).             *)
EXTENDS SqliteTransactions, TLAPS

StatementFaults == Faults \subseteq {"stmt"}

PCs == {"unused", "refused", "begun", "ready", "undo", "closed"}

TypeOK ==
  /\ table \subseteq ToolTxs /\ finalised \subseteq Txs /\ overlapped \subseteq ToolTxs
  /\ pc \in [Txs -> PCs] /\ done \in [Txs -> Nat]
  /\ ending \subseteq ToolTxs \X Answers
  /\ dbtx \in BOOLEAN
  /\ pend \subseteq (Txs \cup Writers) \X Nat
  /\ durable \subseteq (Txs \cup Writers) \X Nat
  /\ acked \subseteq (Txs \cup Writers) \X Nat
  /\ told \in [Txs -> SUBSET Answers]

\* The handle of the open transaction is the one that is live, and the one whose
\* statements are pending.
Owned ==
  /\ \A t, u \in Owners : t = u
  /\ dbtx <=> Owners # {}
  /\ \A w \in pend : w[1] \in Writers \cup Owners
  /\ \A w \in durable : w[1] \in Writers \cup finalised

\* Where a handle is in its call tells whether it is finalised and what it was told.
Stages ==
  /\ \A t \in table : pc[t] = "ready"
  /\ \A t \in finalised : pc[t] \in {"ready", "closed"}
  /\ \A t \in BatchTxs : pc[t] \in {"ready", "undo"} => t \notin finalised
  /\ \A t \in BatchTxs : pc[t] = "closed" => t \in finalised
  /\ \A t \in Txs : told[t] # {} => t \in finalised
  /\ \A t \in ToolTxs, answer \in Answers : <<t, answer>> \in ending => t \in finalised
  /\ \A t \in Txs : pc[t] = "unused" => done[t] = 0
  /\ \A t \in table \cap finalised : \E answer \in Answers : <<t, answer>> \in ending

\* Acknowledged statements wait for the end of their transaction.
Kept ==
  /\ \A w \in acked : w[1] \in Txs \ finalised => w \in pend
  /\ \A t \in BatchTxs : pc[t] = "ready" => {t} \X (1..done[t]) \subseteq pend

\* What is about to be answered is as true as what was answered.
Promised ==
  \A t \in ToolTxs \ overlapped :
    /\ <<t, "committed">> \in ending => \A w \in acked : w[1] = t => w \in durable
    /\ <<t, "rolled_back">> \in ending => \A w \in durable \cup pend : w[1] # t

IInv == TypeOK /\ Owned /\ Stages /\ Kept /\ Promised /\ AnswersAreTrue

-----------------------------------------------------------------------------
(* Statements.                                                               *)

\* Writing through what is not finalised breaks no promise to the others.
LEMMA PromiseKept ==
  ASSUME Stages, Promised, NEW S, S \cap finalised \cap ToolTxs = {},
         overlapped' = overlapped, ending' \subseteq ending, durable \subseteq durable',
         \A x \in acked' : x \in acked \/ x[1] \in S,
         \A x \in (durable \cup pend)' : x \in durable \cup pend \/ x[1] \in S
  PROVE  Promised'
<1> SUFFICES ASSUME NEW u \in ToolTxs \ overlapped
             PROVE  /\ <<u, "committed">> \in ending' => \A w \in acked' : w[1] = u => w \in durable'
                    /\ <<u, "rolled_back">> \in ending' => \A w \in (durable \cup pend)' : w[1] # u
  BY DEF Promised
<1>1. \A answer \in Answers : <<u, answer>> \in ending' => u \notin S
  BY DEF Stages
<1>2. ASSUME <<u, "committed">> \in ending', NEW w \in acked', w[1] = u
      PROVE  w \in durable'
  BY <1>1, <1>2 DEF Promised, Answers
<1>3. ASSUME <<u, "rolled_back">> \in ending', NEW w \in (durable \cup pend)'
      PROVE  w[1] # u
  BY <1>1, <1>3 DEF Promised, Answers
<1> QED
  BY <1>2, <1>3

\* BEGIN opens the transaction of a new handle, or throws because one is open.
LEMMA BeginStep ==
  ASSUME StatementFaults, NEW t \in Txs, IInv, Begin(t)
  PROVE  IInv'
<1> USE SqliteAssumption DEF IInv, StatementFaults, Txs, Begin
<1>1. TypeOK'
  BY DEF TypeOK, PCs, Answers, FaultKinds
<1>2. Owned'
  BY DEF TypeOK, PCs, Owned, Stages, Owners
<1>3. Stages'
  BY DEF TypeOK, PCs, Stages, Owned, Owners, Answers
<1>4. Kept'
  BY DEF TypeOK, PCs, Kept, Stages, Owned, Owners
<1>5. Promised'
  <2>1. ending' \subseteq ending /\ durable \subseteq durable' /\ (durable \cup pend)' \subseteq durable \cup pend
    OBVIOUS
  <2> QED
    BY <2>1, PromiseKept
<1>6. AnswersAreTrue'
  BY DEF TypeOK, PCs, AnswersAreTrue, Promised, Kept, Stages, Owned, Owners, WritesOf, Answers
<1> QED
  BY <1>1, <1>2, <1>3, <1>4, <1>5, <1>6

\* The handle gets into the table.
LEMMA RegisterStep ==
  ASSUME StatementFaults, NEW t \in ToolTxs, IInv, Register(t)
  PROVE  IInv'
<1> USE SqliteAssumption DEF IInv, StatementFaults, Txs, Register
<1>1. TypeOK'
  BY DEF TypeOK, PCs, Answers, FaultKinds
<1>2. Owned'
  BY DEF TypeOK, PCs, Owned, Stages, Owners
<1>3. Stages'
  BY DEF TypeOK, PCs, Stages, Owned, Owners, Answers
<1>4. Kept'
  BY DEF TypeOK, PCs, Kept, Stages, Owned, Owners
<1>5. Promised'
  <2>1. ending' \subseteq ending /\ durable \subseteq durable' /\ (durable \cup pend)' \subseteq durable \cup pend
    OBVIOUS
  <2> QED
    BY <2>1, PromiseKept
<1>6. AnswersAreTrue'
  BY DEF TypeOK, PCs, AnswersAreTrue, Promised, Kept, Stages, Owned, Owners, WritesOf, Answers
<1> QED
  BY <1>1, <1>2, <1>3, <1>4, <1>5, <1>6

\* A statement through a handle that is not finalised joins the open transaction.
LEMMA ExecStep ==
  ASSUME StatementFaults, NEW t \in ToolTxs, IInv, ExecInTx(t)
  PROVE  IInv'
<1> USE SqliteAssumption DEF IInv, StatementFaults, Txs, ExecInTx, Stmt, Written, Refused
<1>1. TypeOK'
  BY DEF TypeOK, PCs, Answers, FaultKinds
<1>2. Owned'
  BY DEF TypeOK, PCs, Owned, Stages, Owners
<1>3. Stages'
  BY DEF TypeOK, PCs, Stages, Owned, Owners, Answers
<1>4. Kept'
  BY DEF TypeOK, PCs, Kept, Stages, Owned, Owners
<1>5. Promised'
  <2>1. {t} \cap finalised \cap ToolTxs = {}
    BY DEF TypeOK, Stages
  <2>2. \A x \in acked' : x \in acked \/ x[1] \in {t}
    OBVIOUS
  <2>3. \A x \in (durable \cup pend)' : x \in durable \cup pend \/ x[1] \in {t}
    BY DEF FaultKinds
  <2>4. durable \subseteq durable'
    OBVIOUS
  <2> QED
    BY <2>1, <2>2, <2>3, <2>4, PromiseKept
<1>6. AnswersAreTrue'
  BY DEF TypeOK, PCs, AnswersAreTrue, Promised, Kept, Stages, Owned, Owners, WritesOf, Answers
<1> QED
  BY <1>1, <1>2, <1>3, <1>4, <1>5, <1>6

\* COMMIT of a live handle, which always finds its transaction; of a finalised one,
\* only when another end is on its way.
LEMMA CommitStep ==
  ASSUME StatementFaults, NEW t \in ToolTxs, IInv, Commit(t)
  PROVE  IInv'
<1> USE SqliteAssumption DEF IInv, StatementFaults, Txs, Commit, CommitDone, CommitThrows, Overlap
<1>1. TypeOK'
  <2>1. ending' \subseteq ToolTxs \X Answers /\ overlapped' \subseteq ToolTxs
    BY DEF TypeOK, Answers
  <2>2. durable' \subseteq (Txs \cup Writers) \X Nat /\ pend' \subseteq (Txs \cup Writers) \X Nat /\ dbtx' \in BOOLEAN
    BY DEF TypeOK
  <2> QED
    BY <2>1, <2>2 DEF TypeOK
<1>2. Owned'
  BY DEF TypeOK, PCs, Owned, Stages, Owners
<1>3. Stages'
  BY DEF TypeOK, PCs, Stages, Owned, Owners, Answers
<1>4. Kept'
  BY DEF TypeOK, PCs, Kept, Stages, Owned, Owners
<1>5. Promised'
  <2> SUFFICES ASSUME NEW u \in ToolTxs \ overlapped'
               PROVE  /\ <<u, "committed">> \in ending' => \A w \in acked' : w[1] = u => w \in durable'
                      /\ <<u, "rolled_back">> \in ending' => \A w \in (durable \cup pend)' : w[1] # u
    BY DEF Promised
  <2>1. acked' = acked /\ durable \subseteq durable' /\ (durable \cup pend)' \subseteq durable \cup pend
    OBVIOUS
  <2>2. CASE u # t
    <3>1. \A answer \in Answers : <<u, answer>> \in ending' => <<u, answer>> \in ending
      BY <2>2
    <3>2. u \notin overlapped
      OBVIOUS
    <3> QED
      BY <2>1, <3>1, <3>2 DEF Promised, Answers
  <2>3. CASE u = t
    <3>1. t \notin finalised
      BY <2>3 DEF Stages
    <3>2. \A answer \in Answers : <<u, answer>> \notin ending
      BY <2>3, <3>1 DEF Stages
    <3>3. t \in Owners
      BY <3>1 DEF Owners, Stages
    <3>4. \A w \in acked' : w[1] = u => w \in durable'
      BY <2>3, <3>1, <3>3 DEF Kept, Owned
    <3>5. <<u, "rolled_back">> \notin ending'
      BY <2>3, <3>2 DEF Answers
    <3> QED
      BY <3>4, <3>5
  <2> QED
    BY <2>2, <2>3
<1>6. AnswersAreTrue'
  BY DEF TypeOK, PCs, AnswersAreTrue, Promised, Kept, Stages, Owned, Owners, WritesOf, Answers
<1> QED
  BY <1>1, <1>2, <1>3, <1>4, <1>5, <1>6

\* ROLLBACK, likewise.
LEMMA RollbackStep ==
  ASSUME StatementFaults, NEW t \in ToolTxs, IInv, Rollback(t)
  PROVE  IInv'
<1> USE SqliteAssumption DEF IInv, StatementFaults, Txs, Rollback, RolledBack, Overlap
<1>1. TypeOK'
  <2>1. ending' \subseteq ToolTxs \X Answers /\ overlapped' \subseteq ToolTxs
    BY DEF TypeOK, Answers
  <2>2. durable' \subseteq (Txs \cup Writers) \X Nat /\ pend' \subseteq (Txs \cup Writers) \X Nat /\ dbtx' \in BOOLEAN
    BY DEF TypeOK
  <2> QED
    BY <2>1, <2>2 DEF TypeOK
<1>2. Owned'
  BY DEF TypeOK, PCs, Owned, Stages, Owners
<1>3. Stages'
  BY DEF TypeOK, PCs, Stages, Owned, Owners, Answers
<1>4. Kept'
  BY DEF TypeOK, PCs, Kept, Stages, Owned, Owners
<1>5. Promised'
  <2> SUFFICES ASSUME NEW u \in ToolTxs \ overlapped'
               PROVE  /\ <<u, "committed">> \in ending' => \A w \in acked' : w[1] = u => w \in durable'
                      /\ <<u, "rolled_back">> \in ending' => \A w \in (durable \cup pend)' : w[1] # u
    BY DEF Promised
  <2>1. acked' = acked /\ durable \subseteq durable' /\ (durable \cup pend)' \subseteq durable \cup pend
    OBVIOUS
  <2>2. CASE u # t
    <3>1. \A answer \in Answers : <<u, answer>> \in ending' => <<u, answer>> \in ending
      BY <2>2
    <3>2. u \notin overlapped
      OBVIOUS
    <3> QED
      BY <2>1, <3>1, <3>2 DEF Promised, Answers
  <2>3. CASE u = t
    <3>1. t \notin finalised
      BY <2>3 DEF Stages
    <3>2. \A answer \in Answers : <<u, answer>> \notin ending
      BY <2>3, <3>1 DEF Stages
    <3>3. t \in Owners
      BY <3>1 DEF Owners, Stages
    <3>4. \A w \in (durable \cup pend)' : w[1] # u
      BY <2>3, <3>1 DEF Owned
    <3>5. <<u, "committed">> \notin ending'
      BY <2>3, <3>2 DEF Answers
    <3> QED
      BY <3>4, <3>5
  <2> QED
    BY <2>2, <2>3
<1>6. AnswersAreTrue'
  BY DEF TypeOK, PCs, AnswersAreTrue, Promised, Kept, Stages, Owned, Owners, WritesOf, Answers
<1> QED
  BY <1>1, <1>2, <1>3, <1>4, <1>5, <1>6

\* An end is answered as promised.
LEMMA AnswerStep ==
  ASSUME StatementFaults, NEW t \in ToolTxs, NEW answer \in Answers, IInv, AnswerEnd(t, answer)
  PROVE  IInv'
<1> USE SqliteAssumption DEF IInv, StatementFaults, Txs, AnswerEnd, Tell
<1>1. TypeOK'
  BY DEF TypeOK, PCs, Answers, FaultKinds
<1>2. Owned'
  BY DEF TypeOK, PCs, Owned, Stages, Owners
<1>3. Stages'
  <2>1. t \in finalised
    BY DEF Stages
  <2>2. \A u \in Txs : told'[u] # {} => u \in finalised
    BY <2>1 DEF TypeOK, Stages
  <2>3. ASSUME NEW u \in table' \cap finalised
        PROVE  \E a \in Answers : <<u, a>> \in ending'
    BY <2>3 DEF Stages
  <2> QED
    BY <2>2, <2>3 DEF Stages
<1>4. Kept'
  BY DEF TypeOK, PCs, Kept, Stages, Owned, Owners
<1>5. Promised'
  <2>1. ending' \subseteq ending /\ durable \subseteq durable' /\ (durable \cup pend)' \subseteq durable \cup pend
    OBVIOUS
  <2> QED
    BY <2>1, PromiseKept
<1>6. AnswersAreTrue'
  <2>1. t \in Txs /\ \A u \in Txs : u # t => told'[u] = told[u]
    BY DEF TypeOK
  <2>2. told'[t] = told[t] \cup {answer}
    BY <2>1 DEF TypeOK
  <2>3. t \notin BatchTxs
    OBVIOUS
  <2>4. ASSUME NEW b \in BatchTxs
        PROVE  /\ "success" \in told'[b] => {b} \X (1..BatchSize) \subseteq durable
               /\ "failure" \in told'[b] => WritesOf(b) = {}
    BY <2>1, <2>3 DEF AnswersAreTrue
  <2>5. ASSUME NEW u \in ToolTxs \ overlapped
        PROVE  /\ "committed" \in told'[u] => \A w \in acked : w[1] = u => w \in durable
               /\ "rolled_back" \in told'[u] => WritesOf(u) = {}
    BY <2>1, <2>2 DEF AnswersAreTrue, Promised, WritesOf
  <2> QED
    BY <2>4, <2>5 DEF AnswersAreTrue, WritesOf
<1> QED
  BY <1>1, <1>2, <1>3, <1>4, <1>5, <1>6

\* The interval ends the transaction without an answer.
LEMMA CleanupStep ==
  ASSUME StatementFaults, NEW t \in ToolTxs, IInv, CleanupExpired(t)
  PROVE  IInv'
<1> USE SqliteAssumption DEF IInv, StatementFaults, Txs, CleanupExpired, RolledBack
<1>1. TypeOK'
  BY DEF TypeOK, PCs, Answers, FaultKinds
<1>2. Owned'
  BY DEF TypeOK, PCs, Owned, Stages, Owners
<1>3. Stages'
  BY DEF TypeOK, PCs, Stages, Owned, Owners, Answers
<1>4. Kept'
  BY DEF TypeOK, PCs, Kept, Stages, Owned, Owners
<1>5. Promised'
  <2>1. ending' \subseteq ending /\ durable \subseteq durable' /\ (durable \cup pend)' \subseteq durable \cup pend
    OBVIOUS
  <2> QED
    BY <2>1, PromiseKept
<1>6. AnswersAreTrue'
  BY DEF TypeOK, PCs, AnswersAreTrue, Promised, Kept, Stages, Owned, Owners, WritesOf, Answers
<1> QED
  BY <1>1, <1>2, <1>3, <1>4, <1>5, <1>6

\* sql_execute joins the open transaction, or commits by itself.
LEMMA WriterStep ==
  ASSUME StatementFaults, NEW w \in Writers, IInv, SqlExecute(w)
  PROVE  IInv'
<1> USE SqliteAssumption DEF IInv, StatementFaults, Txs, SqlExecute, Stmt, Written, Refused
<1>1. TypeOK'
  BY DEF TypeOK, PCs, Answers, FaultKinds
<1>2. Owned'
  BY DEF TypeOK, PCs, Owned, Stages, Owners
<1>3. Stages'
  BY DEF TypeOK, PCs, Stages, Owned, Owners, Answers
<1>4. Kept'
  BY DEF TypeOK, PCs, Kept, Stages, Owned, Owners
<1>5. Promised'
  <2>1. {w} \cap finalised \cap ToolTxs = {}
    BY DEF TypeOK, Stages
  <2>2. \A x \in acked' : x \in acked \/ x[1] \in {w}
    OBVIOUS
  <2>3. \A x \in (durable \cup pend)' : x \in durable \cup pend \/ x[1] \in {w}
    BY DEF FaultKinds
  <2>4. durable \subseteq durable'
    OBVIOUS
  <2> QED
    BY <2>1, <2>2, <2>3, <2>4, PromiseKept
<1>6. AnswersAreTrue'
  BY DEF TypeOK, PCs, AnswersAreTrue, Promised, Kept, Stages, Owned, Owners, WritesOf, Answers
<1> QED
  BY <1>1, <1>2, <1>3, <1>4, <1>5, <1>6

\* A batch sends a statement; the first that is refused ends the loop.
LEMMA BatchStmtStep ==
  ASSUME StatementFaults, NEW t \in BatchTxs, IInv, BatchStmt(t)
  PROVE  IInv'
<1> USE SqliteAssumption DEF IInv, StatementFaults, Txs, BatchStmt, Stmt, Written, Refused
<1>1. TypeOK'
  BY DEF TypeOK, PCs, Answers, FaultKinds
<1>2. Owned'
  BY DEF TypeOK, PCs, Owned, Stages, Owners
<1>3. Stages'
  BY DEF TypeOK, PCs, Stages, Owned, Owners, Answers
<1>4. Kept'
  BY DEF TypeOK, PCs, Kept, Stages, Owned, Owners
<1>5. Promised'
  <2>1. {t} \cap finalised \cap ToolTxs = {}
    BY DEF TypeOK, Stages
  <2>2. \A x \in acked' : x \in acked \/ x[1] \in {t}
    OBVIOUS
  <2>3. \A x \in (durable \cup pend)' : x \in durable \cup pend \/ x[1] \in {t}
    BY DEF FaultKinds
  <2>4. durable \subseteq durable'
    OBVIOUS
  <2> QED
    BY <2>1, <2>2, <2>3, <2>4, PromiseKept
<1>6. AnswersAreTrue'
  BY DEF TypeOK, PCs, AnswersAreTrue, Promised, Kept, Stages, Owned, Owners, WritesOf, Answers
<1> QED
  BY <1>1, <1>2, <1>3, <1>4, <1>5, <1>6

\* A batch has sent all its statements and commits.
LEMMA BatchCommitStep ==
  ASSUME StatementFaults, NEW t \in BatchTxs, IInv, BatchCommit(t)
  PROVE  IInv'
<1> USE SqliteAssumption DEF IInv, StatementFaults, Txs, BatchCommit, CommitDone, CommitThrows, Tell
<1>1. TypeOK'
  <2>1. told' \in [Txs -> SUBSET Answers] /\ pc' \in [Txs -> PCs]
    BY DEF TypeOK, PCs, Answers
  <2>2. durable' \subseteq (Txs \cup Writers) \X Nat /\ pend' \subseteq (Txs \cup Writers) \X Nat /\ dbtx' \in BOOLEAN
    BY DEF TypeOK
  <2> QED
    BY <2>1, <2>2 DEF TypeOK
<1>2. Owned'
  BY DEF TypeOK, PCs, Owned, Stages, Owners
<1>3. Stages'
  BY DEF TypeOK, PCs, Stages, Owned, Owners, Answers
<1>4. Kept'
  BY DEF TypeOK, PCs, Kept, Stages, Owned, Owners
<1>5. Promised'
  <2>1. ending' \subseteq ending /\ durable \subseteq durable' /\ (durable \cup pend)' \subseteq durable \cup pend
    OBVIOUS
  <2> QED
    BY <2>1, PromiseKept
<1>6. AnswersAreTrue'
  BY DEF TypeOK, PCs, AnswersAreTrue, Promised, Kept, Stages, Owned, Owners, WritesOf, Answers
<1> QED
  BY <1>1, <1>2, <1>3, <1>4, <1>5, <1>6

\* A batch rolls back and answers failure.
LEMMA BatchUndoStep ==
  ASSUME StatementFaults, NEW t \in BatchTxs, IInv, BatchUndo(t)
  PROVE  IInv'
<1> USE SqliteAssumption DEF IInv, StatementFaults, Txs, BatchUndo, RolledBack, Tell
<1>1. TypeOK'
  BY DEF TypeOK, PCs, Answers, FaultKinds
<1>2. Owned'
  BY DEF TypeOK, PCs, Owned, Stages, Owners
<1>3. Stages'
  BY DEF TypeOK, PCs, Stages, Owned, Owners, Answers
<1>4. Kept'
  BY DEF TypeOK, PCs, Kept, Stages, Owned, Owners
<1>5. Promised'
  <2>1. ending' \subseteq ending /\ durable \subseteq durable' /\ (durable \cup pend)' \subseteq durable \cup pend
    OBVIOUS
  <2> QED
    BY <2>1, PromiseKept
<1>6. AnswersAreTrue'
  BY DEF TypeOK, PCs, AnswersAreTrue, Promised, Kept, Stages, Owned, Owners, WritesOf, Answers
<1> QED
  BY <1>1, <1>2, <1>3, <1>4, <1>5, <1>6

-----------------------------------------------------------------------------
(* The theorems.                                                             *)

\* The invariant holds before the first call.
LEMMA InitInv == Init => IInv
<1> SUFFICES ASSUME Init PROVE IInv
  OBVIOUS
<1> USE DEF Init
<1>1. TypeOK
  BY DEF TypeOK, PCs
<1>2. Owned /\ Stages /\ Kept
  BY DEF Owned, Owners, Stages, Kept, Txs
<1>3. Promised /\ AnswersAreTrue
  BY DEF Promised, AnswersAreTrue, Txs
<1> QED
  BY <1>1, <1>2, <1>3 DEF IInv

\* Every step keeps it.
LEMMA StepInv ==
  ASSUME StatementFaults, IInv, [Next]_vars
  PROVE  IInv'
<1>1. CASE \E t \in Txs : Begin(t)
  BY <1>1, BeginStep
<1>2. CASE \E t \in ToolTxs : Register(t) \/ ExecInTx(t) \/ CleanupExpired(t)
  BY <1>2, RegisterStep, ExecStep, CleanupStep
<1>3. CASE \E t \in ToolTxs : Commit(t) \/ Rollback(t)
  BY <1>3, CommitStep, RollbackStep
<1>4. CASE \E t \in ToolTxs : AnswerEnd(t, "committed") \/ AnswerEnd(t, "rolled_back")
  BY <1>4, AnswerStep DEF Answers
<1>5. CASE \E t \in BatchTxs : BatchStmt(t) \/ BatchCommit(t) \/ BatchUndo(t)
  BY <1>5, BatchStmtStep, BatchCommitStep, BatchUndoStep
<1>6. CASE \E w \in Writers : SqlExecute(w)
  BY <1>6, WriterStep
<1>7. CASE UNCHANGED vars
  BY <1>7 DEF vars, IInv, TypeOK, Owned, Owners, Stages, Kept, Promised, AnswersAreTrue, WritesOf
<1> QED
  BY <1>1, <1>2, <1>3, <1>4, <1>5, <1>6, <1>7 DEF Next

\* The inductive invariant: who owns the open transaction, where each handle is, and that
\* what is about to be answered is true.
THEOREM SqliteInvariant == StatementFaults => (Spec => []IInv)
<1> SUFFICES ASSUME StatementFaults PROVE Spec => []IInv
  OBVIOUS
<1>1. IInv /\ [Next]_vars => IInv'
  BY StepInv
<1> QED
  BY InitInv, <1>1, PTL DEF Spec

\* Whatever the faults, because the property speaks of refused statements only: at most one
\* handle is live on the shared database handle, and it owns what is pending.
THEOREM SqliteSoleOwner == Spec => []SoleOwner
<1>1. CASE StatementFaults
  <2>1. IInv => SoleOwner
    BY DEF IInv, Owned, SoleOwner
  <2> QED
    BY <1>1, <2>1, SqliteInvariant, PTL
<1>2. CASE ~StatementFaults
  <2>1. SoleOwner
    BY <1>2 DEF SoleOwner, StatementFaults
  <2> QED
    BY <2>1, PTL
<1> QED
  BY <1>1, <1>2

\* If SQLite refuses nothing but statements, in particular no COMMIT, batches are all or
\* nothing, and the answers of sql_commit and sql_rollback are true for every handle that
\* no second call was ending at the same time.
THEOREM SqliteAnswersTrue == StatementFaults => (Spec => []AnswersAreTrue)
<1> SUFFICES ASSUME StatementFaults PROVE Spec => []AnswersAreTrue
  OBVIOUS
<1>1. IInv => AnswersAreTrue
  BY DEF IInv
<1> QED
  BY <1>1, SqliteInvariant, PTL

-----------------------------------------------------------------------------
(* The refinement of AtomicStore.                                            *)

Sent == 1..(IF MaxStmts > BatchSize THEN MaxStmts ELSE BatchSize)
Permanent == {w \in durable : w[1] \in Txs}
Pending == [t \in Txs |-> {w[2] : w \in {x \in pend : x[1] = t}}]

\* What changes nothing of the handles' writes and ends none is invisible.
LEMMA StutterStep ==
  ASSUME finalised' = finalised, Permanent' = Permanent, Pending' = Pending
  PROVE  UNCHANGED Promise!vars
BY DEF Promise!vars, Permanent, Pending

\* A statement through the live handle.
LEMMA WriteStep ==
  ASSUME NEW t \in Txs, t \notin finalised, NEW n \in Sent,
         finalised' = finalised, durable' = durable, pend' = pend \cup {<<t, n>>}
  PROVE  Promise!Next
<1>1. Pending' = [Pending EXCEPT ![t] = @ \cup {n}]
  <2>1. ASSUME NEW u \in Txs
        PROVE  Pending'[u] = IF u = t THEN Pending[u] \cup {n} ELSE Pending[u]
    <3>1. CASE u # t
      <4>1. {x \in pend' : x[1] = u} = {x \in pend : x[1] = u}
        BY <3>1
      <4> QED
        BY <3>1, <4>1 DEF Pending
    <3>2. CASE u = t
      <4>1. {x \in pend' : x[1] = t} = {x \in pend : x[1] = t} \cup {<<t, n>>}
        OBVIOUS
      <4>2. {w[2] : w \in {x \in pend : x[1] = t} \cup {<<t, n>>}}
              = {w[2] : w \in {x \in pend : x[1] = t}} \cup {n}
        <5>1. <<t, n>>[2] = n
          OBVIOUS
        <5> QED
          BY <5>1, Zenon
      <4> QED
        BY <3>2, <4>1, <4>2 DEF Pending
    <3> QED
      BY <3>1, <3>2
  <2> QED
    BY <2>1 DEF Pending
<1>2. Promise!Write(t, n)
  BY <1>1 DEF Promise!Write, Pending
<1> QED
  BY <1>2 DEF Promise!Next, Sent

\* COMMIT of the owner.
LEMMA PublishStep ==
  ASSUME NEW t \in Txs, t \notin finalised, Owned, TypeOK, t \in Owners, Txs \cap Writers = {},
         finalised' = finalised \cup {t}, durable' = durable \cup pend, pend' = {}
  PROVE  Promise!Next
<1>1. Pending' = [Pending EXCEPT ![t] = {}]
  <2>1. ASSUME NEW u \in Txs, u # t
        PROVE  Pending[u] = {}
    BY <2>1 DEF Pending, Owned, Owners
  <2> QED
    BY <2>1 DEF Pending
<1>2. Permanent' = Permanent \cup ({t} \X Pending[t])
  <2>1. \A w \in pend : w[1] \in Txs => w[1] = t
    BY DEF Owned
  <2>2. \A w \in pend : w = <<w[1], w[2]>>
    BY DEF TypeOK
  <2>3. {t} \X Pending[t] = {w \in pend : w[1] = t}
    BY <2>2 DEF Pending
  <2> QED
    BY <2>1, <2>3 DEF Permanent
<1>3. Promise!Publish(t)
  BY <1>1, <1>2 DEF Promise!Publish, Pending, Permanent
<1> QED
  BY <1>3 DEF Promise!Next

\* ROLLBACK of the owner.
LEMMA DiscardStep ==
  ASSUME NEW t \in Txs, t \notin finalised, Owned, t \in Owners, Txs \cap Writers = {},
         finalised' = finalised \cup {t}, durable' = durable, pend' = {}
  PROVE  Promise!Next
<1>1. Pending' = [Pending EXCEPT ![t] = {}]
  <2>1. ASSUME NEW u \in Txs, u # t
        PROVE  Pending[u] = {}
    BY <2>1 DEF Pending, Owned, Owners
  <2> QED
    BY <2>1 DEF Pending
<1>2. Promise!Discard(t)
  BY <1>1 DEF Promise!Discard, Pending
<1> QED
  BY <1>2 DEF Promise!Next

\* Every step is a step of AtomicStore, or invisible.
LEMMA PromiseStep ==
  ASSUME StatementFaults, IInv, [Next]_vars
  PROVE  [Promise!Next]_Promise!vars
<1> USE SqliteAssumption DEF IInv, StatementFaults
<1>1. ASSUME NEW t \in Txs, Begin(t)
      PROVE  UNCHANGED Promise!vars
  BY <1>1, StutterStep DEF Begin, Permanent, Pending
<1>2. ASSUME NEW t \in ToolTxs, Register(t)
      PROVE  UNCHANGED Promise!vars
  BY <1>2, StutterStep DEF Register, Permanent, Pending
<1>3. ASSUME NEW t \in ToolTxs, ExecInTx(t)
      PROVE  [Promise!Next]_Promise!vars
  <2>1. t \in Owners /\ dbtx
    BY <1>3 DEF ExecInTx, Owners, Stages, Owned, Txs
  <2>2. CASE Stmt(<<t, done[t] + 1>>)
    <3>1. done[t] + 1 \in Sent
      BY <1>3 DEF ExecInTx, Sent, TypeOK, Txs
    <3> QED
      BY <1>3, <2>1, <2>2, <3>1, WriteStep DEF ExecInTx, Stmt, Written, Txs
  <2>3. CASE Refused
    BY <1>3, <2>3, StutterStep DEF ExecInTx, Refused, Permanent, Pending, FaultKinds
  <2> QED
    BY <1>3, <2>2, <2>3 DEF ExecInTx
<1>4. ASSUME NEW t \in ToolTxs, CleanupExpired(t) \/ Rollback(t)
      PROVE  [Promise!Next]_Promise!vars
  <2>1. RolledBack(t) /\ t \in table /\ t \in Txs
    BY <1>4 DEF CleanupExpired, Rollback, Txs
  <2>2. CASE t \in finalised
    BY <2>1, <2>2, StutterStep DEF RolledBack, Permanent, Pending
  <2>3. CASE t \notin finalised
    BY <2>1, <2>3, DiscardStep DEF RolledBack, Owners, Stages
  <2> QED
    BY <2>2, <2>3
<1>5. ASSUME NEW t \in ToolTxs, Commit(t)
      PROVE  [Promise!Next]_Promise!vars
  <2>1. CASE t \in finalised
    BY <1>5, <2>1, StutterStep DEF Commit, Permanent, Pending
  <2>2. CASE t \notin finalised
    <3>1. t \in Owners /\ dbtx
      BY <1>5, <2>2 DEF Commit, Owners, Stages, Owned, Txs
    <3> QED
      BY <1>5, <2>2, <3>1, PublishStep DEF Commit, CommitDone, CommitThrows, Txs
  <2> QED
    BY <2>1, <2>2
<1>6. ASSUME NEW t \in ToolTxs, NEW answer \in Answers, AnswerEnd(t, answer)
      PROVE  UNCHANGED Promise!vars
  BY <1>6, StutterStep DEF AnswerEnd, Permanent, Pending
<1>7. ASSUME NEW w \in Writers, SqlExecute(w)
      PROVE  UNCHANGED Promise!vars
  <2>1. finalised' = finalised
    BY <1>7 DEF SqlExecute
  <2>2. /\ durable' \in {durable, durable \cup {<<w, 1>>}}
        /\ pend' \in {pend, pend \cup {<<w, 1>>}}
    BY <1>7 DEF SqlExecute, Stmt, Written, Refused, FaultKinds
  <2>3. w \notin Txs
    OBVIOUS
  <2>4. Permanent' = Permanent
    BY <2>2, <2>3 DEF Permanent
  <2>5. Pending' = Pending
    <3>1. ASSUME NEW u \in Txs
          PROVE  {x \in pend' : x[1] = u} = {x \in pend : x[1] = u}
      BY <2>2, <2>3
    <3> QED
      BY <3>1 DEF Pending
  <2> QED
    BY <2>1, <2>4, <2>5, StutterStep
<1>8. ASSUME NEW t \in BatchTxs, BatchStmt(t)
      PROVE  [Promise!Next]_Promise!vars
  <2>1. t \in Owners /\ dbtx
    BY <1>8 DEF BatchStmt, Owners, Stages, Owned, Txs
  <2>2. CASE Stmt(<<t, done[t] + 1>>)
    <3>1. done[t] + 1 \in Sent
      BY <1>8 DEF BatchStmt, Sent, TypeOK, Txs
    <3> QED
      BY <1>8, <2>1, <2>2, <3>1, WriteStep DEF BatchStmt, Stmt, Written, Owners
  <2>3. CASE Refused
    BY <1>8, <2>3, StutterStep DEF BatchStmt, Refused, Permanent, Pending, FaultKinds
  <2> QED
    BY <1>8, <2>2, <2>3 DEF BatchStmt
<1>9. ASSUME NEW t \in BatchTxs, BatchCommit(t)
      PROVE  [Promise!Next]_Promise!vars
  <2>1. t \in Owners /\ dbtx
    BY <1>9 DEF BatchCommit, Owners, Stages, Owned, Txs
  <2> QED
    BY <1>9, <2>1, PublishStep DEF BatchCommit, CommitDone, CommitThrows, Owners
<1>10. ASSUME NEW t \in BatchTxs, BatchUndo(t)
       PROVE  [Promise!Next]_Promise!vars
  <2>1. t \in Owners /\ t \notin finalised
    BY <1>10 DEF BatchUndo, Owners, Stages, Txs
  <2> QED
    BY <1>10, <2>1, DiscardStep DEF BatchUndo, RolledBack, Owners
<1>11. CASE UNCHANGED vars
  BY <1>11, StutterStep DEF vars, Permanent, Pending
<1> QED
  BY <1>1, <1>2, <1>3, <1>4, <1>5, <1>6, <1>7, <1>8, <1>9, <1>10, <1>11 DEF Next, Answers

\* The handles on the shared database handle keep the promise of transactions, with
\* overlapping ends and sql_execute calls in between.
THEOREM SqliteImplementsAtomicStore == StatementFaults => (Spec => ImplementsAtomicStore)
<1> SUFFICES ASSUME StatementFaults PROVE Spec => Promise!Spec
  BY DEF ImplementsAtomicStore
<1>1. Init => Promise!Init
  BY DEF Init, Promise!Init
<1>2. IInv /\ [Next]_vars => [Promise!Next]_Promise!vars
  BY PromiseStep
<1> QED
  BY <1>1, <1>2, SqliteInvariant, PTL DEF Spec, Promise!Spec
=============================================================================
