----------------------- MODULE PooledTransactionsProofs -----------------------
(* Theorems about PooledTransactions for any number of handles, connections, *)
(* statements and outstanding commands, and either engine.                   *)
EXTENDS PooledTransactions, SequenceTheorems, TLAPS

\* Removing the head of a non-empty sequence shifts the rest down by one.
LEMMA TailFacts ==
  ASSUME NEW S, NEW s \in Seq(S), s # << >>
  PROVE  /\ Head(s) \in S /\ Head(s) = s[1] /\ Len(s) \in Nat /\ Len(s) >= 1
         /\ Tail(s) \in Seq(S)
         /\ Len(Tail(s)) = Len(s) - 1
         /\ \A i \in 1..Len(Tail(s)) : Tail(s)[i] = s[i + 1]
  OBVIOUS

\* Appending adds one element at the end and leaves the others in place.
LEMMA AppendFacts ==
  ASSUME NEW S, NEW s \in Seq(S), NEW x \in S
  PROVE  /\ Append(s, x) \in Seq(S)
         /\ Len(Append(s, x)) = Len(s) + 1
         /\ Append(s, x)[Len(s) + 1] = x
         /\ \A i \in 1..Len(s) : Append(s, x)[i] = s[i]
  OBVIOUS

\* Removing an element moves those behind it up by one.
LEMMA RemoveAtFacts ==
  ASSUME NEW S, NEW s \in Seq(S), NEW i \in 1..Len(s)
  PROVE  /\ RemoveAt(s, i) \in Seq(S) /\ Len(s) \in Nat /\ s[i] \in S
         /\ Len(RemoveAt(s, i)) = Len(s) - 1
         /\ \A j \in 1..Len(s) - 1 : RemoveAt(s, i)[j] = IF j < i THEN s[j] ELSE s[j + 1]
  <1> DEFINE before == SubSeq(s, 1, i - 1)
             after == SubSeq(s, i + 1, Len(s))
  <1>1. Len(s) \in Nat /\ s[i] \in S
    OBVIOUS
  <1>2. before \in Seq(S) /\ Len(before) = i - 1 /\ \A j \in 1..i - 1 : before[j] = s[j]
    OBVIOUS
  <1>3. /\ after \in Seq(S) /\ Len(after) = Len(s) - i
        /\ \A j \in 1..Len(s) - i : after[j] = s[i + j]
    OBVIOUS
  <1>4. RemoveAt(s, i) = before \o after
    BY DEF RemoveAt
  <1> HIDE DEF before, after
  <1>5. RemoveAt(s, i) \in Seq(S) /\ Len(RemoveAt(s, i)) = Len(s) - 1
    BY <1>1, <1>2, <1>3, <1>4
  <1>6. ASSUME NEW j \in 1..Len(s) - 1
        PROVE  RemoveAt(s, i)[j] = IF j < i THEN s[j] ELSE s[j + 1]
    <2>1. CASE j < i
      BY <1>1, <1>2, <1>3, <1>4, <2>1
    <2>2. CASE j >= i
      <3>1. (before \o after)[j] = after[j - (i - 1)]
        BY <1>1, <1>2, <1>3, <2>2
      <3>2. j - (i - 1) \in 1..Len(s) - i /\ i + (j - (i - 1)) = j + 1
        BY <1>1, <2>2
      <3> QED BY <1>1, <1>3, <1>4, <2>2, <3>1, <3>2
    <2> QED BY <1>1, <2>1, <2>2
  <1> QED BY <1>1, <1>5, <1>6

\* Commands built by Cmd are well typed.
LEMMA CmdType ==
  ASSUME NEW op \in Ops, NEW t \in Txs, NEW by \in Callers, NEW n \in Nat
  PROVE  /\ Cmd(op, t, by, n) \in Command
         /\ Cmd(op, t, by, n).op = op /\ Cmd(op, t, by, n).tx = t
         /\ Cmd(op, t, by, n).by = by /\ Cmd(op, t, by, n).n = n
  BY DEF Cmd, Command

\* The ways a handler writes to its connection or leaves it keep the types of the queues
\* and of the history of calls.
LEMMA IssueType ==
  ASSUME TypeOK, NEW c, NEW cmd \in Command, Issue(c, cmd)
  PROVE  queue' \in [Conns -> Seq(Command)] /\ finished' \subseteq Txs /\ late' \subseteq Txs
  <1>1. c \in Conns => Append(queue[c], cmd) \in Seq(Command)
    BY AppendFacts DEF TypeOK
  <1>2. cmd.tx \in Txs
    BY DEF Command
  <1> QED BY <1>1, <1>2 DEF TypeOK, Issue, Called

LEMMA AnsweredThenType ==
  ASSUME TypeOK, NEW c \in Conns, queue[c] # << >>, NEW cmd \in Command, AnsweredThen(c, cmd)
  PROVE  queue' \in [Conns -> Seq(Command)] /\ finished' \subseteq Txs /\ late' \subseteq Txs
  <1>1. Tail(queue[c]) \in Seq(Command)
    BY TailFacts DEF TypeOK
  <1>2. Append(Tail(queue[c]), cmd) \in Seq(Command)
    BY <1>1, AppendFacts
  <1>3. cmd.tx \in Txs
    BY DEF Command
  <1> QED BY <1>2, <1>3 DEF TypeOK, AnsweredThen, Called

LEMMA AnsweredType ==
  ASSUME TypeOK, NEW c \in Conns, queue[c] # << >>, Answered(c)
  PROVE  queue' \in [Conns -> Seq(Command)] /\ finished' \subseteq Txs /\ late' \subseteq Txs
  <1>1. Tail(queue[c]) \in Seq(Command)
    BY TailFacts DEF TypeOK
  <1> QED BY <1>1 DEF TypeOK, Answered

\* The next command of a batch, and that of its catch block, are commands.
LEMMA NextCommandType ==
  ASSUME NEW t \in Txs, NEW n \in Nat, NEW next \in AfterStatement(t, n)
  PROVE  next \in Command /\ next.tx = t /\ next.op # "BEGIN"
  BY PoolAssumption, CmdType DEF AfterStatement, Ops, Callers

LEMMA CatchCommandType ==
  ASSUME NEW t \in Txs
  PROVE  /\ CatchCommand(t) \in Command
         /\ CatchCommand(t).tx = t /\ CatchCommand(t).op = "ROLLBACK"
  BY CmdType DEF CatchCommand, Ops, Callers

-----------------------------------------------------------------------------
\* The initial state is well typed.
LEMMA InitType == Init => TypeOK
  <1> SUFFICES ASSUME Init PROVE TypeOK
    OBVIOUS
  <1>1. << >> \in Seq(Txs) /\ << >> \in Seq(Command)
    OBVIOUS
  <1> QED BY <1>1 DEF Init, TypeOK

\* Every answer keeps the types.
LEMMA AnswerType ==
  ASSUME TypeOK, NEW c \in Conns, Answer(c)
  PROVE  TypeOK'
  <1> DEFINE cmd == Head(queue[c])
  <1>1. queue[c] # << >> /\ cmd \in Command
    BY TailFacts DEF Answer, TypeOK
  <1>2. cmd.tx \in Txs /\ cmd.n \in Nat /\ <<cmd.tx, cmd.n>> \in Txs \X Nat
    BY <1>1 DEF Command
  <1>3. Freed(c) \in [Conns -> Nat]
    BY DEF Freed, TypeOK
  <1> HIDE DEF cmd
  <1>4. CASE BeginOk(c, cmd)
    <2>1. queue' \in [Conns -> Seq(Command)] /\ finished' \subseteq Txs /\ late' \subseteq Txs
      <3>1. CASE Answered(c)
        BY <3>1, <1>1, AnsweredType
      <3>2. ASSUME NEW next \in AfterStatement(cmd.tx, 0), AnsweredThen(c, next)
            PROVE  queue' \in [Conns -> Seq(Command)] /\ finished' \subseteq Txs /\ late' \subseteq Txs
        BY <3>2, <1>1, <1>2, AnsweredThenType, NextCommandType
      <3> QED BY <1>4, <3>1, <3>2 DEF BeginOk
    <2> QED BY <1>4, <1>1, <1>2, <2>1 DEF BeginOk, TypeOK
  <1>5. CASE BeginFails(c, cmd)
    BY <1>5, <1>1, <1>2, AnsweredType DEF BeginFails, serverVars, TypeOK
  <1>6. CASE StmtOk(c, cmd)
    <2>1. queue' \in [Conns -> Seq(Command)] /\ finished' \subseteq Txs /\ late' \subseteq Txs
      <3>1. CASE Answered(c)
        BY <3>1, <1>1, AnsweredType
      <3>2. ASSUME NEW next \in AfterStatement(cmd.tx, cmd.n), AnsweredThen(c, next)
            PROVE  queue' \in [Conns -> Seq(Command)] /\ finished' \subseteq Txs /\ late' \subseteq Txs
        BY <3>2, <1>1, <1>2, AnsweredThenType, NextCommandType
      <3> QED BY <1>6, <3>1, <3>2 DEF StmtOk
    <2>2. /\ durable' \subseteq Txs \X Nat
          /\ pend' \in [Conns -> SUBSET (Txs \X Nat)]
      <3> DEFINE w == <<cmd.tx, cmd.n>>
      <3>1. w \in Txs \X Nat
        BY <1>2
      <3>2. pend[c] \in SUBSET (Txs \X Nat) /\ durable \in SUBSET (Txs \X Nat)
        BY DEF TypeOK
      <3> HIDE DEF w
      <3>3. /\ pend[c] \cup {w} \in SUBSET (Txs \X Nat)
            /\ durable \cup {w} \in SUBSET (Txs \X Nat)
        BY <3>1, <3>2
      <3>4. \/ pend' = [pend EXCEPT ![c] = pend[c] \cup {w}] /\ durable' = durable
            \/ durable' = durable \cup {w} /\ pend' = pend
        BY <1>6 DEF StmtOk, w
      <3> QED BY ZenonT(60), <3>2, <3>3, <3>4 DEF TypeOK
    <2>3. acked' \in [Txs -> SUBSET Nat]
      BY <1>6, <1>2 DEF StmtOk, TypeOK
    <2> QED BY <1>6, <2>1, <2>2, <2>3 DEF StmtOk, clientVars, TypeOK
  <1>7. CASE StmtFails(c, cmd)
    BY <1>7, <1>1, <1>2, AnsweredType, AnsweredThenType, CatchCommandType
    DEF StmtFails, clientVars, TypeOK
  <1>8. ASSUME NEW ok \in BOOLEAN, NEW answer \in Answers, EndOfTx(c, cmd, ok, answer),
               durable' \subseteq Txs \X Nat
        PROVE TypeOK'
    <2> DEFINE done == ok /\ ~ReleaseThrows(c)
    <2>1. Conclude(c, cmd, done, answer)
      BY <1>8 DEF EndOfTx
    <2> HIDE DEF done
    <2>2. queue' \in [Conns -> Seq(Command)] /\ finished' \subseteq Txs /\ late' \subseteq Txs
      <3>1. CASE Answered(c)
        BY <3>1, <1>1, AnsweredType
      <3>2. CASE AnsweredThen(c, CatchCommand(cmd.tx))
        BY <3>2, <1>1, <1>2, AnsweredThenType, CatchCommandType
      <3> QED BY <2>1, <3>1, <3>2 DEF Conclude
    <2>3. told' \in [Txs -> SUBSET Answers] /\ table' \subseteq Txs
      <3>1. table' \subseteq table
        BY <2>1 DEF Conclude, TableAfterFinish
      <3>2. told' = told \/ \E a \in Answers : told' = [told EXCEPT ![cmd.tx] = @ \cup {a}]
        BY <2>1, <1>8 DEF Conclude, Tell, Answers
      <3>3. \A a \in Answers : told[cmd.tx] \cup {a} \in SUBSET Answers
        BY <1>2 DEF TypeOK
      <3> QED BY <3>1, <3>2, <3>3 DEF TypeOK
    <2>4. /\ sess' \in [Conns -> {"auto", "open", "aborted"}]
          /\ pend' \in [Conns -> SUBSET (Txs \X Nat)]
          /\ lease' \in [Txs -> {"unused", "waiting", "refused", "held", "leaked", "released"}]
      BY <1>8 DEF EndOfTx, TypeOK
    <2> QED BY <1>8, <1>3, <2>2, <2>3, <2>4 DEF EndOfTx, TypeOK
  <1>9. CASE CommitOk(c, cmd)
    BY <1>9, <1>8 DEF CommitOk, Answers, TypeOK
  <1>10. CASE CommitFails(c, cmd)
    BY <1>10, <1>8 DEF CommitFails, Answers, TypeOK
  <1>11. CASE RollbackOk(c, cmd)
    BY <1>11, <1>8 DEF RollbackOk, Answers, TypeOK
  <1> QED BY <1>4, <1>5, <1>6, <1>7, <1>9, <1>10, <1>11 DEF Answer, cmd

\* Every step keeps the types.
LEMMA NextType == TypeOK /\ [Next]_vars => TypeOK'
  <1> SUFFICES ASSUME TypeOK, [Next]_vars PROVE TypeOK'
    OBVIOUS
  <1>1. ASSUME NEW t \in Txs, CallBegin(t) PROVE TypeOK'
    <2>1. Append(waitq, t) \in Seq(Txs)
      BY AppendFacts DEF TypeOK
    <2> QED BY <1>1, <2>1 DEF CallBegin, serverVars, history, TypeOK
  <1>9. ASSUME NEW i \in DOMAIN waitq, WaitTimesOut(i) PROVE TypeOK'
    <2>1. i \in 1..Len(waitq)
      BY DEF TypeOK
    <2>2. RemoveAt(waitq, i) \in Seq(Txs)
      BY <2>1, RemoveAtFacts DEF TypeOK
    <2> QED BY <1>9, <2>2 DEF WaitTimesOut, serverVars, history, TypeOK
  <1>2. ASSUME NEW c \in Conns, PoolGrant(c) PROVE TypeOK'
    <2>1. Head(waitq) \in Txs /\ Tail(waitq) \in Seq(Txs)
      BY <1>2, TailFacts DEF PoolGrant, TypeOK
    <2> DEFINE t == Head(waitq)
               cmd == Cmd("BEGIN", t, IF t \in ToolTxs THEN "tool" ELSE "batch", 0)
    <2>2. cmd \in Command
      BY <2>1, CmdType DEF Ops, Callers
    <2>3. Issue(c, cmd)
      BY <1>2 DEF PoolGrant
    <2> HIDE DEF cmd
    <2>4. queue' \in [Conns -> Seq(Command)] /\ finished' \subseteq Txs /\ late' \subseteq Txs
      BY <2>2, <2>3, IssueType
    <2>5. idle' \in [Conns -> Nat]
      BY <1>2 DEF PoolGrant, Available, Taken, TypeOK
    <2> QED BY <1>2, <2>1, <2>4, <2>5 DEF PoolGrant, serverVars, TypeOK
  <1>3. ASSUME NEW c \in Conns, Answer(c) PROVE TypeOK'
    BY <1>3, AnswerType
  <1>4. ASSUME NEW t \in ToolTxs, ExecInTx(t) PROVE TypeOK'
    <2>1. t \in Txs /\ sent[t] + 1 \in Nat
      BY DEF Txs, TypeOK
    <2>2. Cmd("STMT", t, "tool", sent[t] + 1) \in Command
      BY <2>1, CmdType DEF Ops, Callers
    <2>3. queue' \in [Conns -> Seq(Command)] /\ finished' \subseteq Txs /\ late' \subseteq Txs
      BY <1>4, <2>2, IssueType DEF ExecInTx
    <2> QED BY <1>4, <2>1, <2>3 DEF ExecInTx, serverVars, TypeOK
  <1>5. ASSUME NEW t \in ToolTxs, NEW op \in {"COMMIT", "ROLLBACK"}, Finish(t, op) PROVE TypeOK'
    <2>1. Cmd(op, t, "tool", 0) \in Command
      BY CmdType DEF Ops, Callers, Txs
    <2>2. queue' \in [Conns -> Seq(Command)] /\ finished' \subseteq Txs /\ late' \subseteq Txs
      BY <1>5, <2>1, IssueType DEF Finish
    <2> QED BY <1>5, <2>2 DEF Finish, clientVars, serverVars, TypeOK
  <1>6. ASSUME NEW t \in ToolTxs, CleanupExpired(t) PROVE TypeOK'
    <2>1. Cmd("ROLLBACK", t, "timer", 0) \in Command
      BY CmdType DEF Ops, Callers, Txs
    <2>2. queue' \in [Conns -> Seq(Command)] /\ finished' \subseteq Txs /\ late' \subseteq Txs
      BY <1>6, <2>1, IssueType DEF CleanupExpired
    <2> QED BY <1>6, <2>2 DEF CleanupExpired, serverVars, TypeOK
  <1>7. ASSUME NEW c \in Conns, NEW i \in DOMAIN queue[c], StmtTimesOut(c, i) PROVE TypeOK'
    <2> DEFINE orphan == [queue[c][i] EXCEPT !.by = "nobody"]
               left == [queue[c] EXCEPT ![i] = orphan]
    <2>1. queue[c] \in Seq(Command) /\ queue[c][i] \in Command /\ queue[c][i].tx \in Txs
      <3>1. queue[c] \in Seq(Command)
        BY DEF TypeOK
      <3>2. i \in 1..Len(queue[c])
        BY <3>1
      <3>3. queue[c][i] \in Command
        BY <3>1, <3>2
      <3> QED BY <3>1, <3>3 DEF Command
    <2>2. orphan \in Command
      BY <2>1 DEF Command, Callers
    <2>3. left \in Seq(Command)
      BY <2>1, <2>2
    <2>4. Append(left, CatchCommand(queue[c][i].tx)) \in Seq(Command)
      BY <2>1, <2>3, AppendFacts, CatchCommandType
    <2>5. queue' = [queue EXCEPT ![c] = left]
          \/ queue' = [queue EXCEPT ![c] = Append(left, CatchCommand(queue[c][i].tx))]
      <3> DEFINE orphaned == [queue EXCEPT ![c][i].by = "nobody"]
      <3>1. orphaned = [queue EXCEPT ![c] = left]
        OBVIOUS
      <3>2. orphaned[c] = left
        BY <3>1 DEF TypeOK
      <3> HIDE DEF left
      <3>3. [orphaned EXCEPT ![c] = Append(@, CatchCommand(queue[c][i].tx))]
              = [queue EXCEPT ![c] = Append(left, CatchCommand(queue[c][i].tx))]
        BY <3>1, <3>2 DEF TypeOK
      <3>4. queue' = orphaned
            \/ queue' = [orphaned EXCEPT ![c] = Append(@, CatchCommand(queue[c][i].tx))]
        BY <1>7 DEF StmtTimesOut
      <3> QED BY <3>1, <3>3, <3>4
    <2>6. queue' \in [Conns -> Seq(Command)]
      BY <2>3, <2>4, <2>5 DEF TypeOK
    <2>7. finished' \subseteq Txs /\ late' \subseteq Txs
      BY <1>7, <2>1, CatchCommandType DEF StmtTimesOut, Called, TypeOK
    <2> QED BY <1>7, <2>6, <2>7 DEF StmtTimesOut, clientVars, serverVars, TypeOK
  <1>8. CASE UNCHANGED vars
    BY <1>8 DEF vars, clientVars, serverVars, history, TypeOK
  <1> QED BY <1>1, <1>2, <1>3, <1>4, <1>5, <1>6, <1>7, <1>8, <1>9 DEF Next

\* Every reachable state is well typed.
THEOREM TypeCorrect == Spec => []TypeOK
  BY InitType, NextType, PTL DEF Spec

-----------------------------------------------------------------------------
(* The inductive invariant behind the exclusive, clean lease.  All of it     *)
(* holds only while no handle was used after its end.                        *)

\* What is outstanding on c belongs to its holder: BEGIN alone on a clean
\* session, or statements with at most one COMMIT or ROLLBACK, which comes last.
QueueOK(c) ==
  \A i \in 1..Len(queue[c]) :
    /\ lease[queue[c][i].tx] = "held" /\ conn[queue[c][i].tx] = c
    /\ queue[c][i].op = "BEGIN" =>
         /\ Len(queue[c]) = 1 /\ sess[c] = "auto" /\ pend[c] = {}
         /\ queue[c][i].tx \notin table \cup finished
    /\ Finishing(queue[c][i]) => i = Len(queue[c]) /\ queue[c][i].tx \in finished

ConnOK(c) ==
  /\ QueueOK(c)
  /\ \A t, u \in Holders(c) : t = u
  /\ idle[c] <= 1
  /\ idle[c] = 1 => /\ Holders(c) = {} /\ queue[c] = << >>
                    /\ sess[c] = "auto" /\ pend[c] = {}
  /\ \A w \in pend[c] : w[1] \in Holders(c)
  /\ idle[c] = 1 \/ \E t \in Txs : conn[t] = c /\ lease[t] \in {"held", "leaked"}

HandleOK(t) ==
  /\ lease[t] \in {"unused", "waiting"} => conn[t] = NoConn
  /\ t \in table => /\ conn[t] \in Conns
                    /\ lease[t] = "held" \/ (lease[t] = "released" /\ t \in finished)
  /\ t \in finished => lease[t] \in {"held", "released"}

WaitOK ==
  \A i \in 1..Len(waitq) :
    lease[waitq[i]] = "waiting" /\ \A j \in 1..Len(waitq) : waitq[i] = waitq[j] => i = j

LeaseBody == WaitOK /\ (\A c \in Conns : ConnOK(c)) /\ (\A t \in Txs : HandleOK(t))
LeaseInv == Disciplined => LeaseBody

\* Outstanding commands are commands.
LEMMA QueueElement ==
  ASSUME TypeOK, NEW c \in Conns, NEW i \in 1..Len(queue[c])
  PROVE  /\ queue[c][i] \in Command /\ queue[c][i].tx \in Txs
         /\ queue[c][i].op \in Ops /\ queue[c][i].n \in Nat
  <1>1. queue[c] \in Seq(Command)
    BY DEF TypeOK
  <1>2. queue[c][i] \in Command
    BY <1>1
  <1> QED BY <1>2 DEF Command

\* A connection whose queue, idle count and session are untouched, by a step that
\* also leaves alone every handle leased there, stays as it was.
LEMMA Untouched ==
  ASSUME TypeOK, TypeOK', NEW c \in Conns, ConnOK(c),
         queue'[c] = queue[c], idle'[c] = idle[c], sess'[c] = sess[c], pend'[c] = pend[c],
         \A t \in Txs : conn[t] = c \/ conn'[t] = c =>
            /\ lease'[t] = lease[t] /\ conn'[t] = conn[t]
            /\ t \in table' <=> t \in table
            /\ t \in finished' <=> t \in finished
  PROVE  ConnOK(c)'
  <1>1. \A i \in 1..Len(queue[c]) : queue[c][i].tx \in Txs
    BY QueueElement
  <1>2. QueueOK(c)'
    BY <1>1 DEF ConnOK, QueueOK, Finishing
  <1>3. Holders(c)' = Holders(c)
    BY DEF Holders
  <1> QED BY <1>2, <1>3 DEF ConnOK

\* A step on behalf of the handle t that holds c leaves every other connection,
\* every other handle and the waiting callers as they were.
LEMMA Elsewhere ==
  ASSUME TypeOK, TypeOK', LeaseBody,
         NEW c \in Conns, NEW t \in Txs, lease[t] = "held", conn[t] = c,
         waitq' = waitq, conn' = conn,
         \A u \in Txs \ {t} : /\ lease'[u] = lease[u]
                              /\ u \in table' <=> u \in table
                              /\ u \in finished' <=> u \in finished,
         \A d \in Conns \ {c} : /\ queue'[d] = queue[d] /\ idle'[d] = idle[d]
                                /\ sess'[d] = sess[d] /\ pend'[d] = pend[d],
         HandleOK(t)', ConnOK(c)'
  PROVE  LeaseBody'
  <1>1. ASSUME NEW d \in Conns \ {c} PROVE ConnOK(d)'
    BY Untouched DEF LeaseBody
  <1>2. ASSUME NEW u \in Txs \ {t} PROVE HandleOK(u)'
    BY DEF LeaseBody, HandleOK
  <1>3. WaitOK'
    <2>1. \A i \in 1..Len(waitq) : waitq[i] \in Txs
      BY DEF TypeOK
    <2> QED BY <2>1 DEF LeaseBody, WaitOK
  <1> QED BY <1>1, <1>2, <1>3 DEF LeaseBody

\* While its handle t is not finished, a held connection's queue is BEGIN alone or
\* statements of t.
LEMMA HeldQueue ==
  ASSUME TypeOK, LeaseBody, NEW c \in Conns, NEW t \in Txs \ finished,
         lease[t] = "held", conn[t] = c, NEW i \in 1..Len(queue[c])
  PROVE  /\ queue[c][i] \in Command /\ queue[c][i].tx = t
         /\ queue[c][i].op \in {"BEGIN", "STMT"}
         /\ queue[c][i].op = "BEGIN" => Len(queue[c]) = 1 /\ t \notin table
  <1>1. queue[c][i] \in Command /\ queue[c][i].tx \in Txs /\ queue[c][i].op \in Ops
    BY QueueElement
  <1>2. QueueOK(c) /\ \A u, v \in Holders(c) : u = v
    BY DEF LeaseBody, ConnOK
  <1>3. queue[c][i].tx = t
    BY <1>1, <1>2 DEF QueueOK, Holders
  <1> QED BY <1>1, <1>2, <1>3 DEF QueueOK, Finishing, Ops

\* Sending a command other than BEGIN behind statements of the same handle.
LEMMA Pushed ==
  ASSUME TypeOK, NEW c \in Conns, NEW cmd \in Command, cmd.op # "BEGIN",
         lease'[cmd.tx] = "held", conn'[cmd.tx] = c,
         Finishing(cmd) => cmd.tx \in finished',
         NEW r \in Seq(Command),
         \A i \in 1..Len(r) : r[i].op = "STMT" /\ r[i].tx = cmd.tx,
         queue'[c] = Append(r, cmd)
  PROVE  QueueOK(c)'
  <1>1. /\ Len(queue'[c]) = Len(r) + 1 /\ queue'[c][Len(r) + 1] = cmd
        /\ \A i \in 1..Len(r) : queue'[c][i] = r[i]
        /\ Len(r) \in Nat
    BY AppendFacts
  <1>2. ASSUME NEW i \in 1..Len(r) + 1
        PROVE  \/ i = Len(r) + 1 /\ queue'[c][i] = cmd
               \/ queue'[c][i].op = "STMT" /\ queue'[c][i].tx = cmd.tx
    BY <1>1
  <1> QED BY <1>1, <1>2 DEF QueueOK, Finishing

\* What a call says of the history, when the step leaves every handle disciplined.
LEMMA CalledFacts ==
  ASSUME NEW cmd \in Command, Called(cmd), Disciplined'
  PROVE  /\ Disciplined /\ cmd.tx \notin finished
         /\ Finishing(cmd) => cmd.tx \in finished'
         /\ \A u \in Txs \ {cmd.tx} : u \in finished' <=> u \in finished
         /\ ~Finishing(cmd) => finished' = finished
  BY DEF Called, Disciplined

-----------------------------------------------------------------------------
(* One lemma per group of actions: the invariant is kept.                    *)

\* The initial state satisfies it.
LEMMA InitLease == Init => LeaseInv
  BY PoolAssumption
  DEF Init, LeaseInv, LeaseBody, WaitOK, ConnOK, QueueOK, HandleOK, Holders

\* A step that leaves the queue of the pool alone and no waiting caller.
LEMMA StillWaits ==
  ASSUME TypeOK, WaitOK, waitq' = waitq,
         \A u \in Txs : lease[u] = "waiting" => lease'[u] = "waiting"
  PROVE  WaitOK'
  <1>1. \A i \in 1..Len(waitq) : waitq[i] \in Txs
    BY DEF TypeOK
  <1> QED BY <1>1 DEF WaitOK

\* A new caller queues last, one that gives up or is served leaves, and the others wait on.
LEMMA CallBeginWaits ==
  ASSUME TypeOK, WaitOK, NEW t \in Txs, CallBegin(t)
  PROVE  WaitOK'
  <1>1. /\ Len(waitq') = Len(waitq) + 1 /\ waitq'[Len(waitq) + 1] = t
        /\ \A i \in 1..Len(waitq) : waitq'[i] = waitq[i] /\ waitq[i] \in Txs
        /\ Len(waitq) \in Nat
    BY AppendFacts DEF CallBegin, TypeOK
  <1>2. \A i \in 1..Len(waitq) : waitq[i] # t /\ lease'[waitq[i]] = "waiting"
    BY <1>1 DEF CallBegin, WaitOK, TypeOK
  <1>3. lease'[t] = "waiting"
    BY DEF CallBegin, TypeOK
  <1>4. ASSUME NEW i \in 1..Len(waitq) + 1
        PROVE  \/ i = Len(waitq) + 1 /\ waitq'[i] = t
               \/ i \in 1..Len(waitq) /\ waitq'[i] = waitq[i]
    BY <1>1
  <1> QED BY <1>1, <1>2, <1>3, <1>4 DEF WaitOK

LEMMA WaitTimesOutWaits ==
  ASSUME TypeOK, WaitOK, NEW i \in 1..Len(waitq), WaitTimesOut(i)
  PROVE  WaitOK'
  <1>1. PICK t : t = waitq[i]
    OBVIOUS
  <1>2. waitq \in Seq(Txs) /\ t \in Txs /\ lease[t] = "waiting"
    BY <1>1, RemoveAtFacts DEF WaitOK, TypeOK
  <1>3. waitq' = RemoveAt(waitq, i) /\ lease' = [lease EXCEPT ![t] = "refused"]
    BY <1>1 DEF WaitTimesOut
  <1>4. \A u \in Txs \ {t} : lease'[u] = lease[u]
    BY <1>2, <1>3 DEF TypeOK
  <1> QED
    <2>1. /\ Len(waitq') = Len(waitq) - 1 /\ Len(waitq) \in Nat
          /\ \A j \in 1..Len(waitq) - 1 : waitq'[j] = IF j < i THEN waitq[j] ELSE waitq[j + 1]
      BY <1>2, <1>3, RemoveAtFacts
    <2>2. ASSUME NEW j \in 1..Len(waitq')
          PROVE  \E m \in 1..Len(waitq) : /\ m # i /\ waitq'[j] = waitq[m]
                                          /\ m = IF j < i THEN j ELSE j + 1
      BY <2>1
    <2>3. \A m \in 1..Len(waitq) : m # i => waitq[m] \in Txs \ {t} /\ lease[waitq[m]] = "waiting"
      BY <1>1, <1>2 DEF WaitOK
    <2>4. ASSUME NEW j \in 1..Len(waitq') PROVE lease'[waitq'[j]] = "waiting"
      <3>1. PICK m \in 1..Len(waitq) : m # i /\ waitq'[j] = waitq[m]
        BY <2>2
      <3>2. waitq[m] \in Txs \ {t} /\ lease[waitq[m]] = "waiting"
        BY ONLY <3>1, <2>3
      <3> QED BY ONLY <1>4, <3>1, <3>2
    <2>5. ASSUME NEW j \in 1..Len(waitq'), NEW k \in 1..Len(waitq'), waitq'[j] = waitq'[k]
          PROVE  j = k
      <3>1. PICK m \in 1..Len(waitq) : waitq'[j] = waitq[m] /\ m = IF j < i THEN j ELSE j + 1
        BY <2>2
      <3>2. PICK n \in 1..Len(waitq) : waitq'[k] = waitq[n] /\ n = IF k < i THEN k ELSE k + 1
        BY <2>2
      <3>3. m = n
        BY <2>5, <3>1, <3>2 DEF WaitOK
      <3> QED BY <2>1, <3>1, <3>2, <3>3
    <2> QED BY <2>4, <2>5 DEF WaitOK

LEMMA GrantWaits ==
  ASSUME TypeOK, WaitOK, NEW c \in Conns, PoolGrant(c)
  PROVE  WaitOK'
  <1> DEFINE t == Head(waitq)
  <1>1. /\ t \in Txs /\ lease[t] = "waiting" /\ Len(waitq) \in Nat /\ waitq[1] = t
        /\ Len(waitq') = Len(waitq) - 1 /\ \A i \in 1..Len(waitq') : waitq'[i] = waitq[i + 1]
    BY TailFacts DEF PoolGrant, WaitOK, TypeOK
  <1>3. lease' = [lease EXCEPT ![t] = "held"]
    BY DEF PoolGrant
  <1> HIDE DEF t
  <1> QED
    <2>1. \A i \in 1..Len(waitq') : i + 1 \in 1..Len(waitq) /\ i + 1 # 1
      BY <1>1
    <2>2. \A i \in 1..Len(waitq') : lease'[waitq'[i]] = "waiting"
      <3> SUFFICES ASSUME NEW i \in 1..Len(waitq') PROVE lease'[waitq'[i]] = "waiting"
        OBVIOUS
      <3> DEFINE u == waitq[i + 1]
      <3>1. lease[u] = "waiting" /\ u # waitq[1]
        BY <1>1, <2>1 DEF WaitOK
      <3>2. u \in Txs
        BY <2>1 DEF TypeOK
      <3> QED BY <1>1, <1>3, <3>1, <3>2 DEF TypeOK
    <2>3. \A i, j \in 1..Len(waitq') : waitq'[i] = waitq'[j] => i = j
      BY <1>1, <2>1 DEF WaitOK
    <2> QED BY <2>2, <2>3 DEF WaitOK

\* Calling beginTransaction only adds a waiting caller.
LEMMA CallBeginLease ==
  ASSUME TypeOK, TypeOK', LeaseBody, NEW t \in Txs, CallBegin(t)
  PROVE  LeaseBody'
  <1>1. conn[t] = NoConn
    BY DEF CallBegin, LeaseBody, HandleOK
  <1>2. ASSUME NEW c \in Conns PROVE ConnOK(c)'
    BY SMTT(40), <1>1, PoolAssumption, Untouched DEF CallBegin, LeaseBody, serverVars, history, TypeOK
  <1>3. ASSUME NEW u \in Txs PROVE HandleOK(u)'
    BY DEF CallBegin, LeaseBody, HandleOK, serverVars, history, TypeOK
  <1>4. WaitOK'
    BY CallBeginWaits DEF LeaseBody
  <1> QED BY <1>2, <1>3, <1>4 DEF LeaseBody

\* A caller that gives up only leaves the queue.
LEMMA WaitTimesOutLease ==
  ASSUME TypeOK, TypeOK', LeaseBody, NEW i \in 1..Len(waitq), WaitTimesOut(i)
  PROVE  LeaseBody'
  <1>1. PICK t : t = waitq[i]
    OBVIOUS
  <1>2. /\ waitq \in Seq(Txs) /\ t \in Txs /\ lease[t] = "waiting" /\ conn[t] = NoConn
        /\ t \notin table /\ t \notin finished
    BY <1>1, RemoveAtFacts DEF LeaseBody, WaitOK, HandleOK, TypeOK
  <1>3. /\ waitq' = RemoveAt(waitq, i) /\ lease' = [lease EXCEPT ![t] = "refused"]
        /\ UNCHANGED <<table, conn, idle, sess, pend, queue, finished>>
    BY <1>1 DEF WaitTimesOut, serverVars, history
  <1>4. lease'[t] = "refused" /\ \A u \in Txs \ {t} : lease'[u] = lease[u]
    BY <1>2, <1>3 DEF TypeOK
  <1>5. ASSUME NEW c \in Conns PROVE ConnOK(c)'
    <2>1. \A u \in Txs : conn[u] = c => u # t
      BY <1>2, PoolAssumption
    <2>2. ConnOK(c)
      BY DEF LeaseBody
    <2> QED BY <1>3, <1>4, <2>1, <2>2, Untouched
  <1>6. ASSUME NEW u \in Txs PROVE HandleOK(u)'
    BY <1>2, <1>3, <1>4 DEF LeaseBody, HandleOK
  <1>7. WaitOK'
    BY WaitTimesOutWaits DEF LeaseBody
  <1> QED BY <1>5, <1>6, <1>7 DEF LeaseBody

\* The pool lends a free connection, which is clean and idle, to one caller.
LEMMA GrantLease ==
  ASSUME TypeOK, TypeOK', LeaseBody, Disciplined', NEW c \in Conns, PoolGrant(c)
  PROVE  LeaseBody'
  <1> DEFINE t == Head(waitq)
             cmd == Cmd("BEGIN", t, IF t \in ToolTxs THEN "tool" ELSE "batch", 0)
  <1>1. /\ t \in Txs /\ lease[t] = "waiting" /\ Len(waitq) \in Nat /\ waitq[1] = t
        /\ Len(waitq') = Len(waitq) - 1 /\ \A i \in 1..Len(waitq') : waitq'[i] = waitq[i + 1]
    BY TailFacts DEF PoolGrant, LeaseBody, WaitOK, TypeOK
  <1>2. cmd \in Command /\ cmd.tx = t /\ cmd.op = "BEGIN"
    BY <1>1, CmdType DEF Ops, Callers
  <1>3. /\ Called(cmd) /\ queue' = [queue EXCEPT ![c] = Append(@, cmd)]
        /\ lease' = [lease EXCEPT ![t] = "held"] /\ conn' = [conn EXCEPT ![t] = c]
        /\ idle' = [idle EXCEPT ![c] = @ - 1] /\ idle[c] > 0
        /\ UNCHANGED <<table, sess, pend>>
    BY DEF PoolGrant, Issue, Taken, Available, serverVars
  <1> HIDE DEF cmd, t
  <1>4. finished' = finished
    BY <1>2, <1>3, CalledFacts DEF Finishing
  <1>5. /\ idle[c] = 1 /\ Holders(c) = {} /\ queue[c] = << >>
        /\ sess[c] = "auto" /\ pend[c] = {}
    BY <1>3 DEF LeaseBody, ConnOK, TypeOK
  <1>6. conn[t] = NoConn /\ t \notin table /\ t \notin finished
    BY <1>1 DEF LeaseBody, HandleOK
  <1>7. ASSUME NEW d \in Conns \ {c} PROVE ConnOK(d)'
    <2>1. \A u \in Txs : conn[u] = d \/ conn'[u] = d => u # t
      BY <1>1, <1>3, <1>6, PoolAssumption DEF TypeOK
    <2>2. \A u \in Txs \ {t} : lease'[u] = lease[u] /\ conn'[u] = conn[u]
      BY <1>1, <1>3 DEF TypeOK
    <2>3. queue'[d] = queue[d] /\ idle'[d] = idle[d]
      BY <1>3 DEF TypeOK
    <2>4. ConnOK(d)
      BY DEF LeaseBody
    <2> QED BY <1>3, <1>4, <2>1, <2>2, <2>3, <2>4, Untouched
  <1>8. ConnOK(c)'
    <2>1. queue'[c] = <<cmd>>
      BY <1>3, <1>5 DEF TypeOK
    <2>2. lease'[t] = "held" /\ conn'[t] = c /\ idle'[c] = 0
      BY <1>1, <1>3, <1>5 DEF TypeOK
    <2>3. QueueOK(c)'
      BY <1>2, <1>3, <1>4, <1>5, <1>6, <2>1, <2>2 DEF QueueOK, Finishing
    <2>4. Holders(c)' = {t}
      BY <1>1, <1>3, <1>5, <2>2 DEF Holders, TypeOK
    <2> QED BY <1>1, <1>3, <1>5, <2>2, <2>3, <2>4 DEF ConnOK
  <1>9. ASSUME NEW u \in Txs PROVE HandleOK(u)'
    BY <1>1, <1>3, <1>4, <1>6 DEF LeaseBody, HandleOK, TypeOK
  <1>10. WaitOK'
    BY GrantWaits DEF LeaseBody
  <1> QED BY <1>7, <1>8, <1>9, <1>10 DEF LeaseBody

\* A tool or the timer sends a statement, COMMIT or ROLLBACK through a handle of
\* the table and changes the table by that handle at most.
LEMMA IssueLease ==
  ASSUME TypeOK, TypeOK', LeaseBody, Disciplined', NEW t \in table, t \in Txs,
         NEW cmd \in Command, cmd.tx = t, cmd.op # "BEGIN", Issue(conn[t], cmd),
         \A u \in Txs \ {t} : u \in table' <=> u \in table,
         UNCHANGED <<waitq, lease, conn, idle, serverVars>>
  PROVE  LeaseBody'
  <1> DEFINE c == conn[t]
  <1>1. /\ Called(cmd) /\ queue' = [queue EXCEPT ![c] = Append(@, cmd)]
    BY DEF Issue
  <1>2. /\ t \notin finished /\ (Finishing(cmd) => t \in finished')
        /\ \A u \in Txs \ {t} : u \in finished' <=> u \in finished
        /\ (~Finishing(cmd) => finished' = finished)
    BY <1>1, CalledFacts
  <1>3. c \in Conns /\ lease[t] = "held"
    BY <1>2 DEF LeaseBody, HandleOK
  <1>4. \A i \in 1..Len(queue[c]) : queue[c][i].op = "STMT" /\ queue[c][i].tx = t
    BY <1>2, <1>3, HeldQueue
  <1>5. QueueOK(c)'
    <2>1. queue[c] \in Seq(Command) /\ queue'[c] = Append(queue[c], cmd)
      BY <1>1, <1>3 DEF TypeOK
    <2> QED BY <1>2, <1>3, <1>4, <2>1, Pushed
  <1>6. ConnOK(c)'
    <2>1. Holders(c)' = Holders(c) /\ t \in Holders(c)
      BY <1>3 DEF Holders
    <2> QED BY <1>3, <1>5, <2>1 DEF LeaseBody, ConnOK, serverVars, TypeOK
  <1>7. HandleOK(t)'
    BY <1>3 DEF HandleOK
  <1> QED BY <1>1, <1>2, <1>3, <1>6, <1>7, Elsewhere DEF serverVars, TypeOK

\* The command at the head of c's queue, and what the invariant says of it.
LEMMA HeadFacts ==
  ASSUME TypeOK, LeaseBody, NEW c \in Conns, queue[c] # << >>, NEW cmd, cmd = Head(queue[c])
  PROVE  /\ cmd = queue[c][1] /\ cmd \in Command /\ cmd.tx \in Txs /\ cmd.n \in Nat
         /\ Len(queue[c]) \in Nat /\ Len(queue[c]) >= 1
         /\ Tail(queue[c]) \in Seq(Command) /\ Len(Tail(queue[c])) = Len(queue[c]) - 1
         /\ \A i \in 1..Len(Tail(queue[c])) : Tail(queue[c])[i] = queue[c][i + 1]
         /\ lease[cmd.tx] = "held" /\ conn[cmd.tx] = c /\ cmd.tx \in Holders(c)
         /\ \A u \in Holders(c) : u = cmd.tx
         /\ idle[c] = 0
         /\ cmd.op = "BEGIN" => /\ Len(queue[c]) = 1 /\ sess[c] = "auto" /\ pend[c] = {}
                                /\ cmd.tx \notin table \cup finished
         /\ Finishing(cmd) => Len(queue[c]) = 1 /\ cmd.tx \in finished
  <1>1. /\ cmd = queue[c][1] /\ cmd \in Command
        /\ Len(queue[c]) \in Nat /\ Len(queue[c]) >= 1
        /\ Tail(queue[c]) \in Seq(Command) /\ Len(Tail(queue[c])) = Len(queue[c]) - 1
        /\ \A i \in 1..Len(Tail(queue[c])) : Tail(queue[c])[i] = queue[c][i + 1]
    BY TailFacts DEF TypeOK
  <1>2. cmd.tx \in Txs /\ cmd.n \in Nat
    BY <1>1 DEF Command
  <1>3. ConnOK(c) /\ idle[c] \in Nat
    BY DEF LeaseBody, TypeOK
  <1>4. lease[cmd.tx] = "held" /\ conn[cmd.tx] = c
    BY <1>1, <1>3 DEF ConnOK, QueueOK
  <1>5. idle[c] = 0
    BY <1>3 DEF ConnOK
  <1>6. cmd.tx \in Holders(c) /\ \A u \in Holders(c) : u = cmd.tx
    BY <1>2, <1>3, <1>4 DEF ConnOK, Holders
  <1>7. 1 \in 1..Len(queue[c])
    BY <1>1
  <1>8. cmd.op = "BEGIN" => /\ Len(queue[c]) = 1 /\ sess[c] = "auto" /\ pend[c] = {}
                            /\ cmd.tx \notin table \cup finished
    BY <1>1, <1>3, <1>7 DEF ConnOK, QueueOK
  <1>9. Finishing(cmd) => Len(queue[c]) = 1 /\ cmd.tx \in finished
    BY <1>1, <1>3, <1>7 DEF ConnOK, QueueOK
  <1> QED BY <1>1, <1>2, <1>4, <1>5, <1>6, <1>8, <1>9

\* Removing the answered command leaves the rest of the queue in order.
LEMMA Popped ==
  ASSUME TypeOK, LeaseBody, NEW c \in Conns, queue[c] # << >>,
         queue'[c] = Tail(queue[c]), lease' = lease, conn' = conn, finished' = finished
  PROVE  QueueOK(c)'
  <1>1. QueueOK(c)
    BY DEF LeaseBody, ConnOK
  <1>2. /\ Len(queue[c]) \in Nat /\ Len(queue'[c]) = Len(queue[c]) - 1
        /\ \A i \in 1..Len(queue'[c]) : queue'[c][i] = queue[c][i + 1]
    BY HeadFacts
  <1>3. ASSUME NEW i \in 1..Len(queue'[c])
        PROVE  i + 1 \in 1..Len(queue[c]) /\ Len(queue[c]) # 1
               /\ (i + 1 = Len(queue[c]) => i = Len(queue'[c]))
    <2> DEFINE n == Len(queue[c])
               m == Len(queue'[c])
    <2>1. n \in Nat /\ m = n - 1 /\ i \in 1..m
      BY <1>2
    <2> HIDE DEF n, m
    <2>2. i + 1 \in 1..n /\ n # 1 /\ (i + 1 = n => i = m)
      BY <2>1
    <2> QED BY <2>2 DEF n, m
  <1> QED BY <1>1, <1>2, <1>3 DEF QueueOK, Finishing

\* A handler of the batch that goes on after an answer sends its next command
\* behind statements of its own handle.
LEMMA PoppedThenPushed ==
  ASSUME TypeOK, LeaseBody, Disciplined', NEW c \in Conns, queue[c] # << >>,
         NEW cmd, cmd = Head(queue[c]), NEW next \in Command, next.tx = cmd.tx,
         next.op # "BEGIN", AnsweredThen(c, next), lease' = lease, conn' = conn
  PROVE  /\ QueueOK(c)' /\ cmd.tx \notin finished
         /\ \A u \in Txs \ {cmd.tx} : u \in finished' <=> u \in finished
  <1>1. Called(next) /\ queue'[c] = Append(Tail(queue[c]), next)
    BY DEF AnsweredThen, TypeOK
  <1>2. /\ cmd.tx \notin finished /\ (Finishing(next) => cmd.tx \in finished')
        /\ \A u \in Txs \ {cmd.tx} : u \in finished' <=> u \in finished
    BY <1>1, CalledFacts
  <1>3. \A i \in 1..Len(Tail(queue[c])) :
          Tail(queue[c])[i].op = "STMT" /\ Tail(queue[c])[i].tx = cmd.tx
    <2> SUFFICES ASSUME NEW i \in 1..Len(Tail(queue[c]))
                 PROVE  Tail(queue[c])[i].op = "STMT" /\ Tail(queue[c])[i].tx = cmd.tx
      OBVIOUS
    <2>1. i + 1 \in 1..Len(queue[c]) /\ Len(queue[c]) # 1 /\ Tail(queue[c])[i] = queue[c][i + 1]
      BY HeadFacts
    <2>2. cmd.tx \in Txs \ finished /\ lease[cmd.tx] = "held" /\ conn[cmd.tx] = c
      BY <1>2, HeadFacts
    <2> QED BY <2>1, <2>2, HeldQueue
  <1>4. lease'[cmd.tx] = "held" /\ conn'[cmd.tx] = c /\ Tail(queue[c]) \in Seq(Command)
    BY HeadFacts
  <1>5. QueueOK(c)'
    BY <1>1, <1>2, <1>3, <1>4, Pushed
  <1> QED BY <1>2, <1>5

\* BEGIN is answered: the handle enters the table, or the batch goes on.
LEMMA BeginOkLease ==
  ASSUME TypeOK, TypeOK', LeaseBody, Disciplined', NEW c \in Conns, queue[c] # << >>,
         NEW cmd, cmd = Head(queue[c]), BeginOk(c, cmd)
  PROVE  LeaseBody'
  <1>1. /\ cmd.tx \in Txs /\ lease[cmd.tx] = "held" /\ conn[cmd.tx] = c /\ idle[c] = 0
        /\ cmd.tx \in Holders(c) /\ (\A u \in Holders(c) : u = cmd.tx)
        /\ pend[c] = {} /\ cmd.tx \notin finished
    BY HeadFacts DEF BeginOk
  <1>2. /\ UNCHANGED <<waitq, lease, conn, idle>> /\ pend'[c] = {}
        /\ \A d \in Conns \ {c} : queue'[d] = queue[d] /\ sess'[d] = sess[d] /\ pend'[d] = pend[d]
        /\ \A u \in Txs \ {cmd.tx} : u \in table' <=> u \in table
    BY <1>1 DEF BeginOk, Answered, AnsweredThen, TypeOK
  <1>3. /\ QueueOK(c)'
        /\ \A u \in Txs \ {cmd.tx} : u \in finished' <=> u \in finished
    <2>1. CASE Answered(c)
      BY <2>1, <1>2, Popped DEF Answered, TypeOK
    <2>2. ASSUME NEW next \in AfterStatement(cmd.tx, 0), AnsweredThen(c, next)
          PROVE  /\ QueueOK(c)'
                 /\ \A u \in Txs \ {cmd.tx} : u \in finished' <=> u \in finished
      BY <2>2, <1>1, <1>2, NextCommandType, PoppedThenPushed
    <2> QED BY <2>1, <2>2 DEF BeginOk
  <1>4. ConnOK(c)'
    <2>1. Holders(c)' = Holders(c)
      BY <1>2 DEF Holders
    <2> QED BY <1>1, <1>2, <1>3, <2>1 DEF ConnOK
  <1>5. HandleOK(cmd.tx)'
    BY <1>1, <1>2 DEF HandleOK
  <1> QED BY <1>1, <1>2, <1>3, <1>4, <1>5, Elsewhere

\* BEGIN is refused: the connection stays out of the pool, clean and unused.
LEMMA BeginFailsLease ==
  ASSUME TypeOK, TypeOK', LeaseBody, NEW c \in Conns, queue[c] # << >>,
         NEW cmd, cmd = Head(queue[c]), BeginFails(c, cmd)
  PROVE  LeaseBody'
  <1>1. /\ cmd.tx \in Txs /\ lease[cmd.tx] = "held" /\ conn[cmd.tx] = c /\ idle[c] = 0
        /\ (\A u \in Holders(c) : u = cmd.tx)
        /\ pend[c] = {} /\ cmd.tx \notin table \cup finished /\ Tail(queue[c]) = << >>
    <2>1. Tail(queue[c]) \in Seq(Command) /\ Len(Tail(queue[c])) = 0
      BY HeadFacts DEF BeginFails
    <2>2. Tail(queue[c]) = << >>
      BY <2>1, EmptySeq
    <2> QED BY <2>2, HeadFacts DEF BeginFails
  <1>2. /\ UNCHANGED <<waitq, conn, idle, sess, pend, table, finished>>
        /\ queue'[c] = << >> /\ lease'[cmd.tx] = "leaked"
        /\ \A d \in Conns \ {c} : queue'[d] = queue[d]
        /\ \A u \in Txs \ {cmd.tx} : lease'[u] = lease[u]
    BY <1>1 DEF BeginFails, Answered, serverVars, TypeOK
  <1>3. ConnOK(c)'
    <2>1. Holders(c)' = {}
      BY <1>1, <1>2 DEF Holders
    <2> QED BY <1>1, <1>2, <2>1 DEF ConnOK, QueueOK
  <1>4. HandleOK(cmd.tx)'
    BY <1>1, <1>2 DEF HandleOK
  <1> QED BY <1>1, <1>2, <1>3, <1>4, Elsewhere

\* A statement is answered: its writes go to the holder's transaction, or become
\* durable at once, and the handler that awaited it may send its next command.
LEMMA StmtLease ==
  ASSUME TypeOK, TypeOK', LeaseBody, Disciplined', NEW c \in Conns, queue[c] # << >>,
         NEW cmd, cmd = Head(queue[c]), StmtOk(c, cmd) \/ StmtFails(c, cmd)
  PROVE  LeaseBody'
  <1>1. /\ cmd.tx \in Txs /\ lease[cmd.tx] = "held" /\ conn[cmd.tx] = c /\ idle[c] = 0
        /\ cmd.tx \in Holders(c) /\ (\A u \in Holders(c) : u = cmd.tx)
        /\ cmd.n \in Nat
    BY HeadFacts
  <1>2. /\ UNCHANGED clientVars
        /\ \A d \in Conns \ {c} : queue'[d] = queue[d] /\ sess'[d] = sess[d] /\ pend'[d] = pend[d]
        /\ pend'[c] \subseteq pend[c] \cup {<<cmd.tx, cmd.n>>}
    BY SMTT(40) DEF StmtOk, StmtFails, Answered, AnsweredThen, TypeOK
  <1>3. /\ QueueOK(c)'
        /\ \A u \in Txs \ {cmd.tx} : u \in finished' <=> u \in finished
        /\ cmd.tx \in finished' => lease[cmd.tx] = "held"
    <2>1. CASE Answered(c)
      BY <2>1, <1>1, <1>2, Popped DEF Answered, clientVars, TypeOK
    <2>2. ASSUME NEW next \in Command, next.tx = cmd.tx, next.op # "BEGIN", AnsweredThen(c, next)
          PROVE  /\ QueueOK(c)'
                 /\ \A u \in Txs \ {cmd.tx} : u \in finished' <=> u \in finished
      BY <2>2, <1>1, <1>2, PoppedThenPushed DEF clientVars
    <2>3. \/ Answered(c)
          \/ \E next \in Command : next.tx = cmd.tx /\ next.op # "BEGIN" /\ AnsweredThen(c, next)
      BY <1>1, NextCommandType, CatchCommandType DEF StmtOk, StmtFails
    <2> QED BY <1>1, <2>1, <2>2, <2>3
  <1>4. ConnOK(c)'
    <2>1. Holders(c)' = Holders(c)
      BY <1>2 DEF Holders, clientVars
    <2>2. \A w \in pend'[c] : w[1] \in Holders(c)
      BY <1>1, <1>2 DEF LeaseBody, ConnOK
    <2> QED BY <1>1, <1>2, <1>3, <2>1, <2>2 DEF ConnOK, clientVars
  <1>5. HandleOK(cmd.tx)'
    BY <1>1, <1>2, <1>3 DEF HandleOK, clientVars
  <1> QED BY <1>1, <1>2, <1>3, <1>4, <1>5, Elsewhere DEF clientVars

\* COMMIT or ROLLBACK is answered: it was the last command outstanding, and the
\* connection goes back to the pool with a clean session.
LEMMA EndLease ==
  ASSUME TypeOK, TypeOK', LeaseBody, Disciplined', NEW c \in Conns, queue[c] # << >>,
         NEW cmd, cmd = Head(queue[c]), Finishing(cmd),
         NEW ok, NEW answer, EndOfTx(c, cmd, ok, answer)
  PROVE  LeaseBody'
  <1>1. /\ cmd.tx \in Txs /\ lease[cmd.tx] = "held" /\ conn[cmd.tx] = c /\ idle[c] = 0
        /\ (\A u \in Holders(c) : u = cmd.tx)
        /\ cmd.tx \in finished /\ Tail(queue[c]) = << >>
    <2>1. Tail(queue[c]) \in Seq(Command) /\ Len(Tail(queue[c])) = 0
      BY HeadFacts
    <2>2. Tail(queue[c]) = << >>
      BY <2>1, EmptySeq
    <2> QED BY <2>2, HeadFacts
  <1>2. Answered(c) /\ table' \in {table, table \ {cmd.tx}}
    <2>1. ~AnsweredThen(c, CatchCommand(cmd.tx))
      BY <1>1, CatchCommandType DEF AnsweredThen, Called, Disciplined
    <2> QED BY <2>1 DEF EndOfTx, Conclude, TableAfterFinish
  <1>3. /\ UNCHANGED <<waitq, conn, finished>>
        /\ queue'[c] = << >> /\ lease'[cmd.tx] = "released"
        /\ sess'[c] = "auto" /\ pend'[c] = {} /\ idle'[c] = 1
        /\ \A d \in Conns \ {c} : /\ queue'[d] = queue[d] /\ idle'[d] = idle[d]
                                  /\ sess'[d] = sess[d] /\ pend'[d] = pend[d]
        /\ \A u \in Txs \ {cmd.tx} : lease'[u] = lease[u]
    BY <1>1, <1>2 DEF EndOfTx, Freed, Answered, TypeOK
  <1>4. ConnOK(c)'
    <2>1. Holders(c)' = {}
      BY <1>1, <1>3 DEF Holders
    <2> QED BY <1>1, <1>3, <2>1 DEF ConnOK, QueueOK
  <1>5. HandleOK(cmd.tx)'
    BY <1>1, <1>3 DEF HandleOK
  <1> QED BY <1>1, <1>2, <1>3, <1>4, <1>5, Elsewhere

\* withTimeout gives up on a statement: it stays in its place on the wire, and a
\* batch sends its catch block's ROLLBACK behind it.
LEMMA TimeoutLease ==
  ASSUME TypeOK, TypeOK', LeaseBody, Disciplined', NEW c \in Conns,
         NEW i \in DOMAIN queue[c], NEW cmd, cmd = queue[c][i], StmtTimesOut(c, i)
  PROVE  LeaseBody'
  <1>0. PICK left : left = [queue[c] EXCEPT ![i] = [cmd EXCEPT !.by = "nobody"]]
    OBVIOUS
  <1>1. queue[c] \in Seq(Command) /\ i \in 1..Len(queue[c])
    BY DEF TypeOK
  <1>2. cmd \in Command /\ cmd.tx \in Txs /\ cmd.op = "STMT"
    BY <1>1, QueueElement DEF StmtTimesOut
  <1>3. /\ left \in Seq(Command) /\ Len(left) = Len(queue[c])
        /\ \A j \in 1..Len(left) : left[j].op = queue[c][j].op /\ left[j].tx = queue[c][j].tx
    <2>1. [cmd EXCEPT !.by = "nobody"] \in Command
      BY <1>2 DEF Command, Callers
    <2>2. left \in Seq(Command) /\ Len(left) = Len(queue[c])
      BY <1>0, <1>1, <2>1
    <2>3. ASSUME NEW j \in 1..Len(left)
          PROVE  left[j].op = queue[c][j].op /\ left[j].tx = queue[c][j].tx
      <3>1. CASE j = i
        BY <1>0, <1>1, <1>2, <3>1 DEF Command
      <3>2. CASE j # i
        BY <1>0, <1>1, <2>2, <3>2
      <3> QED BY <3>1, <3>2
    <2> QED BY <2>2, <2>3
  <1>4. /\ lease[cmd.tx] = "held" /\ conn[cmd.tx] = c /\ ConnOK(c) /\ QueueOK(c)
    BY <1>1 DEF LeaseBody, ConnOK, QueueOK
  <1>5. /\ UNCHANGED <<clientVars, serverVars>>
        /\ \A d \in Conns \ {c} : queue'[d] = queue[d]
        /\ \/ queue'[c] = left /\ finished' = finished
           \/ queue'[c] = Append(left, CatchCommand(cmd.tx)) /\ Called(CatchCommand(cmd.tx))
    BY <1>0 DEF StmtTimesOut, TypeOK
  <1>6. QueueOK(c)' /\ (\A u \in Txs \ {cmd.tx} : u \in finished' <=> u \in finished)
    <2>1. CASE queue'[c] = left /\ finished' = finished
      BY <2>1, <1>3, <1>4, <1>5 DEF QueueOK, Finishing, clientVars, serverVars
    <2>2. CASE queue'[c] = Append(left, CatchCommand(cmd.tx)) /\ Called(CatchCommand(cmd.tx))
      <3>1. /\ CatchCommand(cmd.tx) \in Command /\ CatchCommand(cmd.tx).tx = cmd.tx
            /\ CatchCommand(cmd.tx).op = "ROLLBACK"
        BY <1>2, CatchCommandType
      <3>2. /\ cmd.tx \notin finished /\ cmd.tx \in finished'
            /\ \A u \in Txs \ {cmd.tx} : u \in finished' <=> u \in finished
        BY <2>2, <3>1, CalledFacts DEF Finishing
      <3>3. ASSUME NEW j \in 1..Len(left)
            PROVE left[j].op = "STMT" /\ left[j].tx = cmd.tx
        <4>1. /\ queue[c][j].tx = cmd.tx
              /\ queue[c][j].op \in {"BEGIN", "STMT"}
              /\ queue[c][j].op = "BEGIN" => Len(queue[c]) = 1
          BY <1>2, <1>3, <1>4, <3>2, HeldQueue
        <4>2. Len(queue[c]) = 1 => i = j
          BY <1>1, <1>3
        <4>3. queue[c][j].op # "BEGIN"
          <5> SUFFICES ASSUME queue[c][j].op = "BEGIN" PROVE FALSE
            OBVIOUS
          <5>1. i = j
            BY <4>1, <4>2
          <5>2. cmd.op = "BEGIN"
            BY <5>1
          <5> QED BY <1>2, <5>2
        <4> QED BY <1>3, <4>1, <4>3, Zenon
      <3> QED BY <1>3, <1>4, <1>5, <2>2, <3>1, <3>2, <3>3, Pushed DEF clientVars
    <2> QED BY <1>5, <2>1, <2>2
  <1>7. ConnOK(c)'
    <2>1. Holders(c)' = Holders(c) /\ cmd.tx \in Holders(c)
      BY <1>2, <1>4, <1>5 DEF Holders, clientVars
    <2> QED BY <1>4, <1>5, <1>6, <2>1 DEF ConnOK, clientVars, serverVars, TypeOK
  <1>8. HandleOK(cmd.tx)'
    <2>1. cmd.tx \in finished => cmd.tx \in finished'
      BY <1>2, <1>5, CatchCommandType DEF Called
    <2> QED BY <1>2, <1>4, <1>5, <2>1 DEF LeaseBody, HandleOK, clientVars
  <1> QED BY <1>2, <1>4, <1>5, <1>6, <1>7, <1>8, Elsewhere DEF clientVars, serverVars

\* No call is forgotten.
LEMMA LateGrows == [Next]_vars => late \subseteq late'
  BY ZenonT(60) DEF Next, vars, history, CallBegin, WaitTimesOut, PoolGrant, Answer, BeginOk, BeginFails, StmtOk,
         StmtFails, CommitOk, CommitFails, RollbackOk, EndOfTx, Conclude, ExecInTx, Finish,
         CleanupExpired, StmtTimesOut, Issue, Answered, AnsweredThen, Called

\* Every step keeps the invariant.
LEMMA NextLease == TypeOK /\ LeaseInv /\ [Next]_vars => LeaseInv'
  <1> SUFFICES ASSUME TypeOK, LeaseInv, [Next]_vars, Disciplined' PROVE LeaseBody'
    BY DEF LeaseInv
  <1>1. TypeOK'
    BY NextType
  <1>2. late \subseteq late'
    BY LateGrows
  <1>3. LeaseBody
    BY <1>2 DEF LeaseInv, Disciplined
  <1>4. ASSUME NEW t \in Txs, CallBegin(t) PROVE LeaseBody'
    BY <1>1, <1>3, <1>4, CallBeginLease
  <1>12. ASSUME NEW i \in DOMAIN waitq, WaitTimesOut(i) PROVE LeaseBody'
    <2>1. i \in 1..Len(waitq)
      BY DEF TypeOK
    <2> QED BY <1>1, <1>3, <1>12, <2>1, WaitTimesOutLease
  <1>5. ASSUME NEW c \in Conns, PoolGrant(c) PROVE LeaseBody'
    BY <1>1, <1>3, <1>5, GrantLease
  <1>6. ASSUME NEW c \in Conns, Answer(c) PROVE LeaseBody'
    <2>1. PICK cmd : /\ cmd = Head(queue[c]) /\ queue[c] # << >>
                     /\ \/ BeginOk(c, cmd) \/ BeginFails(c, cmd)
                        \/ StmtOk(c, cmd) \/ StmtFails(c, cmd)
                        \/ CommitOk(c, cmd) \/ CommitFails(c, cmd) \/ RollbackOk(c, cmd)
      BY <1>6 DEF Answer
    <2>2. CASE BeginOk(c, cmd)
      BY <1>1, <1>3, <2>1, <2>2, BeginOkLease
    <2>3. CASE BeginFails(c, cmd)
      BY <1>1, <1>3, <2>1, <2>3, BeginFailsLease
    <2>4. CASE StmtOk(c, cmd) \/ StmtFails(c, cmd)
      BY <1>1, <1>3, <2>1, <2>4, StmtLease
    <2>5. CASE CommitOk(c, cmd) \/ CommitFails(c, cmd) \/ RollbackOk(c, cmd)
      BY <1>1, <1>3, <2>1, <2>5, EndLease DEF CommitOk, CommitFails, RollbackOk, Finishing
    <2> QED BY <2>1, <2>2, <2>3, <2>4, <2>5
  <1>7. ASSUME NEW t \in ToolTxs, ExecInTx(t) PROVE LeaseBody'
    <2>0. PICK cmd : cmd = Cmd("STMT", t, "tool", sent[t] + 1)
      OBVIOUS
    <2>1. t \in Txs /\ t \in table
      BY <1>7 DEF ExecInTx, Txs
    <2>2. cmd \in Command /\ cmd.tx = t /\ cmd.op = "STMT"
      <3>1. sent[t] + 1 \in Nat
        BY <2>1 DEF TypeOK
      <3> QED BY ONLY <2>0, <2>1, <3>1, CmdType DEF Ops, Callers
    <2>3. /\ Issue(conn[t], cmd) /\ (\A u \in Txs \ {t} : u \in table' <=> u \in table)
          /\ UNCHANGED <<waitq, lease, conn, idle, serverVars>>
      BY <2>0, <1>7 DEF ExecInTx
    <2> QED BY <1>1, <1>3, <2>1, <2>2, <2>3, IssueLease
  <1>8. ASSUME NEW t \in ToolTxs, NEW op \in {"COMMIT", "ROLLBACK"}, Finish(t, op)
        PROVE LeaseBody'
    <2>0. PICK cmd : cmd = Cmd(op, t, "tool", 0)
      OBVIOUS
    <2>1. t \in Txs /\ t \in table
      BY <1>8 DEF Finish, Txs
    <2>2. cmd \in Command /\ cmd.tx = t /\ cmd.op # "BEGIN"
      BY <2>0, <2>1, CmdType DEF Ops, Callers
    <2>3. /\ Issue(conn[t], cmd) /\ (\A u \in Txs \ {t} : u \in table' <=> u \in table)
          /\ UNCHANGED <<waitq, lease, conn, idle, serverVars>>
      BY <2>0, <1>8 DEF Finish, clientVars
    <2> QED BY <1>1, <1>3, <2>1, <2>2, <2>3, IssueLease
  <1>9. ASSUME NEW t \in ToolTxs, CleanupExpired(t) PROVE LeaseBody'
    <2>0. PICK cmd : cmd = Cmd("ROLLBACK", t, "timer", 0)
      OBVIOUS
    <2>1. t \in Txs /\ t \in table
      BY <1>9 DEF CleanupExpired, Txs
    <2>2. cmd \in Command /\ cmd.tx = t /\ cmd.op = "ROLLBACK"
      BY <2>0, <2>1, CmdType DEF Ops, Callers
    <2>3. /\ Issue(conn[t], cmd) /\ (\A u \in Txs \ {t} : u \in table' <=> u \in table)
          /\ UNCHANGED <<waitq, lease, conn, idle, serverVars>>
      BY <2>0, <1>9 DEF CleanupExpired
    <2> QED BY <1>1, <1>3, <2>1, <2>2, <2>3, IssueLease
  <1>10. ASSUME NEW c \in Conns, NEW i \in DOMAIN queue[c], StmtTimesOut(c, i)
         PROVE LeaseBody'
    BY <1>1, <1>3, <1>10, TimeoutLease
  <1>11. CASE UNCHANGED vars
    BY <1>3, <1>11
    DEF vars, clientVars, serverVars, history, LeaseBody, WaitOK, ConnOK, QueueOK, HandleOK, Holders
  <1> QED BY <1>4, <1>5, <1>6, <1>7, <1>8, <1>9, <1>10, <1>11, <1>12 DEF Next

\* The inductive invariant holds in every reachable state.
THEOREM LeaseInvariant == Spec => [](TypeOK /\ LeaseInv)
  <1>1. TypeOK /\ LeaseInv /\ [Next]_vars => (TypeOK /\ LeaseInv)'
    BY NextType, NextLease
  <1>2. Init => TypeOK /\ LeaseInv
    BY InitType, InitLease
  <1> QED BY <1>1, <1>2, PTL DEF Spec

\* For any pool size and any clients that use no handle after its end: no two
\* transactions ever share a connection, and none is free while in use.
THEOREM LeasesExclusive == Spec => []LeaseExclusive
  <1>1. TypeOK /\ LeaseInv => LeaseExclusive
    BY DEF LeaseInv, LeaseBody, ConnOK, LeaseExclusive
  <1> QED BY <1>1, LeaseInvariant, PTL

\* Under the same discipline every connection is handed out clean.
THEOREM HandoutsClean == Spec => []CleanHandout
  <1>1. TypeOK /\ LeaseInv => CleanHandout
    BY DEF LeaseInv, LeaseBody, ConnOK, CleanHandout, TypeOK
  <1> QED BY <1>1, LeaseInvariant, PTL

\* Under the same discipline an open transaction holds its own handle's writes only.
THEOREM TransactionsIsolated == Spec => []Isolated
  <1>1. TypeOK /\ LeaseInv => Isolated
    BY DEF LeaseInv, LeaseBody, ConnOK, Isolated
  <1> QED BY <1>1, LeaseInvariant, PTL

\* Under the same discipline no connection is lost but by a refused BEGIN.
THEOREM ConnectionsConserved == Spec => []Conserved
  <1>1. TypeOK /\ LeaseInv => Conserved
    BY DEF LeaseInv, LeaseBody, ConnOK, Conserved
  <1> QED BY <1>1, LeaseInvariant, PTL
-----------------------------------------------------------------------------
(* What commands, answers and permanent writes have to do with each other.   *)

\* Which code awaits which command, and which statement it is.
Sensible(q) ==
  /\ q.by \in IF q.tx \in ToolTxs THEN {"tool", "timer", "nobody"} ELSE {"batch", "catch", "nobody"}
  /\ q.op = "STMT" => q.n \in 1..(IF q.tx \in ToolTxs THEN MaxStmts ELSE BatchSize)
  /\ q.op = "COMMIT" => q = Cmd("COMMIT", q.tx, IF q.tx \in ToolTxs THEN "tool" ELSE "batch", 0)
  /\ q.op = "ROLLBACK" => q.by # "nobody"

\* The statements of a batch that come before one of its commands.
Before(q) == {q.tx} \X (1..(IF q.op = "STMT" THEN q.n - 1 ELSE BatchSize))

\* A batch sends one command at a time, and a statement or COMMIT only while all before
\* it are pending in an open transaction.
InOrder(c, i) ==
  LET q == queue[c][i] IN
    /\ q.by = "batch" => Len(queue[c]) = 1
    /\ q.op \in {"STMT", "COMMIT"} => i = 1 /\ sess[c] = "open" /\ Before(q) \subseteq pend[c]

\* Once BEGIN is answered a transaction is open until one of its statements fails, and
\* what its client was told succeeded is pending.
OpenFor(c, t) ==
  /\ (\A i \in 1..Len(queue[c]) : queue[c][i].op # "BEGIN") =>
        sess[c] = "open" \/ (t \in failed /\ (sess[c] = "auto" => "deadlock" \in Faults))
  /\ t \in ToolTxs \ failed => {t} \X acked[t] \subseteq pend[c]

ServedOK(c) ==
  /\ \A i \in 1..Len(queue[c]) :
       Sensible(queue[c][i]) /\ (queue[c][i].tx \in BatchTxs => InOrder(c, i))
  /\ \A t \in Holders(c) : OpenFor(c, t)

AnswerOK(t) ==
  /\ t \in BatchTxs => BatchIsAtomic(t)
  /\ t \in ToolTxs \ failed =>
       /\ "committed" \in told[t] => {t} \X acked[t] \subseteq durable
       /\ "rolled_back" \in told[t] => \A w \in durable : w[1] # t

\* Nothing is acknowledged before the handle has a connection, told before it is
\* released, or durable before that unless a deadlock has ended its transaction.
ToldOK(t) ==
  /\ lease[t] \in {"unused", "waiting"} => acked[t] = {}
  /\ told[t] # {} => lease[t] = "released"
  /\ \A w \in durable : w[1] = t => lease[t] = "released" \/ t \in ToolTxs \cap failed
  /\ AnswerOK(t)

AnswerBody == (\A c \in Conns : ServedOK(c)) /\ (\A t \in Txs : ToldOK(t))
AnswerInv == Disciplined => AnswerBody

\* A connection at which nothing happened to the commands, the session and the handles
\* it serves.
LEMMA StillServed ==
  ASSUME TypeOK, TypeOK', NEW d \in Conns, ServedOK(d),
         queue'[d] = queue[d], sess'[d] = sess[d], pend'[d] = pend[d],
         Holders(d)' = Holders(d),
         \A u \in Holders(d) : acked'[u] = acked[u] /\ (u \in failed' <=> u \in failed)
  PROVE  ServedOK(d)'
  <1>1. \A i \in 1..Len(queue[d]) : queue[d][i].tx \in BatchTxs => InOrder(d, i)'
    BY DEF ServedOK, InOrder
  <1>2. ASSUME NEW u \in Holders(d) PROVE OpenFor(d, u)'
    BY DEF ServedOK, OpenFor
  <1> QED BY <1>1, <1>2 DEF ServedOK

\* A handle that was told nothing new, while others' writes became durable.
LEMMA StillTold ==
  ASSUME NEW u \in Txs, ToldOK(u),
         lease'[u] = lease[u], acked'[u] = acked[u], told'[u] = told[u],
         u \in failed' <=> u \in failed,
         durable \subseteq durable', \A w \in durable' : w \in durable \/ w[1] # u
  PROVE  ToldOK(u)'
  <1>1. \A w \in durable' : w[1] = u => w \in durable
    OBVIOUS
  <1>2. BatchIsAtomic(u) => BatchIsAtomic(u)'
    BY <1>1 DEF BatchIsAtomic, BatchWrites
  <1> QED BY <1>1, <1>2 DEF ToldOK, AnswerOK

\* A step on behalf of the handle t that holds c concerns no other connection and handle.
LEMMA AnswersElsewhere ==
  ASSUME TypeOK, TypeOK', LeaseBody, AnswerBody,
         NEW c \in Conns, NEW t \in Txs, lease[t] = "held", conn[t] = c, conn' = conn,
         \A u \in Txs \ {t} : /\ lease'[u] = lease[u]
                              /\ acked'[u] = acked[u] /\ told'[u] = told[u]
                              /\ u \in failed' <=> u \in failed,
         \A d \in Conns \ {c} : /\ queue'[d] = queue[d]
                                /\ sess'[d] = sess[d] /\ pend'[d] = pend[d],
         durable \subseteq durable', \A w \in durable' : w \in durable \/ w[1] = t,
         ServedOK(c)', ToldOK(t)'
  PROVE  AnswerBody'
  <1>1. ASSUME NEW d \in Conns \ {c} PROVE ServedOK(d)'
    <2>1. Holders(d)' = Holders(d) /\ t \notin Holders(d) /\ Holders(d) \subseteq Txs
      BY DEF Holders
    <2>2. ServedOK(d)
      BY DEF AnswerBody
    <2> QED BY <2>1, <2>2, StillServed
  <1>2. ASSUME NEW u \in Txs \ {t} PROVE ToldOK(u)'
    <2>1. ToldOK(u)
      BY DEF AnswerBody
    <2>2. \A w \in durable' : w \in durable \/ w[1] # u
      OBVIOUS
    <2> QED BY <2>1, <2>2, StillTold
  <1> QED BY <1>1, <1>2 DEF AnswerBody

\* The commands outstanding on a connection are those of the handle that holds it.
LEMMA OwnCommands ==
  ASSUME TypeOK, LeaseBody, NEW c \in Conns, NEW t \in Holders(c), NEW i \in 1..Len(queue[c])
  PROVE  /\ queue[c][i] \in Command /\ queue[c][i].tx = t
         /\ queue[c][i].op = "BEGIN" => Len(queue[c]) = 1
  <1>1. queue[c][i] \in Command /\ queue[c][i].tx \in Txs
    BY QueueElement
  <1>2. QueueOK(c) /\ \A u, v \in Holders(c) : u = v
    BY DEF LeaseBody, ConnOK
  <1> QED BY <1>1, <1>2 DEF QueueOK, Holders

\* What stands behind the head of a queue, whose owner it shares.
LEMMA BehindHead ==
  ASSUME TypeOK, LeaseBody, NEW c \in Conns, ServedOK(c), queue[c] # << >>,
         NEW i \in 1..Len(Tail(queue[c]))
  PROVE  LET q == Tail(queue[c])[i] IN
         /\ Sensible(q) /\ q.tx = Head(queue[c]).tx /\ q.op # "BEGIN"
         /\ q.tx \in BatchTxs => q.by # "batch" /\ q.op \notin {"STMT", "COMMIT"}
  <1>1. /\ i + 1 \in 1..Len(queue[c]) /\ i + 1 # 1 /\ Len(queue[c]) # 1
        /\ Tail(queue[c])[i] = queue[c][i + 1]
    BY HeadFacts
  <1>2. Head(queue[c]).tx \in Holders(c)
    BY HeadFacts
  <1>3. queue[c][i + 1].tx = Head(queue[c]).tx /\ queue[c][i + 1].op # "BEGIN"
    BY <1>1, <1>2, OwnCommands
  <1>4. Sensible(queue[c][i + 1]) /\ (queue[c][i + 1].tx \in BatchTxs => InOrder(c, i + 1))
    BY <1>1 DEF ServedOK
  <1> QED BY <1>1, <1>3, <1>4 DEF InOrder

\* The answered command leaves the queue and its handler sends nothing.
LEMMA PoppedServes ==
  ASSUME TypeOK, LeaseBody, NEW c \in Conns, ServedOK(c), queue[c] # << >>,
         queue'[c] = Tail(queue[c]), Holders(c)' = Holders(c),
         NEW t, t = Head(queue[c]).tx, OpenFor(c, t)'
  PROVE  ServedOK(c)'
  <1>1. \A u \in Holders(c) : u = t
    BY HeadFacts
  <1>2. ASSUME NEW i \in 1..Len(Tail(queue[c]))
        PROVE  /\ Sensible(queue'[c][i])
               /\ queue'[c][i].tx \in BatchTxs => InOrder(c, i)'
    <2> DEFINE q == Tail(queue[c])[i]
    <2>1. Sensible(q) /\ (q.tx \in BatchTxs => q.by # "batch" /\ q.op \notin {"STMT", "COMMIT"})
      BY BehindHead
    <2>2. queue'[c][i] = q
      OBVIOUS
    <2> HIDE DEF q
    <2> QED BY <2>1, <2>2 DEF InOrder
  <1> QED BY <1>1, <1>2 DEF ServedOK

\* The handler of a batch goes on with its next command, the only one outstanding then.
LEMMA NextServes ==
  ASSUME TypeOK, LeaseBody, NEW c \in Conns, queue[c] # << >>, Len(queue[c]) = 1,
         NEW next \in Command, next.tx = Head(queue[c]).tx, Sensible(next),
         queue'[c] = Append(Tail(queue[c]), next), Holders(c)' = Holders(c),
         next.op \in {"STMT", "COMMIT"} => sess'[c] = "open" /\ Before(next) \subseteq pend'[c],
         OpenFor(c, next.tx)'
  PROVE  ServedOK(c)'
  <1>1. \A u \in Holders(c) : u = next.tx
    BY HeadFacts
  <1>2. Tail(queue[c]) \in Seq(Command) /\ Len(Tail(queue[c])) = 0
    BY HeadFacts
  <1>3. Tail(queue[c]) = << >>
    BY <1>2, EmptySeq
  <1>4. Len(queue'[c]) = 1 /\ queue'[c][1] = next
    BY <1>2, <1>3, AppendFacts
  <1>5. ASSUME NEW i \in 1..Len(queue'[c])
        PROVE  Sensible(queue'[c][i]) /\ InOrder(c, i)'
    BY <1>4 DEF InOrder
  <1> QED BY <1>1, <1>5 DEF ServedOK

-----------------------------------------------------------------------------
\* Nothing was told yet.
LEMMA InitAnswers == Init => AnswerInv
  BY DEF Init, AnswerInv, AnswerBody, ServedOK, Holders, ToldOK, AnswerOK, BatchIsAtomic

\* A call that starts or stops waiting for a connection changes no answer.
LEMMA WaitingAnswers ==
  ASSUME TypeOK, TypeOK', AnswerBody, NEW t \in Txs, lease[t] \in {"unused", "waiting"},
         lease'[t] \in {"waiting", "refused"}, \A u \in Txs \ {t} : lease'[u] = lease[u],
         UNCHANGED <<conn, queue, sess, pend, durable, acked, failed, told>>
  PROVE  AnswerBody'
  <1>1. lease[t] # "held" /\ lease'[t] # "held" /\ lease[t] # "released" /\ lease'[t] # "released"
    OBVIOUS
  <1>2. ASSUME NEW d \in Conns PROVE ServedOK(d)'
    <2>1. Holders(d)' = Holders(d)
      BY <1>1 DEF Holders
    <2>2. ServedOK(d)
      BY DEF AnswerBody
    <2> QED BY <1>1, <2>1, <2>2, StillServed
  <1>3. ASSUME NEW u \in Txs \ {t} PROVE ToldOK(u)'
    BY <1>1, StillTold DEF AnswerBody
  <1>4. ToldOK(t)'
    BY <1>1 DEF AnswerBody, ToldOK, AnswerOK, BatchIsAtomic
  <1> QED BY <1>2, <1>3, <1>4 DEF AnswerBody

\* A connection is granted to a handle of which nothing was acknowledged.
LEMMA GrantAnswers ==
  ASSUME TypeOK, TypeOK', LeaseBody, AnswerBody, NEW c \in Conns, PoolGrant(c)
  PROVE  AnswerBody'
  <1>0. PICK t, cmd : /\ t = Head(waitq)
                      /\ cmd = Cmd("BEGIN", t, IF t \in ToolTxs THEN "tool" ELSE "batch", 0)
    OBVIOUS
  <1>1. t \in Txs /\ lease[t] = "waiting"
    BY <1>0, TailFacts DEF PoolGrant, LeaseBody, WaitOK, TypeOK
  <1>2. cmd \in Command /\ cmd.tx = t /\ cmd.op = "BEGIN" /\ Sensible(cmd)
    BY <1>0, <1>1, CmdType DEF Ops, Callers, Sensible
  <1>3. /\ queue'[c] = Append(queue[c], cmd) /\ lease'[t] = "held" /\ conn'[t] = c
        /\ \A u \in Txs \ {t} : lease'[u] = lease[u] /\ conn'[u] = conn[u]
        /\ \A d \in Conns \ {c} : queue'[d] = queue[d]
        /\ UNCHANGED <<sess, pend, durable, acked, failed, told>> /\ idle[c] > 0
    BY <1>0, <1>1 DEF PoolGrant, Issue, Available, serverVars, TypeOK
  <1>4. Holders(c) = {} /\ queue[c] = << >>
    BY <1>3 DEF LeaseBody, ConnOK, TypeOK
  <1>5. conn[t] = NoConn
    BY <1>1 DEF LeaseBody, HandleOK
  <1>6. acked[t] = {} /\ ToldOK(t)
    BY <1>1 DEF AnswerBody, ToldOK
  <1>7. ASSUME NEW d \in Conns \ {c} PROVE ServedOK(d)'
    <2>1. Holders(d)' = Holders(d)
      BY <1>1, <1>3, <1>5, PoolAssumption DEF Holders
    <2>2. ServedOK(d)
      BY DEF AnswerBody
    <2> QED BY <1>3, <2>1, <2>2, StillServed
  <1>8. ServedOK(c)'
    <2>1. Len(queue'[c]) = 1 /\ queue'[c][1] = cmd
      BY <1>2, <1>3, <1>4
    <2>2. Holders(c)' = {t}
      BY <1>1, <1>3, <1>4 DEF Holders
    <2>3. OpenFor(c, t)'
      BY <1>2, <1>3, <1>6, <2>1 DEF OpenFor
    <2>4. InOrder(c, 1)'
      BY <1>2, <2>1 DEF InOrder
    <2> QED BY <1>2, <2>1, <2>2, <2>3, <2>4 DEF ServedOK
  <1>9. ASSUME NEW u \in Txs \ {t} PROVE ToldOK(u)'
    BY <1>3, StillTold DEF AnswerBody
  <1>10. ToldOK(t)'
    BY <1>1, <1>3, <1>6 DEF ToldOK, AnswerOK, BatchIsAtomic
  <1> QED BY <1>7, <1>8, <1>9, <1>10 DEF AnswerBody

\* A tool or the timer sends a command through a handle of the table.
LEMMA IssueAnswers ==
  ASSUME TypeOK, TypeOK', LeaseBody, AnswerBody, Disciplined',
         NEW t \in ToolTxs, t \in table,
         NEW cmd \in Command, cmd.tx = t, cmd.op # "BEGIN", Sensible(cmd), Issue(conn[t], cmd),
         UNCHANGED <<lease, conn, serverVars, acked, failed, told>>
  PROVE  AnswerBody'
  <1> DEFINE c == conn[t]
  <1>1. t \in Txs /\ t \notin finished /\ t \notin BatchTxs
    BY CalledFacts, PoolAssumption DEF Issue, Txs
  <1>2. c \in Conns /\ lease[t] = "held" /\ t \in Holders(c)
    BY <1>1 DEF LeaseBody, HandleOK, Holders
  <1>3. /\ \A i \in 1..Len(queue[c]) : queue[c][i].op # "BEGIN" /\ queue[c][i].tx = t
        /\ \A u \in Holders(c) : u = t
    BY <1>1, <1>2, HeldQueue DEF LeaseBody, ConnOK
  <1>4. /\ Len(queue'[c]) = Len(queue[c]) + 1 /\ queue'[c][Len(queue[c]) + 1] = cmd
        /\ \A i \in 1..Len(queue[c]) : queue'[c][i] = queue[c][i]
        /\ Len(queue[c]) \in Nat
        /\ \A d \in Conns \ {c} : queue'[d] = queue[d]
    BY <1>2, AppendFacts DEF Issue, TypeOK
  <1>5. ServedOK(c)'
    <2>1. ServedOK(c) /\ Holders(c)' = Holders(c)
      BY <1>2 DEF AnswerBody, Holders
    <2>2. ASSUME NEW i \in 1..Len(queue'[c])
          PROVE  Sensible(queue'[c][i]) /\ queue'[c][i].tx \notin BatchTxs
      <3>1. i \in 1..Len(queue[c]) \/ i = Len(queue[c]) + 1
        BY <1>4
      <3> QED BY <1>1, <1>3, <1>4, <2>1, <3>1 DEF ServedOK
    <2>3. OpenFor(c, t)'
      BY <1>2, <1>3, <2>1 DEF ServedOK, OpenFor, serverVars
    <2> QED BY <1>3, <2>1, <2>2, <2>3 DEF ServedOK
  <1>6. ToldOK(t)'
    BY <1>1, StillTold DEF AnswerBody, serverVars
  <1> QED BY <1>1, <1>2, <1>4, <1>5, <1>6, AnswersElsewhere DEF serverVars

\* What a batch sends after its n-th statement needs no more than the statements so far.
LEMMA BatchGoesOn ==
  ASSUME NEW t \in BatchTxs, NEW n \in Nat, n <= BatchSize, NEW next \in AfterStatement(t, n)
  PROVE  /\ next \in Command /\ next.tx = t /\ next.op # "BEGIN" /\ Sensible(next)
         /\ Before(next) \subseteq {t} \X (1..n) \/ next.op = "ROLLBACK"
  <1>1. t \in Txs /\ t \notin ToolTxs /\ BatchSize \in Nat
    BY PoolAssumption DEF Txs
  <1>2. next \in Command /\ next.tx = t /\ next.op # "BEGIN"
    BY <1>1, NextCommandType
  <1>3. \/ n < BatchSize /\ next = Cmd("STMT", t, "batch", n + 1)
        \/ next = Cmd("ROLLBACK", t, "batch", 0)
        \/ n = BatchSize /\ next = Cmd("COMMIT", t, "batch", 0)
    BY <1>1 DEF AfterStatement
  <1>4. CASE n < BatchSize /\ next = Cmd("STMT", t, "batch", n + 1)
    BY <1>1, <1>2, <1>4 DEF Cmd, Sensible, Before
  <1>5. CASE next = Cmd("ROLLBACK", t, "batch", 0)
    BY <1>1, <1>2, <1>5 DEF Cmd, Sensible
  <1>6. CASE n = BatchSize /\ next = Cmd("COMMIT", t, "batch", 0)
    BY <1>1, <1>2, <1>6 DEF Cmd, Sensible, Before
  <1> QED BY <1>3, <1>4, <1>5, <1>6

\* The holder was told nothing yet, and none of its writes is durable unless a deadlock
\* ended its transaction.
LEMMA HolderFacts ==
  ASSUME AnswerBody, NEW t \in Txs, lease[t] = "held"
  PROVE  told[t] = {} /\ \A w \in durable : w[1] = t => t \in ToolTxs \cap failed
  BY DEF AnswerBody, ToldOK

\* What the invariant says of the command at the head of a queue.
LEMMA HeadServed ==
  ASSUME TypeOK, LeaseBody, AnswerBody, NEW c \in Conns, queue[c] # << >>,
         NEW cmd, cmd = Head(queue[c])
  PROVE  /\ Sensible(cmd) /\ OpenFor(c, cmd.tx) /\ ServedOK(c)
         /\ cmd.tx \in BatchTxs => InOrder(c, 1)
         /\ cmd.op # "BEGIN" => \A i \in 1..Len(queue[c]) : queue[c][i].op # "BEGIN"
  <1>1. /\ cmd = queue[c][1] /\ cmd.tx \in Holders(c) /\ 1 \in 1..Len(queue[c])
    BY HeadFacts
  <1>2. ServedOK(c)
    BY DEF AnswerBody
  <1>3. ASSUME NEW i \in 1..Len(queue[c]), queue[c][i].op = "BEGIN" PROVE cmd.op = "BEGIN"
    <2>1. Len(queue[c]) = 1
      BY <1>1, <1>3, OwnCommands
    <2>2. i = 1
      BY <2>1
    <2> QED BY <1>1, <1>3, <2>2
  <1> QED BY <1>1, <1>2, <1>3 DEF ServedOK

\* BEGIN is answered on a clean session: the transaction is open and empty.
LEMMA BeginOkAnswers ==
  ASSUME TypeOK, TypeOK', LeaseBody, AnswerBody, NEW c \in Conns, queue[c] # << >>,
         NEW cmd, cmd = Head(queue[c]), BeginOk(c, cmd)
  PROVE  AnswerBody'
  <1>0. PICK t : t = cmd.tx
    OBVIOUS
  <1>1. /\ t \in Txs /\ lease[t] = "held" /\ conn[t] = c /\ pend[c] = {} /\ Len(queue[c]) = 1
        /\ t \notin finished /\ t \in Holders(c)
    BY <1>0, HeadFacts DEF BeginOk
  <1>2. /\ UNCHANGED <<lease, conn, acked, failed, told, durable>>
        /\ sess'[c] = "open" /\ pend'[c] = {}
        /\ \A d \in Conns \ {c} : queue'[d] = queue[d] /\ sess'[d] = sess[d] /\ pend'[d] = pend[d]
        /\ Holders(c)' = Holders(c)
    BY <1>1 DEF BeginOk, Answered, AnsweredThen, TypeOK, Holders
  <1>3. Sensible(cmd) /\ ServedOK(c) /\ OpenFor(c, t)
    BY <1>0, HeadServed
  <1>4. OpenFor(c, t)'
    BY <1>1, <1>2, <1>3 DEF OpenFor
  <1>5. ServedOK(c)'
    <2>1. CASE Answered(c)
      <3>1. queue'[c] = Tail(queue[c])
        BY <2>1 DEF Answered, TypeOK
      <3> QED BY <1>0, <1>2, <1>3, <1>4, <3>1, PoppedServes
    <2>2. ASSUME cmd.by = "batch", NEW next \in AfterStatement(t, 0), AnsweredThen(c, next)
          PROVE  ServedOK(c)'
      <3>1. t \in BatchTxs
        BY <1>0, <1>1, <1>3, <2>2 DEF Sensible, Txs
      <3>2. queue'[c] = Append(Tail(queue[c]), next)
        BY <2>2 DEF AnsweredThen, TypeOK
      <3>3. /\ next \in Command /\ next.tx = t /\ Sensible(next)
            /\ next.op \in {"STMT", "COMMIT"} => Before(next) = {}
        BY <3>1, <2>2, BatchGoesOn, PoolAssumption
      <3> QED BY <1>0, <1>1, <1>2, <1>4, <3>2, <3>3, NextServes
    <2> QED BY <1>0, <2>1, <2>2 DEF BeginOk
  <1>6. ToldOK(t)'
    BY <1>1, <1>2, StillTold DEF AnswerBody
  <1> QED BY <1>1, <1>2, <1>5, <1>6, AnswersElsewhere

\* BEGIN is refused: the handle keeps the connection but is served no more.
LEMMA BeginFailsAnswers ==
  ASSUME TypeOK, TypeOK', LeaseBody, AnswerBody, NEW c \in Conns, queue[c] # << >>,
         NEW cmd, cmd = Head(queue[c]), BeginFails(c, cmd)
  PROVE  AnswerBody'
  <1>0. PICK t : t = cmd.tx
    OBVIOUS
  <1>1. /\ t \in Txs /\ lease[t] = "held" /\ conn[t] = c /\ (\A u \in Holders(c) : u = t)
        /\ Tail(queue[c]) = << >>
    <2>1. Tail(queue[c]) \in Seq(Command) /\ Len(Tail(queue[c])) = 0
      BY HeadFacts DEF BeginFails
    <2>2. Tail(queue[c]) = << >>
      BY <2>1, EmptySeq
    <2> QED BY <1>0, <2>2, HeadFacts
  <1>2. /\ UNCHANGED <<conn, acked, failed, told, durable, sess, pend>>
        /\ queue'[c] = << >> /\ lease'[t] = "leaked"
        /\ \A d \in Conns \ {c} : queue'[d] = queue[d]
        /\ \A u \in Txs \ {t} : lease'[u] = lease[u]
    BY <1>0, <1>1 DEF BeginFails, Answered, serverVars, TypeOK
  <1>3. ServedOK(c)'
    <2>1. Holders(c)' = {}
      BY <1>1, <1>2 DEF Holders
    <2> QED BY <1>2, <2>1 DEF ServedOK
  <1>4. ToldOK(t)'
    <2>1. told[t] = {} /\ \A w \in durable : w[1] = t => t \in ToolTxs \cap failed
      BY <1>1, HolderFacts
    <2> QED BY <1>2, <2>1 DEF ToldOK, AnswerOK, BatchIsAtomic
  <1> QED BY <1>1, <1>2, <1>3, <1>4, AnswersElsewhere

\* A statement is answered without an error: in an open transaction it becomes pending;
\* otherwise the handle is one whose transaction a deadlock has ended.
LEMMA StmtOkAnswers ==
  ASSUME TypeOK, TypeOK', LeaseBody, AnswerBody, NEW c \in Conns, queue[c] # << >>,
         NEW cmd, cmd = Head(queue[c]), StmtOk(c, cmd)
  PROVE  AnswerBody'
  <1>0. PICK t, n : t = cmd.tx /\ n = cmd.n
    OBVIOUS
  <1>1. /\ t \in Txs /\ n \in Nat /\ lease[t] = "held" /\ conn[t] = c /\ t \in Holders(c)
        /\ cmd.op = "STMT"
    BY <1>0, HeadFacts DEF StmtOk
  <1>2. /\ UNCHANGED <<lease, conn, sess, failed, told>>
        /\ \A d \in Conns \ {c} : queue'[d] = queue[d] /\ pend'[d] = pend[d]
        /\ \A u \in Txs \ {t} : acked'[u] = acked[u]
        /\ acked'[t] \subseteq acked[t] \cup {n}
        /\ Holders(c)' = Holders(c)
    <2>1. UNCHANGED clientVars /\ UNCHANGED <<sess, failed, told>>
      BY DEF StmtOk
    <2>2. \A d \in Conns \ {c} : queue'[d] = queue[d]
      BY DEF StmtOk, Answered, AnsweredThen, TypeOK
    <2>3. \A d \in Conns \ {c} : pend'[d] = pend[d]
      BY DEF StmtOk, TypeOK
    <2>4. /\ \A u \in Txs \ {t} : acked'[u] = acked[u]
          /\ acked'[t] \subseteq acked[t] \cup {n}
      BY <1>0, <1>1 DEF StmtOk, TypeOK
    <2> QED BY <2>1, <2>2, <2>3, <2>4 DEF clientVars, Holders
  <1>3. /\ Sensible(cmd) /\ ServedOK(c) /\ OpenFor(c, t)
        /\ t \in BatchTxs => InOrder(c, 1)
        /\ \A i \in 1..Len(queue[c]) : queue[c][i].op # "BEGIN"
    BY <1>0, <1>1, HeadServed
  <1>4. queue[c][1] = cmd
    BY HeadFacts
  <1>5. told[t] = {} /\ \A w \in durable : w[1] = t => t \in ToolTxs \cap failed
    BY <1>1, HolderFacts
  <1>6. CASE sess[c] = "open"
    <2>1. durable' = durable /\ pend'[c] = pend[c] \cup {<<t, n>>}
      BY <1>0, <1>6 DEF StmtOk, JoinsTx, TypeOK
    <2>2. {t} \X acked[t] \subseteq pend[c] => {t} \X acked'[t] \subseteq pend'[c]
      BY <1>2, <2>1
    <2>3. OpenFor(c, t)'
      BY <1>2, <1>3, <1>6, <2>2 DEF OpenFor
    <2>4. CASE Answered(c)
      <3>1. queue'[c] = Tail(queue[c])
        BY <2>4 DEF Answered, TypeOK
      <3>2. ServedOK(c)'
        BY <1>0, <1>2, <1>3, <2>3, <3>1, PoppedServes
      <3>3. ToldOK(t)'
        BY <1>1, <1>2, <1>5, <2>1 DEF ToldOK, AnswerOK, BatchIsAtomic
      <3> QED BY <1>1, <1>2, <2>1, <3>2, <3>3, AnswersElsewhere
    <2>5. ASSUME cmd.by = "batch", NEW next \in AfterStatement(t, n), AnsweredThen(c, next)
          PROVE  AnswerBody'
      <3>1. t \in BatchTxs /\ n \in 1..BatchSize
        BY <1>0, <1>1, <1>3, <2>5 DEF Sensible, Txs
      <3>2. queue'[c] = Append(Tail(queue[c]), next)
        BY <2>5 DEF AnsweredThen, TypeOK
      <3>3. Len(queue[c]) = 1 /\ Before(cmd) \subseteq pend[c]
        BY <1>1, <1>3, <1>4, <2>5, <3>1 DEF InOrder
      <3>4. {t} \X (1..n) \subseteq pend'[c]
        <4>1. \A m \in 1..n : m \in 1..(n - 1) \/ m = n
          BY <1>1
        <4>2. {t} \X (1..(n - 1)) \subseteq pend[c]
          BY <1>0, <1>1, <3>3 DEF Before
        <4> QED BY <2>1, <4>1, <4>2
      <3>5. /\ next \in Command /\ next.tx = t /\ Sensible(next)
            /\ next.op \in {"STMT", "COMMIT"} => Before(next) \subseteq {t} \X (1..n)
        BY <3>1, <2>5, BatchGoesOn, PoolAssumption
      <3>6. ServedOK(c)'
        BY <1>0, <1>1, <1>2, <1>3, <1>6, <2>3, <3>2, <3>3, <3>4, <3>5, NextServes
      <3>7. ToldOK(t)'
        BY <1>1, <1>2, <1>5, <2>1 DEF ToldOK, AnswerOK, BatchIsAtomic
      <3> QED BY <1>1, <1>2, <2>1, <3>6, <3>7, AnswersElsewhere
    <2> QED BY <1>0, <2>4, <2>5 DEF StmtOk
  <1>7. CASE sess[c] # "open"
    <2>1. t \in ToolTxs
      BY <1>1, <1>3, <1>4, <1>7 DEF InOrder, Txs
    <2>2. t \in failed
      BY <1>3, <1>7 DEF OpenFor
    <2>3. durable' = durable \cup {<<t, n>>} /\ pend' = pend
      BY <1>0, <1>7 DEF StmtOk, JoinsTx
    <2>4. Answered(c)
      BY <1>0, <1>3, <2>1 DEF Sensible, StmtOk
    <2>5. queue'[c] = Tail(queue[c])
      BY <2>4 DEF Answered, TypeOK
    <2>6. OpenFor(c, t)'
      BY <1>2, <1>3, <2>2, <2>3 DEF OpenFor
    <2>7. ServedOK(c)'
      BY <1>0, <1>2, <1>3, <2>5, <2>6, PoppedServes
    <2>8. ToldOK(t)'
      BY <1>1, <1>2, <1>5, <2>1, <2>2, PoolAssumption DEF ToldOK, AnswerOK, BatchIsAtomic
    <2> QED BY <1>1, <1>2, <2>3, <2>7, <2>8, AnswersElsewhere
  <1> QED BY <1>6, <1>7

\* A statement is refused: its handle counts as failed from here on.
LEMMA StmtFailsAnswers ==
  ASSUME TypeOK, TypeOK', LeaseBody, AnswerBody, NEW c \in Conns, queue[c] # << >>,
         NEW cmd, cmd = Head(queue[c]), StmtFails(c, cmd)
  PROVE  AnswerBody'
  <1>0. PICK t : t = cmd.tx
    OBVIOUS
  <1>1. /\ t \in Txs /\ lease[t] = "held" /\ conn[t] = c /\ t \in Holders(c)
        /\ cmd.op = "STMT"
    BY <1>0, HeadFacts DEF StmtFails
  <1>2. /\ UNCHANGED <<lease, conn, acked, told, durable>> /\ failed' = failed \cup {t}
        /\ \A d \in Conns \ {c} : queue'[d] = queue[d] /\ sess'[d] = sess[d] /\ pend'[d] = pend[d]
        /\ Holders(c)' = Holders(c)
    BY <1>0 DEF StmtFails, Answered, AnsweredThen, clientVars, Holders, TypeOK
  <1>3. /\ Sensible(cmd) /\ ServedOK(c) /\ OpenFor(c, t)
        /\ t \in BatchTxs => InOrder(c, 1)
        /\ \A i \in 1..Len(queue[c]) : queue[c][i].op # "BEGIN"
    BY <1>0, <1>1, HeadServed
  <1>4. told[t] = {} /\ \A w \in durable : w[1] = t => t \in ToolTxs \cap failed
    BY <1>1, HolderFacts
  <1>5. OpenFor(c, t)'
    <2>1. sess'[c] = "auto" => sess[c] = "auto" \/ "deadlock" \in Faults
      BY DEF StmtFails, TypeOK
    <2>2. sess[c] = "auto" => "deadlock" \in Faults
      BY <1>3 DEF OpenFor
    <2> QED BY <1>2, <2>1, <2>2 DEF OpenFor
  <1>6. ServedOK(c)'
    <2>1. CASE Answered(c)
      <3>1. queue'[c] = Tail(queue[c])
        BY <2>1 DEF Answered, TypeOK
      <3> QED BY <1>0, <1>2, <1>3, <1>5, <3>1, PoppedServes
    <2>2. CASE cmd.by = "batch" /\ AnsweredThen(c, CatchCommand(t))
      <3> DEFINE next == CatchCommand(t)
      <3>1. t \in BatchTxs /\ t \notin ToolTxs
        BY <1>0, <1>1, <1>3, <2>2 DEF Sensible, Txs
      <3>2. Len(queue[c]) = 1
        <4>1. queue[c][1] = cmd
          BY HeadFacts
        <4> QED BY <1>3, <2>2, <3>1, <4>1 DEF InOrder
      <3>3. next \in Command /\ next.tx = t /\ next.op = "ROLLBACK" /\ Sensible(next)
        BY <1>1, <3>1, CatchCommandType DEF CatchCommand, Cmd, Sensible
      <3>4. queue'[c] = Append(Tail(queue[c]), next)
        BY <2>2 DEF AnsweredThen, TypeOK
      <3> HIDE DEF next
      <3> QED BY <1>0, <1>2, <1>5, <3>2, <3>3, <3>4, NextServes
    <2> QED BY <1>0, <2>1, <2>2 DEF StmtFails
  <1>7. ToldOK(t)'
    BY <1>1, <1>2, <1>4 DEF ToldOK, AnswerOK, BatchIsAtomic
  <1> QED BY <1>1, <1>2, <1>6, <1>7, AnswersElsewhere

\* COMMIT or ROLLBACK is answered: it was the last command, and what the client is told is
\* what became of the transaction.
LEMMA EndAnswers ==
  ASSUME TypeOK, TypeOK', LeaseBody, AnswerBody, Disciplined', NEW c \in Conns,
         queue[c] # << >>, NEW cmd, cmd = Head(queue[c]),
         CommitOk(c, cmd) \/ CommitFails(c, cmd) \/ RollbackOk(c, cmd)
  PROVE  AnswerBody'
  <1>0. PICK t : t = cmd.tx
    OBVIOUS
  <1>f. Finishing(cmd) /\ cmd.op # "BEGIN"
    BY DEF CommitOk, CommitFails, RollbackOk, Finishing
  <1>e. PICK ok \in BOOLEAN, answer \in Answers :
          /\ EndOfTx(c, cmd, ok, answer)
          /\ \/ cmd.op = "COMMIT" /\ ok /\ answer = "committed"
                /\ durable' = IF sess[c] = "open" THEN durable \cup pend[c] ELSE durable
             \/ cmd.op = "COMMIT" /\ ~ok /\ durable' = durable
             \/ cmd.op = "ROLLBACK" /\ ok /\ answer = "rolled_back" /\ durable' = durable
    BY DEF CommitOk, CommitFails, RollbackOk, Answers
  <1>1. /\ t \in Txs /\ lease[t] = "held" /\ conn[t] = c /\ idle[c] = 0
        /\ t \in Holders(c) /\ (\A u \in Holders(c) : u = t)
        /\ t \in finished /\ Tail(queue[c]) = << >>
    <2>1. Tail(queue[c]) \in Seq(Command) /\ Len(Tail(queue[c])) = 0
      BY <1>f, HeadFacts
    <2>2. Tail(queue[c]) = << >>
      BY <2>1, EmptySeq
    <2> QED BY <1>0, <1>f, <2>2, HeadFacts
  <1>2. Conclude(c, cmd, ok, answer)
    BY <1>1, <1>e DEF EndOfTx, ReleaseThrows
  <1>3. Answered(c)
    <2>1. ~AnsweredThen(c, CatchCommand(cmd.tx))
      BY <1>0, <1>1, CatchCommandType DEF AnsweredThen, Called, Disciplined
    <2> QED BY <1>2, <2>1 DEF Conclude
  <1>4. /\ UNCHANGED <<conn, acked, failed>> /\ queue'[c] = << >>
        /\ lease'[t] = "released"
        /\ \A d \in Conns \ {c} : queue'[d] = queue[d] /\ sess'[d] = sess[d] /\ pend'[d] = pend[d]
        /\ \A u \in Txs \ {t} : lease'[u] = lease[u] /\ told'[u] = told[u]
    <2>1. \A u \in Txs \ {t} : told'[u] = told[u]
      BY <1>0, <1>2 DEF Conclude, Tell, TypeOK
    <2> QED BY <1>0, <1>1, <1>3, <1>e, <2>1 DEF EndOfTx, Answered, TypeOK
  <1>5. ServedOK(c)'
    <2>1. Holders(c)' = {}
      BY <1>1, <1>4 DEF Holders
    <2> QED BY <1>4, <2>1 DEF ServedOK
  <1>6. durable \subseteq durable' /\ \A w \in durable' : w \in durable \/ w[1] = t
    <2>1. \A w \in pend[c] : w[1] = t
      BY <1>1 DEF LeaseBody, ConnOK
    <2> QED BY <1>e, <2>1
  <1>7. /\ Sensible(cmd) /\ OpenFor(c, t) /\ (t \in BatchTxs => InOrder(c, 1))
        /\ \A i \in 1..Len(queue[c]) : queue[c][i].op # "BEGIN"
    BY <1>0, <1>f, HeadServed
  <1>8. told[t] = {} /\ \A w \in durable : w[1] = t => t \in ToolTxs \cap failed
    BY <1>1, HolderFacts
  <1>9. ToldOK(t)'
    <2>1. AnswerOK(t)'
      <3>1. CASE t \in ToolTxs
        <4>1. told'[t] = {} \/ (told'[t] = {answer} /\ ok)
          <5>1. cmd.by \in {"tool", "timer", "nobody"}
            BY <1>0, <1>7, <3>1 DEF Sensible
          <5>2. \/ told' = told
                \/ ok /\ told' = [told EXCEPT ![t] = @ \cup {answer}]
            BY <1>0, <1>2, <5>1 DEF Conclude, Tell
          <5> QED BY <1>1, <1>8, <5>2 DEF TypeOK
        <4>2. answer = "committed" /\ ok /\ t \notin failed => {t} \X acked[t] \subseteq durable'
          BY <1>7, <1>e, <3>1 DEF OpenFor
        <4>3. answer = "rolled_back" /\ ok /\ t \notin failed => \A w \in durable' : w[1] # t
          BY <1>8, <1>e
        <4>4. t \notin BatchTxs
          BY <3>1, PoolAssumption
        <4> QED BY <1>4, <4>1, <4>2, <4>3, <4>4 DEF AnswerOK
      <3>2. CASE t \in BatchTxs
        <4>1. \/ told'[t] = {}
              \/ told'[t] = {"success"} /\ cmd.op = "COMMIT" /\ ok
              \/ told'[t] = {"failure"} /\ cmd.op = "ROLLBACK"
          BY <1>0, <1>1, <1>2, <1>7, <1>8, <1>e, <3>2, PoolAssumption
          DEF Conclude, Tell, Sensible, Cmd, TypeOK
        <4>2. cmd.op = "COMMIT" /\ ok => BatchWrites(t) \subseteq durable'
          <5>1. queue[c][1] = cmd
            BY HeadFacts
          <5> QED BY <1>0, <1>7, <1>e, <3>2, <5>1 DEF InOrder, Before, BatchWrites
        <4>3. cmd.op = "ROLLBACK" => BatchWrites(t) \cap durable' = {}
          BY <1>8, <1>e, <3>2, PoolAssumption DEF BatchWrites
        <4>4. t \notin ToolTxs
          BY <3>2, PoolAssumption
        <4> QED BY <4>1, <4>2, <4>3, <4>4 DEF AnswerOK, BatchIsAtomic, BatchWrites
      <3> QED BY <1>1, <3>1, <3>2 DEF Txs
    <2> QED BY <1>4, <2>1 DEF ToldOK
  <1> QED BY <1>1, <1>4, <1>5, <1>6, <1>9, AnswersElsewhere

\* withTimeout gives up on a statement: what stays on the wire is still in order.
LEMMA TimeoutAnswers ==
  ASSUME TypeOK, TypeOK', LeaseBody, AnswerBody, NEW c \in Conns,
         NEW i \in DOMAIN queue[c], NEW cmd, cmd = queue[c][i], StmtTimesOut(c, i)
  PROVE  AnswerBody'
  <1>0. PICK t, left : t = cmd.tx /\ left = [queue[c] EXCEPT ![i] = [cmd EXCEPT !.by = "nobody"]]
    OBVIOUS
  <1>1. queue[c] \in Seq(Command) /\ i \in 1..Len(queue[c]) /\ Len(queue[c]) \in Nat
    BY DEF TypeOK
  <1>2. cmd \in Command /\ t \in Txs /\ cmd.op = "STMT"
    BY <1>0, <1>1, QueueElement DEF StmtTimesOut
  <1>3. /\ left \in Seq(Command) /\ Len(left) = Len(queue[c])
        /\ left[i] = [cmd EXCEPT !.by = "nobody"]
        /\ \A j \in 1..Len(left) : j # i => left[j] = queue[c][j]
    <2>1. [cmd EXCEPT !.by = "nobody"] \in Command
      BY <1>2 DEF Command, Callers
    <2> QED BY <1>0, <1>1, <2>1
  <1>4. /\ lease[t] = "held" /\ conn[t] = c /\ t \in Holders(c) /\ (\A u \in Holders(c) : u = t)
    BY <1>0, <1>1, <1>2 DEF LeaseBody, ConnOK, QueueOK, Holders
  <1>5. /\ UNCHANGED <<lease, conn, sess, pend, acked, failed, told, durable>>
        /\ \A d \in Conns \ {c} : queue'[d] = queue[d]
        /\ Holders(c)' = Holders(c)
        /\ \/ queue'[c] = left
           \/ queue'[c] = Append(left, CatchCommand(t)) /\ cmd.by = "batch"
    BY <1>0 DEF StmtTimesOut, clientVars, serverVars, Holders, TypeOK
  <1>6. ServedOK(c)
    BY DEF AnswerBody
  <1>7. ASSUME NEW j \in 1..Len(left)
        PROVE  /\ Sensible(left[j])
               /\ left[j].tx \in BatchTxs =>
                    /\ left[j].by # "batch"
                    /\ left[j].op \in {"STMT", "COMMIT"} =>
                         j = 1 /\ sess[c] = "open" /\ Before(left[j]) \subseteq pend[c]
               /\ left[j].op = queue[c][j].op
    <2>1. Sensible(queue[c][j]) /\ (queue[c][j].tx \in BatchTxs => InOrder(c, j))
      BY <1>3, <1>6 DEF ServedOK
    <2>2. CASE j = i
      <3>1. left[j].by = "nobody" /\ left[j].tx = t /\ left[j].op = "STMT" /\ left[j].n = cmd.n
        BY <1>0, <1>2, <1>3, <2>2 DEF Command
      <3>2. Before(left[j]) = Before(cmd)
        BY <1>0, <1>2, <3>1 DEF Before
      <3> QED BY <1>0, <1>2, <2>1, <2>2, <3>1, <3>2 DEF Sensible, InOrder
    <2>3. CASE j # i
      <3>1. left[j] = queue[c][j] /\ Len(queue[c]) # 1
        BY <1>1, <1>3, <2>3
      <3> QED BY <2>1, <3>1 DEF InOrder
    <2> QED BY <2>2, <2>3
  <1>8. ServedOK(c)'
    <2>1. OpenFor(c, t)
      BY <1>4, <1>6 DEF ServedOK
    <2>2. CASE queue'[c] = left
      <3>1. ASSUME NEW j \in 1..Len(queue'[c])
            PROVE  Sensible(queue'[c][j]) /\ (queue'[c][j].tx \in BatchTxs => InOrder(c, j)')
        BY <1>5, <1>7, <2>2 DEF InOrder
      <3>2. OpenFor(c, t)'
        BY <1>3, <1>5, <1>7, <2>1, <2>2 DEF OpenFor
      <3> QED BY <1>4, <1>5, <3>1, <3>2 DEF ServedOK
    <2>3. CASE queue'[c] = Append(left, CatchCommand(t)) /\ cmd.by = "batch"
      <3> DEFINE next == CatchCommand(t)
      <3>1. t \in BatchTxs
        BY <1>0, <1>1, <1>2, <1>6, <2>3 DEF ServedOK, Sensible, Txs
      <3>2. /\ next \in Command /\ next.op = "ROLLBACK" /\ next.by = "catch" /\ Sensible(next)
        BY <1>2, <3>1, PoolAssumption, CatchCommandType DEF CatchCommand, Cmd, Sensible
      <3>3. queue'[c] = Append(left, next)
        BY <2>3
      <3> HIDE DEF next
      <3>4. /\ Len(queue'[c]) = Len(left) + 1 /\ queue'[c][Len(left) + 1] = next
            /\ \A j \in 1..Len(left) : queue'[c][j] = left[j]
            /\ \A j \in 1..Len(queue'[c]) : j \in 1..Len(left) \/ j = Len(left) + 1
        BY <1>1, <1>3, <3>2, <3>3, AppendFacts
      <3>5. ASSUME NEW j \in 1..Len(queue'[c])
            PROVE  Sensible(queue'[c][j]) /\ (queue'[c][j].tx \in BatchTxs => InOrder(c, j)')
        <4>1. CASE j \in 1..Len(left)
          BY <1>5, <1>7, <3>4, <4>1 DEF InOrder
        <4>2. CASE j = Len(left) + 1
          BY <3>2, <3>4, <4>2 DEF InOrder
        <4> QED BY <3>4, <4>1, <4>2
      <3>6. (\A j \in 1..Len(queue'[c]) : queue'[c][j].op # "BEGIN")
              => \A j \in 1..Len(queue[c]) : queue[c][j].op # "BEGIN"
        <4>1. \A j \in 1..Len(left) : j \in 1..Len(queue'[c])
          BY <1>1, <1>3, <3>4
        <4> QED BY <1>3, <1>7, <3>4, <4>1
      <3>7. OpenFor(c, t)'
        BY <1>5, <2>1, <3>6 DEF OpenFor
      <3> QED BY <1>4, <1>5, <3>5, <3>7 DEF ServedOK
    <2> QED BY <1>5, <2>2, <2>3
  <1>9. ToldOK(t)'
    BY <1>2, <1>5, StillTold DEF AnswerBody
  <1> QED BY <1>2, <1>4, <1>5, <1>8, <1>9, AnswersElsewhere

\* Every step keeps the answers true.
LEMMA NextAnswers == TypeOK /\ LeaseInv /\ AnswerInv /\ [Next]_vars => AnswerInv'
  <1> SUFFICES ASSUME TypeOK, LeaseInv, AnswerInv, [Next]_vars, Disciplined' PROVE AnswerBody'
    BY DEF AnswerInv
  <1>1. TypeOK'
    BY NextType
  <1>2. LeaseBody /\ AnswerBody
    BY LateGrows DEF LeaseInv, AnswerInv, Disciplined
  <1>3. ASSUME NEW t \in Txs, CallBegin(t) PROVE AnswerBody'
    <2>1. /\ lease[t] = "unused" /\ lease'[t] = "waiting"
          /\ \A u \in Txs \ {t} : lease'[u] = lease[u]
          /\ UNCHANGED <<conn, queue, sess, pend, durable, acked, failed, told>>
      BY <1>3 DEF CallBegin, serverVars, history, TypeOK
    <2> QED BY <1>1, <1>2, <2>1, WaitingAnswers
  <1>11. ASSUME NEW i \in DOMAIN waitq, WaitTimesOut(i) PROVE AnswerBody'
    <2>1. PICK t \in Txs : t = waitq[i] /\ lease[t] = "waiting"
      <3>1. i \in 1..Len(waitq) /\ waitq[i] \in Txs
        BY RemoveAtFacts DEF TypeOK
      <3> QED BY <1>2, <3>1 DEF LeaseBody, WaitOK
    <2>2. /\ lease'[t] = "refused" /\ \A u \in Txs \ {t} : lease'[u] = lease[u]
          /\ UNCHANGED <<conn, queue, sess, pend, durable, acked, failed, told>>
      BY <1>11, <2>1 DEF WaitTimesOut, serverVars, history, TypeOK
    <2> QED BY <1>1, <1>2, <2>1, <2>2, WaitingAnswers
  <1>4. ASSUME NEW c \in Conns, PoolGrant(c) PROVE AnswerBody'
    BY <1>1, <1>2, <1>4, GrantAnswers
  <1>5. ASSUME NEW c \in Conns, Answer(c) PROVE AnswerBody'
    <2>1. PICK cmd : /\ cmd = Head(queue[c]) /\ queue[c] # << >>
                     /\ \/ BeginOk(c, cmd) \/ BeginFails(c, cmd)
                        \/ StmtOk(c, cmd) \/ StmtFails(c, cmd)
                        \/ CommitOk(c, cmd) \/ CommitFails(c, cmd) \/ RollbackOk(c, cmd)
      BY <1>5 DEF Answer
    <2>2. CASE BeginOk(c, cmd)
      BY <1>1, <1>2, <2>1, <2>2, BeginOkAnswers
    <2>3. CASE BeginFails(c, cmd)
      BY <1>1, <1>2, <2>1, <2>3, BeginFailsAnswers
    <2>4. CASE StmtOk(c, cmd)
      BY <1>1, <1>2, <2>1, <2>4, StmtOkAnswers
    <2>5. CASE StmtFails(c, cmd)
      BY <1>1, <1>2, <2>1, <2>5, StmtFailsAnswers
    <2>6. CASE CommitOk(c, cmd) \/ CommitFails(c, cmd) \/ RollbackOk(c, cmd)
      BY <1>1, <1>2, <2>1, <2>6, EndAnswers
    <2> QED BY <2>1, <2>2, <2>3, <2>4, <2>5, <2>6
  <1>6. ASSUME NEW t \in ToolTxs, ExecInTx(t) PROVE AnswerBody'
    <2>0. PICK cmd : cmd = Cmd("STMT", t, "tool", sent[t] + 1)
      OBVIOUS
    <2>1. t \in Txs /\ t \in table /\ sent[t] + 1 \in 1..MaxStmts
      BY <1>6, PoolAssumption DEF ExecInTx, Txs, TypeOK
    <2>2. cmd \in Command /\ cmd.tx = t /\ cmd.op = "STMT" /\ cmd.by = "tool" /\ cmd.n = sent[t] + 1
      BY <2>0, <2>1, CmdType DEF Ops, Callers
    <2>3. Sensible(cmd)
      BY <2>1, <2>2 DEF Sensible
    <2>4. Issue(conn[t], cmd) /\ UNCHANGED <<lease, conn, serverVars, acked, failed, told>>
      BY <2>0, <1>6 DEF ExecInTx
    <2> QED BY <1>1, <1>2, <2>1, <2>2, <2>3, <2>4, IssueAnswers
  <1>7. ASSUME NEW t \in ToolTxs, NEW op \in {"COMMIT", "ROLLBACK"}, Finish(t, op)
        PROVE AnswerBody'
    <2>0. PICK cmd : cmd = Cmd(op, t, "tool", 0)
      OBVIOUS
    <2>1. t \in Txs /\ t \in table
      BY <1>7 DEF Finish, Txs
    <2>2. cmd \in Command /\ cmd.tx = t /\ cmd.op = op /\ cmd.by = "tool"
      BY <2>0, <2>1, CmdType DEF Ops, Callers
    <2>3. Sensible(cmd)
      BY <2>0, <2>2 DEF Sensible
    <2>4. Issue(conn[t], cmd) /\ UNCHANGED <<lease, conn, serverVars, acked, failed, told>>
      BY <2>0, <1>7 DEF Finish, clientVars
    <2> QED BY <1>1, <1>2, <2>1, <2>2, <2>3, <2>4, IssueAnswers
  <1>8. ASSUME NEW t \in ToolTxs, CleanupExpired(t) PROVE AnswerBody'
    <2>0. PICK cmd : cmd = Cmd("ROLLBACK", t, "timer", 0)
      OBVIOUS
    <2>1. t \in Txs /\ t \in table
      BY <1>8 DEF CleanupExpired, Txs
    <2>2. cmd \in Command /\ cmd.tx = t /\ cmd.op = "ROLLBACK" /\ cmd.by = "timer"
      BY <2>0, <2>1, CmdType DEF Ops, Callers
    <2>3. Sensible(cmd)
      BY <2>2 DEF Sensible
    <2>4. Issue(conn[t], cmd) /\ UNCHANGED <<lease, conn, serverVars, acked, failed, told>>
      BY <2>0, <1>8 DEF CleanupExpired
    <2> QED BY <1>1, <1>2, <2>1, <2>2, <2>3, <2>4, IssueAnswers
  <1>9. ASSUME NEW c \in Conns, NEW i \in DOMAIN queue[c], StmtTimesOut(c, i)
        PROVE AnswerBody'
    BY <1>1, <1>2, <1>9, TimeoutAnswers
  <1>10. CASE UNCHANGED vars
    BY <1>2, <1>10
    DEF vars, clientVars, serverVars, history, AnswerBody, ServedOK, InOrder, OpenFor, Holders,
        ToldOK, AnswerOK, BatchIsAtomic
  <1> QED BY <1>3, <1>4, <1>5, <1>6, <1>7, <1>8, <1>9, <1>10, <1>11 DEF Next

\* Commands, answers and permanent writes agree in every reachable state.
THEOREM AnswerInvariant == Spec => [](TypeOK /\ LeaseInv /\ AnswerInv)
  <1>1. /\ Init => TypeOK /\ LeaseInv /\ AnswerInv
        /\ TypeOK /\ LeaseInv /\ AnswerInv /\ [Next]_vars => (TypeOK /\ LeaseInv /\ AnswerInv)'
    BY InitType, InitLease, InitAnswers, NextType, NextLease, NextAnswers
  <1> QED BY <1>1, PTL DEF Spec

\* For any pool size and any clients that use no handle after its end: a batch answered
\* success is durable in full and one answered failure not at all, a commit answered
\* "committed" kept every acknowledged statement, a rollback undid every one.
THEOREM AnswersTrue == Spec => []AnswersAreTrue
  <1>1. TypeOK /\ LeaseInv /\ AnswerInv => AnswersAreTrue
    BY DEF AnswerInv, AnswerBody, ToldOK, AnswerOK, AnswersAreTrue, Txs
  <1> QED BY <1>1, AnswerInvariant, PTL

\* Permanent writes of a handle without a refused statement are added by the answer to its
\* own COMMIT only.
LEMMA OwnCommitStep ==
  ASSUME TypeOK, LeaseBody, AnswerBody, [Next]_vars,
         NEW w \in durable' \ durable, w[1] \in ToolTxs \ failed
  PROVE  \E c \in Conns : queue[c] # << >> /\ Head(queue[c]) = Cmd("COMMIT", w[1], "tool", 0)
  <1>1. PICK c \in Conns : Answer(c)
    BY DEF Next, vars, serverVars, CallBegin, WaitTimesOut, PoolGrant, ExecInTx, Finish, CleanupExpired, StmtTimesOut
  <1>2. PICK cmd : /\ cmd = Head(queue[c]) /\ queue[c] # << >>
                   /\ \/ BeginOk(c, cmd) \/ BeginFails(c, cmd)
                      \/ StmtOk(c, cmd) \/ StmtFails(c, cmd)
                      \/ CommitOk(c, cmd) \/ CommitFails(c, cmd) \/ RollbackOk(c, cmd)
    BY <1>1 DEF Answer
  <1>3. BeginOk(c, cmd) \/ StmtOk(c, cmd) \/ CommitOk(c, cmd)
    BY <1>2 DEF BeginFails, StmtFails, CommitFails, RollbackOk, serverVars
  <1>4. \A v \in pend[c] : v[1] = cmd.tx
    BY <1>2, HeadFacts DEF LeaseBody, ConnOK
  <1>5. ~BeginOk(c, cmd)
    <2> SUFFICES ASSUME BeginOk(c, cmd) PROVE FALSE
      OBVIOUS
    <2>1. pend[c] = {}
      BY <1>2, HeadFacts DEF BeginOk
    <2> QED BY <2>1 DEF BeginOk
  <1>6. ~StmtOk(c, cmd)
    <2> SUFFICES ASSUME StmtOk(c, cmd) PROVE FALSE
      OBVIOUS
    <2>1. sess[c] # "open" /\ w[1] = cmd.tx /\ cmd.op = "STMT"
      BY DEF StmtOk, JoinsTx
    <2>2. OpenFor(c, cmd.tx) /\ \A i \in 1..Len(queue[c]) : queue[c][i].op # "BEGIN"
      BY <1>2, <2>1, HeadServed
    <2> QED BY <2>1, <2>2 DEF OpenFor
  <1>7. cmd.op = "COMMIT" /\ w[1] = cmd.tx
    BY <1>3, <1>4, <1>5, <1>6 DEF CommitOk
  <1>8. Sensible(cmd)
    BY <1>2, HeadServed
  <1> QED BY <1>2, <1>7, <1>8 DEF Sensible

\* For any pool size and any clients that use no handle after its end: the writes of a
\* handle whose statements all succeeded become permanent by its own COMMIT only.
THEOREM OnlyOwnCommits == Spec => OnlyOwnCommitPersists
  <1> DEFINE Step == \A w \in durable' \ durable :
               (late' = {} /\ w[1] \in ToolTxs \ failed) =>
                  \E c \in Conns : queue[c] # << >> /\ Head(queue[c]) = Cmd("COMMIT", w[1], "tool", 0)
  <1>1. TypeOK /\ LeaseInv /\ AnswerInv /\ [Next]_vars => [Step]_vars
    BY LateGrows, OwnCommitStep DEF LeaseInv, AnswerInv, Disciplined
  <1>2. OnlyOwnCommitPersists <=> [][Step]_vars
    BY DEF OnlyOwnCommitPersists
  <1> HIDE DEF Step
  <1> QED BY <1>1, <1>2, AnswerInvariant, PTL DEF Spec

-----------------------------------------------------------------------------
(* Pooled transactions implement AtomicStore.                                *)

\* The pending statements of the handle that holds c are the writes pending there.
LEMMA HolderPending ==
  ASSUME TypeOK, LeaseBody, NEW c \in Conns, NEW t \in Txs, lease[t] = "held", conn[t] = c
  PROVE  pend[c] = {t} \X PendingOf(t) /\ PendingOf(t) \subseteq Nat
  <1>1. ASSUME NEW d \in Conns, NEW w \in pend[d]
        PROVE  /\ w \in Txs \X Nat /\ w = <<w[1], w[2]>>
               /\ w[1] = t <=> d = c
    <2>1. w[1] \in Holders(d) /\ (\A u, v \in Holders(c) : u = v) /\ t \in Holders(c)
      BY DEF LeaseBody, ConnOK, Holders
    <2>2. w \in Txs \X Nat
      BY DEF TypeOK
    <2> QED BY <2>1, <2>2 DEF Holders
  <1> QED BY <1>1 DEF PendingOf

\* Handles that hold no connection have nothing pending.
LEMMA NothingPending ==
  ASSUME TypeOK, LeaseBody, NEW t \in Txs, lease[t] # "held"
  PROVE  PendingOf(t) = {}
  <1>1. ASSUME NEW d \in Conns, NEW w \in pend[d] PROVE w[1] # t
    BY DEF LeaseBody, ConnOK, Holders
  <1> QED BY <1>1 DEF PendingOf

\* A step at a connection that had and has writes of t only pending concerns no other handle.
LEMMA OthersPending ==
  ASSUME NEW c \in Conns, NEW t,
         \A d \in Conns \ {c} : pend'[d] = pend[d],
         \A w \in pend[c] \cup pend'[c] : w[1] = t,
         NEW u, u # t
  PROVE  PendingOf(u)' = PendingOf(u)
  BY DEF PendingOf

\* A step that leaves pending and permanent writes alone and releases no handle is invisible.
LEMMA Invisible ==
  ASSUME UNCHANGED <<pend, durable>>,
         \A t \in Txs : lease'[t] = "released" <=> lease[t] = "released"
  PROVE  UNCHANGED Promise!vars
  <1>1. \A t \in Txs : PendingOf(t)' = PendingOf(t)
    BY DEF PendingOf
  <1>2. {t \in Txs : lease[t] = "released"}' = {t \in Txs : lease[t] = "released"}
    OBVIOUS
  <1> QED BY <1>1, <1>2 DEF Promise!vars

\* What the end of the transaction of t at c does to the abstract state.
LEMMA EndPromise ==
  ASSUME TypeOK, LeaseBody, Disciplined', LeaseBody', NEW c \in Conns, queue[c] # << >>,
         NEW cmd, cmd = Head(queue[c]), Finishing(cmd), NEW ok, NEW answer, EndOfTx(c, cmd, ok, answer)
  PROVE  LET t == cmd.tx
             local == [u \in Txs |-> PendingOf(u)]
             ended == {u \in Txs : lease[u] = "released"} IN
         /\ t \in Txs /\ t \notin ended /\ pend[c] = {t} \X local[t]
         /\ local' = [local EXCEPT ![t] = {}]
         /\ ended' = ended \cup {t}
  <1>0. PICK t : t = cmd.tx
    OBVIOUS
  <1>1. t \in Txs /\ lease[t] = "held" /\ conn[t] = c
    BY <1>0, HeadFacts
  <1>2. /\ pend'[c] = {} /\ lease' = [lease EXCEPT ![t] = "released"]
        /\ \A d \in Conns \ {c} : pend'[d] = pend[d]
    BY <1>0 DEF EndOfTx, TypeOK
  <1>3. pend[c] = {t} \X PendingOf(t)
    BY <1>1, HolderPending
  <1>4. \A u \in Txs \ {t} : PendingOf(u)' = PendingOf(u)
    <2>1. \A w \in pend[c] \cup pend'[c] : w[1] = t
      BY <1>2, <1>3
    <2> QED BY <1>2, <2>1, OthersPending
  <1>5. PendingOf(t)' = {}
    <2>1. ASSUME NEW d \in Conns, NEW w \in pend'[d] PROVE w[1] # t
      BY <1>1, <1>2 DEF LeaseBody, ConnOK, Holders
    <2> QED BY <2>1 DEF PendingOf
  <1>6. {u \in Txs : lease[u] = "released"}' = {u \in Txs : lease[u] = "released"} \cup {t}
    BY <1>1, <1>2 DEF TypeOK
  <1> QED BY <1>0, <1>1, <1>3, <1>4, <1>5, <1>6

\* An answer at a connection, while the promise is kept, is a step of AtomicStore or
\* invisible.
LEMMA AnswerPromise ==
  ASSUME TypeOK, TypeOK', LeaseBody, LeaseBody', AnswerBody, Promised', NEW c \in Conns, Answer(c)
  PROVE  [Promise!Next]_Promise!vars
  <1> USE DEF Promised
  <1>1. PICK cmd : /\ cmd = Head(queue[c]) /\ queue[c] # << >>
                   /\ \/ BeginOk(c, cmd) \/ BeginFails(c, cmd)
                      \/ StmtOk(c, cmd) \/ StmtFails(c, cmd)
                      \/ CommitOk(c, cmd) \/ CommitFails(c, cmd) \/ RollbackOk(c, cmd)
    BY DEF Answer
  <1>2. PICK t, n : t = cmd.tx /\ n = cmd.n
    OBVIOUS
  <1>3. t \in Txs /\ n \in Nat /\ lease[t] = "held" /\ conn[t] = c
    BY <1>1, <1>2, HeadFacts
  <1>4. Sensible(cmd) /\ OpenFor(c, t)
    BY <1>1, <1>2, HeadServed
  <1>5. CASE BeginOk(c, cmd)
    <2>1. pend[c] = {}
      BY <1>1, <1>5, HeadFacts DEF BeginOk
    <2>2. UNCHANGED lease
      BY <1>5 DEF BeginOk
    <2>3. UNCHANGED durable
      BY <1>5, <2>1 DEF BeginOk
    <2>4. UNCHANGED pend
      <3>1. pend = [pend EXCEPT ![c] = {}]
        BY <2>1 DEF TypeOK
      <3> QED BY <1>5, <3>1 DEF BeginOk
    <2> QED BY <2>2, <2>3, <2>4, Invisible
  <1>6. CASE BeginFails(c, cmd)
    <2>1. UNCHANGED <<pend, durable>> /\ lease' = [lease EXCEPT ![t] = "leaked"]
      BY <1>2, <1>6 DEF BeginFails, serverVars
    <2>2. \A u \in Txs : lease'[u] = "released" <=> lease[u] = "released"
      BY <1>3, <2>1 DEF TypeOK
    <2> QED BY <2>1, <2>2, Invisible
  <1>7. CASE StmtOk(c, cmd)
    <2>1. \A i \in 1..Len(queue[c]) : queue[c][i].op # "BEGIN"
      BY <1>1, <1>7, HeadServed DEF StmtOk
    <2>2. sess[c] = "open"
      BY <1>4, <1>7, <2>1 DEF OpenFor, StmtOk, clientVars, TypeOK
    <2>3. /\ pend'[c] = pend[c] \cup {<<t, n>>} /\ UNCHANGED <<durable, lease>>
          /\ \A d \in Conns \ {c} : pend'[d] = pend[d]
      BY <1>2, <1>7, <2>2 DEF StmtOk, JoinsTx, clientVars, TypeOK
    <2>4. \A w \in pend[c] \cup pend'[c] : w[1] = t
      BY <1>3, <2>3, HolderPending
    <2>5. \A u \in Txs \ {t} : PendingOf(u)' = PendingOf(u)
      BY <2>3, <2>4, OthersPending
    <2>6. PendingOf(t)' = PendingOf(t) \cup {n}
      <3>1. pend[c] = {t} \X PendingOf(t)
        BY <1>3, HolderPending
      <3>2. ASSUME NEW d \in Conns \ {c}, NEW w \in pend[d] PROVE w[1] # t
        <4>1. w[1] \in Holders(d)
          BY DEF LeaseBody, ConnOK
        <4> QED BY <1>3, <4>1 DEF Holders
      <3> DEFINE S == PendingOf(t) \cup {n}
      <3>3. pend'[c] = {t} \X S
        BY <2>3, <3>1
      <3>4. \A m \in S : <<t, m>> \in pend'[c]
        BY <3>3
      <3>5. ASSUME NEW d \in Conns, NEW w \in pend'[d], w[1] = t PROVE w[2] \in S
        BY <2>3, <3>2, <3>3, <3>5
      <3> HIDE DEF S
      <3>6. S \subseteq PendingOf(t)'
        <4> SUFFICES ASSUME NEW m \in S PROVE m \in PendingOf(t)'
          OBVIOUS
        <4> DEFINE w == <<t, m>>
        <4>1. w[1] = t /\ w[2] = m
          OBVIOUS
        <4> HIDE DEF w
        <4>2. w \in {x \in UNION {pend'[d] : d \in Conns} : x[1] = t}
          BY <3>4, <4>1 DEF w
        <4> QED BY <4>1, <4>2 DEF PendingOf
      <3>7. PendingOf(t)' \subseteq S
        BY <3>5 DEF PendingOf
      <3>8. PendingOf(t)' = S
        BY <3>6, <3>7
      <3> QED BY <3>8 DEF S
    <2>7. n \in 1..(IF MaxStmts > BatchSize THEN MaxStmts ELSE BatchSize)
      BY <1>2, <1>3, <1>4, <1>7, PoolAssumption DEF Sensible, StmtOk
    <2>8. Promise!Write(t, n)
      BY <1>3, <2>3, <2>5, <2>6 DEF Promise!Write
    <2> QED BY <1>3, <2>7, <2>8 DEF Promise!Next
  <1>8. CASE StmtFails(c, cmd)
    <2>1. "deadlock" \notin Faults
      BY <1>8 DEF StmtFails
    <2>2. UNCHANGED <<pend, durable, lease>>
      BY <1>8, <2>1 DEF StmtFails, clientVars
    <2> QED BY <2>2, Invisible
  <1>9. CASE CommitOk(c, cmd)
    BY <1>1, <1>9, EndPromise
    DEF CommitOk, Finishing, Promise!Next, Promise!Publish, Promise!Discard
  <1>10. CASE CommitFails(c, cmd) \/ RollbackOk(c, cmd)
    BY <1>1, <1>10, EndPromise
    DEF CommitFails, RollbackOk, Finishing, Promise!Next, Promise!Discard
  <1> QED BY <1>1, <1>5, <1>6, <1>7, <1>8, <1>9, <1>10

\* So is every other step.
LEMMA NextPromise ==
  ASSUME TypeOK, LeaseInv, AnswerInv, [Next]_vars, Promised'
  PROVE  [Promise!Next]_Promise!vars
  <1>1. TypeOK' /\ LeaseInv' /\ LeaseBody' /\ LeaseBody /\ AnswerBody
    BY NextType, NextLease, LateGrows DEF LeaseInv, AnswerInv, Disciplined, Promised
  <1>2. ASSUME NEW t \in Txs, CallBegin(t) PROVE UNCHANGED Promise!vars
    BY <1>2, Invisible DEF CallBegin, serverVars, TypeOK
  <1>8. ASSUME NEW i \in DOMAIN waitq, WaitTimesOut(i) PROVE UNCHANGED Promise!vars
    <2>1. PICK t \in Txs : t = waitq[i] /\ lease[t] = "waiting"
      <3>1. i \in 1..Len(waitq) /\ waitq[i] \in Txs
        BY RemoveAtFacts DEF TypeOK
      <3> QED BY <1>1, <3>1 DEF LeaseBody, WaitOK
    <2>2. UNCHANGED <<pend, durable>> /\ lease' = [lease EXCEPT ![t] = "refused"]
      BY <1>8, <2>1 DEF WaitTimesOut, serverVars
    <2>3. \A u \in Txs : lease'[u] = "released" <=> lease[u] = "released"
      BY <2>1, <2>2 DEF TypeOK
    <2> QED BY <2>2, <2>3, Invisible
  <1>3. ASSUME NEW c \in Conns, PoolGrant(c) PROVE UNCHANGED Promise!vars
    <2>1. Head(waitq) \in Txs /\ lease[Head(waitq)] = "waiting"
      BY <1>1, <1>3, TailFacts DEF PoolGrant, LeaseBody, WaitOK, TypeOK
    <2>2. UNCHANGED <<pend, durable>> /\ lease' = [lease EXCEPT ![Head(waitq)] = "held"]
      BY <1>3 DEF PoolGrant, serverVars
    <2>3. \A u \in Txs : lease'[u] = "released" <=> lease[u] = "released"
      BY <2>1, <2>2 DEF TypeOK
    <2> QED BY <2>2, <2>3, Invisible
  <1>4. ASSUME NEW c \in Conns, Answer(c) PROVE [Promise!Next]_Promise!vars
    BY <1>1, <1>4, AnswerPromise
  <1>5. ASSUME NEW t \in ToolTxs,
               ExecInTx(t) \/ CleanupExpired(t) \/ Finish(t, "COMMIT") \/ Finish(t, "ROLLBACK")
        PROVE UNCHANGED Promise!vars
    BY <1>5, Invisible DEF ExecInTx, CleanupExpired, Finish, clientVars, serverVars
  <1>6. ASSUME NEW c \in Conns, NEW i \in DOMAIN queue[c], StmtTimesOut(c, i)
        PROVE UNCHANGED Promise!vars
    BY <1>6, Invisible DEF StmtTimesOut, clientVars, serverVars
  <1>7. CASE UNCHANGED vars
    BY <1>7, Invisible DEF vars, clientVars, serverVars
  <1> QED BY <1>2, <1>3, <1>4, <1>5, <1>6, <1>7, <1>8 DEF Next

\* For any pool size: to clients that use no handle after its end, the pooled engines are
\* an AtomicStore (until a deadlock ends a transaction behind its handle's back).
THEOREM PoolImplementsAtomicStore == Spec => ImplementsAtomicStore
  <1>1. Init => Promise!Init
    BY DEF Init, Promise!Init, PendingOf
  <1>2. TypeOK /\ LeaseInv /\ AnswerInv /\ [Next]_vars
          => [Promised' => [Promise!Next]_Promise!vars]_vars
    BY NextPromise
  <1>3. ImplementsAtomicStore
          <=> Promise!Init /\ [][Promised' => [Promise!Next]_Promise!vars]_vars
    BY DEF ImplementsAtomicStore
  <1> QED BY <1>1, <1>2, <1>3, AnswerInvariant, PTL DEF Spec

-----------------------------------------------------------------------------
(* Connections come back, whatever clients do: none of what follows supposes *)
(* that handles are ended once.                                              *)

\* The commands outstanding on a connection, whatever their order.
Sent(c) == {queue[c][i] : i \in 1..Len(queue[c])}

Coming(t) == t \in table \/ \E q \in Sent(conn[t]) : q.tx = t /\ Ends(q)
Kept(c) == idle[c] > 0 \/ \E t \in Txs : conn[t] = c /\ lease[t] \in {"held", "leaked"}

\* A handle that waits has no connection, one that holds or is in the table has; commands
\* go to their handle's connection; who holds one will end.
ReturnInv ==
  /\ WaitOK
  /\ \A c \in Conns : Kept(c) /\ \A q \in Sent(c) : conn[q.tx] = c
  /\ \A t \in Txs :
       /\ lease[t] \in {"unused", "waiting"} => conn[t] = NoConn
       /\ t \in table => conn[t] \in Conns
       /\ lease[t] = "held" => conn[t] \in Conns /\ Coming(t)

\* Outstanding commands are commands, of some handle.
LEMMA SentType ==
  ASSUME TypeOK, NEW c \in Conns
  PROVE  \A q \in Sent(c) : q \in Command /\ q.tx \in Txs /\ q.op \in Ops /\ q.by \in Callers
  <1> SUFFICES ASSUME NEW q \in Sent(c) PROVE q \in Command /\ q.tx \in Txs /\ q.op \in Ops /\ q.by \in Callers
    OBVIOUS
  <1>1. PICK i \in 1..Len(queue[c]) : q = queue[c][i]
    BY DEF Sent
  <1>2. q \in Command
    BY <1>1, QueueElement
  <1> QED BY <1>2 DEF Command

\* What appending a command, and taking the head, does to the commands outstanding.
LEMMA SentAppended ==
  ASSUME NEW r \in Seq(Command), NEW cmd \in Command, NEW c,
         queue'[c] = Append(r, cmd)
  PROVE  /\ Sent(c)' = {r[i] : i \in 1..Len(r)} \cup {cmd}
  <1>1. /\ Len(queue'[c]) = Len(r) + 1 /\ queue'[c][Len(r) + 1] = cmd
        /\ \A i \in 1..Len(r) : queue'[c][i] = r[i]
        /\ Len(r) \in Nat
    BY AppendFacts
  <1>2. ASSUME NEW i \in 1..Len(r) + 1
        PROVE  i = Len(r) + 1 \/ i \in 1..Len(r)
    BY <1>1
  <1>3. \A i \in 1..Len(r) : i \in 1..Len(r) + 1
    BY <1>1
  <1>4. Len(r) + 1 \in 1..Len(r) + 1
    BY <1>1
  <1> QED BY <1>1, <1>2, <1>3, <1>4 DEF Sent

LEMMA SentTail ==
  ASSUME TypeOK, NEW c \in Conns, queue[c] # << >>
  PROVE  LET rest == {Tail(queue[c])[i] : i \in 1..Len(Tail(queue[c]))} IN
         /\ Head(queue[c]) \in Sent(c) /\ Tail(queue[c]) \in Seq(Command)
         /\ rest \subseteq Sent(c) /\ Sent(c) \subseteq rest \cup {Head(queue[c])}
  <1> DEFINE n == Len(queue[c])
             tail == Tail(queue[c])
  <1>1. /\ Head(queue[c]) = queue[c][1] /\ n \in Nat /\ n >= 1
        /\ tail \in Seq(Command) /\ Len(tail) = n - 1
        /\ \A i \in 1..Len(tail) : tail[i] = queue[c][i + 1]
    BY TailFacts DEF TypeOK
  <1> HIDE DEF n, tail
  <1>2. \A i \in 1..Len(tail) : i + 1 \in 1..n
    BY <1>1
  <1>4. 1 \in 1..n
    BY <1>1
  <1>5. ASSUME NEW i \in 1..n, i # 1
        PROVE  \E j \in 1..Len(tail) : queue[c][i] = tail[j]
    <2>1. PICK j \in 1..Len(tail) : i = j + 1
      BY <1>1, <1>5
    <2>2. tail[j] = queue[c][i]
      BY <1>1, <2>1
    <2> QED BY <2>1, <2>2
  <1>6. Head(queue[c]) \in Sent(c)
    BY <1>1, <1>4 DEF Sent, n
  <1>7. \A i \in 1..Len(tail) : tail[i] \in Sent(c)
    BY <1>1, <1>2 DEF Sent, n
  <1>8. \A q \in Sent(c) : q = Head(queue[c]) \/ \E j \in 1..Len(tail) : q = tail[j]
    BY <1>1, <1>5 DEF Sent, n
  <1> QED BY <1>1, <1>6, <1>7, <1>8 DEF tail

\* A step on behalf of one handle t, on its connection c, that leaves the commands of the
\* others there: the invariant needs to be looked at for t and c only.
LEMMA StillReturns ==
  ASSUME TypeOK, ReturnInv, NEW c \in Conns, NEW t \in Txs, conn[t] = c,
         waitq' = waitq, conn' = conn,
         \A u \in Txs \ {t} : lease'[u] = lease[u] /\ (u \in table' <=> u \in table),
         \A d \in Conns \ {c} : queue'[d] = queue[d] /\ idle'[d] = idle[d],
         \A q \in Sent(c) : q.tx # t => q \in Sent(c)',
         \A q \in Sent(c)' : q \in Sent(c) \/ q.tx = t,
         lease'[t] \in {"held", "leaked", "released"} \/ lease'[t] = lease[t],
         lease'[t] = "held" => Coming(t)',
         \/ idle'[c] > 0
         \/ idle'[c] = idle[c] /\ (lease'[t] \in {"held", "leaked"} \/ lease'[t] = lease[t])
  PROVE  ReturnInv'
  <1>1. lease[t] \notin {"unused", "waiting"} /\ lease'[t] \notin {"unused", "waiting"}
    BY PoolAssumption DEF ReturnInv
  <1>2. WaitOK'
    <2>1. \A u \in Txs : lease[u] = "waiting" => lease'[u] = "waiting"
      BY <1>1
    <2> QED BY <2>1, StillWaits DEF ReturnInv
  <1>3. \A d \in Conns \ {c} : Sent(d)' = Sent(d)
    BY DEF Sent
  <1>4. ASSUME NEW d \in Conns PROVE Kept(d)'
    <2>1. CASE idle[d] > 0 /\ idle'[d] = idle[d]
      BY <2>1 DEF Kept
    <2>2. CASE idle'[c] > 0 /\ d = c
      BY <2>2 DEF Kept
    <2>3. ASSUME NEW u \in Txs, conn[u] = d, lease[u] \in {"held", "leaked"},
                 u # t \/ lease'[t] \in {"held", "leaked"} \/ lease'[t] = lease[t]
          PROVE  Kept(d)'
      BY <2>3 DEF Kept
    <2>4. Kept(d)
      BY DEF ReturnInv
    <2>5. CASE d # c
      <3>1. \A u \in Txs : conn[u] = d => u # t
        BY <2>5
      <3> QED BY <2>1, <2>3, <2>4, <2>5, <3>1 DEF Kept
    <2> QED BY <2>1, <2>2, <2>3, <2>4, <2>5 DEF Kept
  <1>5. ASSUME NEW d \in Conns, NEW q \in Sent(d)' PROVE conn'[q.tx] = d
    <2>1. CASE d # c
      BY <1>3, <2>1 DEF ReturnInv
    <2>2. CASE d = c
      BY <2>2 DEF ReturnInv
    <2> QED BY <2>1, <2>2
  <1>6. ASSUME NEW u \in Txs, lease'[u] = "held" PROVE conn'[u] \in Conns /\ Coming(u)'
    <2>1. CASE u = t
      BY <1>6, <2>1
    <2>2. CASE u # t
      <3>1. lease[u] = "held" /\ conn[u] \in Conns /\ Coming(u)
        BY <1>6, <2>2 DEF ReturnInv
      <3>2. \A q \in Sent(conn[u]) : q.tx = u => q \in Sent(conn[u])'
        BY <1>3, <2>2, <3>1
      <3> QED BY <2>2, <3>1, <3>2 DEF Coming
    <2> QED BY <2>1, <2>2
  <1>7. ASSUME NEW u \in Txs
        PROVE  /\ lease'[u] \in {"unused", "waiting"} => conn'[u] = NoConn
               /\ u \in table' => conn'[u] \in Conns
    BY <1>1 DEF ReturnInv
  <1> QED BY <1>2, <1>4, <1>5, <1>6, <1>7 DEF ReturnInv

\* A tool or the timer sends a command through a handle of the table: if the handle holds
\* its connection it stays in the table, or the command ends it.
LEMMA IssueReturns ==
  ASSUME TypeOK, ReturnInv, NEW t \in Txs, t \in table,
         NEW cmd \in Command, cmd.tx = t, Issue(conn[t], cmd),
         t \in table' \/ Ends(cmd),
         \A u \in Txs \ {t} : u \in table' <=> u \in table,
         UNCHANGED <<waitq, lease, conn, idle>>
  PROVE  ReturnInv'
  <1> DEFINE c == conn[t]
  <1>1. c \in Conns
    BY DEF ReturnInv
  <1>2. queue[c] \in Seq(Command) /\ queue' = [queue EXCEPT ![c] = Append(@, cmd)]
    BY <1>1 DEF Issue, TypeOK
  <1>3. /\ queue'[c] = Append(queue[c], cmd)
        /\ \A d \in Conns \ {c} : queue'[d] = queue[d]
    BY <1>1, <1>2 DEF TypeOK
  <1>4. Sent(c)' = Sent(c) \cup {cmd}
    BY <1>2, <1>3, SentAppended DEF Sent
  <1>5. Coming(t)'
    BY <1>1, <1>4 DEF Coming, Ends
  <1> QED BY <1>1, <1>3, <1>4, <1>5, StillReturns

\* The answered command leaves the queue, and its handler sends nothing: who holds the
\* connection is in the table, or another command will end it.
LEMMA PoppedReturns ==
  ASSUME TypeOK, ReturnInv, NEW c \in Conns, queue[c] # << >>, Answered(c),
         NEW t, t = Head(queue[c]).tx,
         \A u \in Txs \ {t} : lease'[u] = lease[u] /\ (u \in table' <=> u \in table),
         lease'[t] \in {"leaked", "released"} \/ (lease'[t] = lease[t] /\
            (t \in table' \/ (~Ends(Head(queue[c])) /\ (t \in table' <=> t \in table)))),
         waitq' = waitq, conn' = conn, \A d \in Conns \ {c} : idle'[d] = idle[d],
         \/ idle'[c] > 0
         \/ idle'[c] = idle[c] /\ lease'[t] # "released"
         \/ idle' = idle /\ lease' = lease
  PROVE  ReturnInv'
  <1> DEFINE cmd == Head(queue[c])
  <1>1. /\ cmd \in Sent(c) /\ Tail(queue[c]) \in Seq(Command)
        /\ queue'[c] = Tail(queue[c]) /\ \A d \in Conns \ {c} : queue'[d] = queue[d]
    BY SentTail DEF Answered, TypeOK
  <1>2. Sent(c)' \subseteq Sent(c) /\ Sent(c) \subseteq Sent(c)' \cup {cmd}
    <2>1. Sent(c)' = {Tail(queue[c])[i] : i \in 1..Len(Tail(queue[c]))}
      BY <1>1 DEF Sent
    <2> QED BY <2>1, SentTail
  <1>3. t \in Txs /\ conn[t] = c
    BY <1>1, SentType DEF ReturnInv
  <1> HIDE DEF cmd
  <1>4. ASSUME lease'[t] = "held" PROVE Coming(t)'
    <2>1. CASE t \in table'
      BY <2>1 DEF Coming
    <2>2. CASE ~Ends(cmd) /\ t \notin table'
      <3>1. lease[t] = "held" /\ t \notin table
        BY <1>4, <2>2
      <3>2. PICK q \in Sent(c) : q.tx = t /\ Ends(q)
        BY <1>3, <3>1 DEF ReturnInv, Coming
      <3>3. q # cmd
        BY <2>2, <3>2
      <3>4. q \in Sent(c)'
        BY <1>2, <3>2, <3>3
      <3> QED BY <1>3, <3>2, <3>4 DEF Coming, Ends
    <2> QED BY <1>4, <2>1, <2>2 DEF cmd
  <1> QED BY <1>1, <1>2, <1>3, <1>4, StillReturns DEF cmd

\* The answered command leaves the queue, and its handler sends the next one, which ends
\* the handle or leads to its end.
LEMMA PoppedThenReturns ==
  ASSUME TypeOK, ReturnInv, NEW c \in Conns, queue[c] # << >>,
         NEW next \in Command, next.tx = Head(queue[c]).tx, AnsweredThen(c, next), Ends(next),
         NEW t, t = next.tx,
         \A u \in Txs \ {t} : lease'[u] = lease[u],
         (lease'[t] = "released" /\ idle'[c] > 0) \/ (lease' = lease /\ idle' = idle),
         UNCHANGED <<waitq, conn, table>>, \A d \in Conns \ {c} : idle'[d] = idle[d]
  PROVE  ReturnInv'
  <1> DEFINE cmd == Head(queue[c])
             rest == {Tail(queue[c])[i] : i \in 1..Len(Tail(queue[c]))}
  <1>1. /\ cmd \in Sent(c) /\ Tail(queue[c]) \in Seq(Command)
        /\ queue'[c] = Append(Tail(queue[c]), next) /\ \A d \in Conns \ {c} : queue'[d] = queue[d]
    BY SentTail DEF AnsweredThen, TypeOK
  <1>2. Sent(c)' = rest \cup {next}
    BY <1>1, SentAppended
  <1>3. rest \subseteq Sent(c) /\ Sent(c) \subseteq rest \cup {cmd}
    BY SentTail
  <1>4. t \in Txs /\ conn[t] = c /\ cmd.tx = t
    BY <1>1, SentType DEF ReturnInv
  <1> HIDE DEF cmd, rest
  <1>5. Coming(t)'
    BY <1>2, <1>4 DEF Coming, Ends
  <1>6. /\ \A q \in Sent(c) : q.tx # t => q \in Sent(c)'
        /\ \A q \in Sent(c)' : q \in Sent(c) \/ q.tx = t
    BY <1>2, <1>3, <1>4
  <1> QED BY <1>1, <1>4, <1>5, <1>6, StillReturns

\* Every answer keeps the invariant.
LEMMA AnswerReturns ==
  ASSUME TypeOK, TypeOK', ReturnInv, NEW c \in Conns, Answer(c)
  PROVE  ReturnInv'
  <1> DEFINE cmd == Head(queue[c])
             t == cmd.tx
  <1>1. /\ queue[c] # << >> /\ cmd \in Command /\ t \in Txs /\ cmd.n \in Nat /\ conn[t] = c
    <2>1. cmd \in Sent(c) /\ queue[c] # << >>
      BY SentTail DEF Answer
    <2>2. cmd \in Command /\ t \in Txs /\ conn[t] = c
      BY <2>1, SentType DEF ReturnInv
    <2> QED BY <2>1, <2>2 DEF Command
  <1>2. \A n \in Nat : \A next \in AfterStatement(t, n) :
          next \in Command /\ next.tx = t /\ Ends(next)
    <2> SUFFICES ASSUME NEW n \in Nat, NEW next \in AfterStatement(t, n)
                 PROVE  next \in Command /\ next.tx = t /\ Ends(next)
      OBVIOUS
    <2>1. next \in Command /\ next.tx = t
      BY <1>1, NextCommandType
    <2>2. next.by = "batch"
      BY DEF AfterStatement, Cmd
    <2> QED BY <2>1, <2>2 DEF Ends
  <1>3. CatchCommand(t) \in Command /\ CatchCommand(t).tx = t /\ Ends(CatchCommand(t))
    BY <1>1, CatchCommandType DEF Ends
  <1> HIDE DEF cmd, t
  <1>4. CASE BeginOk(c, cmd)
    <2>1. UNCHANGED <<waitq, lease, conn, idle>>
      BY <1>4 DEF BeginOk
    <2>2. CASE cmd.by = "tool" /\ table' = table \cup {t} /\ Answered(c)
      BY <1>1, <2>1, <2>2, PoppedReturns DEF cmd, t
    <2>3. ASSUME NEW next \in AfterStatement(t, 0), AnsweredThen(c, next), table' = table
          PROVE  ReturnInv'
      BY <1>1, <1>2, <2>1, <2>3, PoppedThenReturns DEF cmd, t
    <2> QED BY <1>4, <2>2, <2>3 DEF BeginOk, t
  <1>5. CASE BeginFails(c, cmd)
    <2>1. Answered(c) /\ lease' = [lease EXCEPT ![t] = "leaked"] /\ UNCHANGED <<table, waitq, conn, idle>>
      BY <1>5 DEF BeginFails, t
    <2>2. lease'[t] = "leaked" /\ \A u \in Txs \ {t} : lease'[u] = lease[u]
      BY <1>1, <2>1 DEF TypeOK
    <2> QED BY <1>1, <2>1, <2>2, PoppedReturns DEF cmd, t
  <1>6. CASE StmtOk(c, cmd) \/ StmtFails(c, cmd)
    <2>1. cmd.op = "STMT" /\ UNCHANGED <<table, waitq, lease, conn, idle>>
      BY <1>6 DEF StmtOk, StmtFails, clientVars
    <2>2. CASE cmd.by # "batch" /\ Answered(c)
      BY <1>1, <2>1, <2>2, PoppedReturns DEF cmd, t, Ends
    <2>3. ASSUME NEW next \in AfterStatement(t, cmd.n) \cup {CatchCommand(t)}, AnsweredThen(c, next)
          PROVE  ReturnInv'
      <3>1. next \in Command /\ next.tx = t /\ Ends(next)
        BY <1>1, <1>2, <1>3
      <3> QED BY <1>1, <2>1, <2>3, <3>1, PoppedThenReturns DEF cmd, t
    <2> QED BY <1>6, <2>2, <2>3 DEF StmtOk, StmtFails, t
  <1>7. CASE CommitOk(c, cmd) \/ CommitFails(c, cmd) \/ RollbackOk(c, cmd)
    <2>1. PICK ok, answer : EndOfTx(c, cmd, ok, answer)
      BY <1>7 DEF CommitOk, CommitFails, RollbackOk
    <2>2. PICK resolved \in BOOLEAN : Conclude(c, cmd, resolved, answer)
      BY <2>1 DEF EndOfTx
    <2>3. /\ idle' = Freed(c) /\ lease' = [lease EXCEPT ![t] = "released"]
          /\ UNCHANGED <<waitq, conn>>
      BY <2>1 DEF EndOfTx, t
    <2>4. /\ lease'[t] = "released" /\ \A u \in Txs \ {t} : lease'[u] = lease[u]
          /\ idle'[c] > 0 /\ \A d \in Conns \ {c} : idle'[d] = idle[d]
      BY <1>1, <2>3 DEF Freed, TypeOK
    <2>5. CASE Answered(c) /\ \A u \in Txs \ {t} : u \in table' <=> u \in table
      BY <1>1, <2>3, <2>4, <2>5, PoppedReturns DEF cmd, t
    <2>6. CASE AnsweredThen(c, CatchCommand(t)) /\ table' = table
      <3>1. PICK next : next = CatchCommand(t)
        OBVIOUS
      <3>2. next \in Command /\ next.tx = t /\ Ends(next) /\ AnsweredThen(c, next)
        BY <1>3, <2>6, <3>1 DEF Ends, AnsweredThen
      <3>3. next.tx = Head(queue[c]).tx
        BY <3>2 DEF cmd, t
      <3>4. queue[c] # << >> /\ UNCHANGED <<waitq, conn, table>>
        BY <1>1, <2>3, <2>6
      <3> QED BY <2>4, <3>2, <3>3, <3>4, PoppedThenReturns
    <2> QED BY <2>2, <2>5, <2>6 DEF Conclude, TableAfterFinish, t
  <1> QED BY <1>4, <1>5, <1>6, <1>7 DEF Answer, cmd

\* A statement that times out stays on the wire; if it is a batch's, the ROLLBACK of the
\* catch block follows it.
LEMMA TimeoutReturns ==
  ASSUME TypeOK, ReturnInv, NEW c \in Conns, NEW i \in 1..Len(queue[c]), StmtTimesOut(c, i)
  PROVE  ReturnInv'
  <1>0. PICK cmd, t : cmd = queue[c][i] /\ t = cmd.tx
    OBVIOUS
  <1> DEFINE orphan == [cmd EXCEPT !.by = "nobody"]
             left == [queue[c] EXCEPT ![i] = orphan]
  <1>1. /\ cmd \in Command /\ cmd.op = "STMT" /\ t \in Txs /\ conn[t] = c /\ cmd \in Sent(c)
    <2>1. cmd \in Sent(c)
      BY <1>0 DEF Sent
    <2> QED BY <1>0, <2>1, SentType DEF StmtTimesOut, ReturnInv
  <1>2. orphan \in Command /\ orphan.tx = t
    BY <1>0, <1>1 DEF Command, Callers
  <1>3. /\ queue[c] \in Seq(Command) /\ left \in Seq(Command) /\ Len(left) = Len(queue[c])
        /\ left[i] = orphan /\ \A j \in 1..Len(left) : j # i => left[j] = queue[c][j]
    <2>1. queue[c] \in Seq(Command)
      BY DEF TypeOK
    <2> HIDE DEF orphan
    <2> QED BY <1>2, <2>1
  <1>4. /\ UNCHANGED <<table, waitq, lease, conn, idle>>
        /\ \/ cmd.by = "batch" /\ queue' = [queue EXCEPT ![c] = Append(left, CatchCommand(t))]
           \/ cmd.by # "batch" /\ queue' = [queue EXCEPT ![c] = left]
    <2> DEFINE orphaned == [queue EXCEPT ![c][i].by = "nobody"]
    <2>1. orphaned = [queue EXCEPT ![c] = left]
      BY <1>0
    <2>2. orphaned[c] = left
      BY <2>1 DEF TypeOK
    <2> HIDE DEF left
    <2>3. [orphaned EXCEPT ![c] = Append(@, CatchCommand(t))]
            = [queue EXCEPT ![c] = Append(left, CatchCommand(t))]
      BY <2>1, <2>2 DEF TypeOK
    <2> QED BY <1>0, <2>1, <2>3 DEF StmtTimesOut, clientVars
  <1> DEFINE rest == {left[j] : j \in 1..Len(left)}
  <1>5. /\ \A q \in Sent(c) : q = cmd \/ q \in rest
        /\ \A q \in rest : q \in Sent(c) \/ q.tx = t
    <2> HIDE DEF left, orphan
    <2>1. \A j \in 1..Len(queue[c]) : queue[c][j] = cmd \/ queue[c][j] = left[j]
      BY <1>0, <1>3
    <2> QED BY <1>2, <1>3, <2>1 DEF Sent
  <1>6. CatchCommand(t) \in Command /\ CatchCommand(t).tx = t /\ CatchCommand(t).op = "ROLLBACK"
    BY <1>1, CatchCommandType
  <1> HIDE DEF left, rest
  <1>7. Sent(c)' = rest \/ (cmd.by = "batch" /\ Sent(c)' = rest \cup {CatchCommand(t)})
    <2>1. CASE queue'[c] = left
      BY <2>1 DEF Sent, rest
    <2>2. CASE cmd.by = "batch" /\ queue'[c] = Append(left, CatchCommand(t))
      BY <1>3, <1>6, <2>2, SentAppended DEF rest
    <2> QED BY <1>4, <2>1, <2>2 DEF TypeOK
  <1>8. cmd.by = "batch" => CatchCommand(t) \in Sent(c)'
    <2> SUFFICES ASSUME cmd.by = "batch" PROVE CatchCommand(t) \in Sent(c)'
      OBVIOUS
    <2>1. queue'[c] = Append(left, CatchCommand(t))
      BY <1>4 DEF TypeOK
    <2> QED BY <1>3, <1>6, <2>1, SentAppended
  <1>9. ASSUME lease[t] = "held" PROVE Coming(t)'
    <2>1. CASE cmd.by = "batch"
      BY <1>1, <1>4, <1>6, <1>8, <2>1 DEF Coming, Ends
    <2>2. CASE cmd.by # "batch"
      <3>1. t \in table \/ \E q \in Sent(c) : q.tx = t /\ Ends(q)
        BY <1>1, <1>9 DEF ReturnInv, Coming
      <3>2. ~Ends(cmd)
        BY <1>1, <2>2 DEF Ends
      <3>3. \A q \in Sent(c) : Ends(q) => q \in Sent(c)'
        BY <1>5, <1>7, <3>2
      <3> QED BY <1>1, <1>4, <3>1, <3>3 DEF Coming, Ends
    <2> QED BY <2>1, <2>2
  <1>10. /\ \A q \in Sent(c) : q.tx # t => q \in Sent(c)'
         /\ \A q \in Sent(c)' : q \in Sent(c) \/ q.tx = t
    <2>1. \A q \in rest \cup {CatchCommand(t)} : q \in Sent(c) \/ q.tx = t
      BY <1>5, <1>6
    <2>2. rest \subseteq Sent(c)' /\ Sent(c)' \subseteq rest \cup {CatchCommand(t)}
      BY <1>7
    <2>3. \A q \in Sent(c) : q.tx # t => q \in rest
      BY <1>0, <1>5
    <2> QED BY <2>1, <2>2, <2>3
  <1>11. \A d \in Conns \ {c} : queue'[d] = queue[d]
    BY <1>4 DEF TypeOK
  <1> QED BY <1>1, <1>4, <1>9, <1>10, <1>11, StillReturns

\* A caller of beginTransaction waits, gives up or is lent a free connection.
LEMMA WaitingReturns ==
  ASSUME TypeOK, TypeOK', ReturnInv, WaitOK', NEW t \in Txs,
         lease[t] \in {"unused", "waiting"}, lease'[t] \in {"waiting", "refused"},
         \A u \in Txs \ {t} : lease'[u] = lease[u],
         UNCHANGED <<table, conn, idle, queue>>
  PROVE  ReturnInv'
  <1>1. conn[t] = NoConn
    BY DEF ReturnInv
  <1>2. \A c \in Conns : Sent(c)' = Sent(c)
    BY DEF Sent
  <1>3. ASSUME NEW c \in Conns PROVE Kept(c)'
    <2>1. \A u \in Txs : conn[u] = c => u # t
      BY <1>1, PoolAssumption
    <2>2. Kept(c)
      BY DEF ReturnInv
    <2> QED BY <2>1, <2>2 DEF Kept
  <1>4. ASSUME NEW u \in Txs, lease'[u] = "held" PROVE conn[u] \in Conns /\ Coming(u)'
    <2>1. lease[u] = "held" /\ conn[u] \in Conns /\ Coming(u)
      BY <1>4 DEF ReturnInv
    <2> QED BY <1>2, <2>1 DEF Coming
  <1>5. ASSUME NEW u \in Txs
        PROVE  /\ lease'[u] \in {"unused", "waiting"} => conn[u] = NoConn
               /\ u \in table => conn[u] \in Conns
    BY <1>1 DEF ReturnInv
  <1> QED BY <1>2, <1>3, <1>4, <1>5 DEF ReturnInv

LEMMA GrantReturns ==
  ASSUME TypeOK, TypeOK', ReturnInv, NEW c \in Conns, PoolGrant(c)
  PROVE  ReturnInv'
  <1>1. PICK t, cmd : t = Head(waitq) /\ cmd = Cmd("BEGIN", t, IF t \in ToolTxs THEN "tool" ELSE "batch", 0)
    OBVIOUS
  <1>2. t \in Txs /\ lease[t] = "waiting" /\ conn[t] = NoConn /\ t \notin table
    <2>1. t \in Txs /\ lease[t] = "waiting"
      BY <1>1, TailFacts DEF PoolGrant, ReturnInv, WaitOK, TypeOK
    <2> QED BY <2>1, PoolAssumption DEF ReturnInv
  <1>3. cmd \in Command /\ cmd.tx = t /\ Ends(cmd)
    BY <1>1, <1>2, CmdType DEF Ops, Callers, Ends
  <1>4. /\ queue' = [queue EXCEPT ![c] = Append(@, cmd)]
        /\ lease' = [lease EXCEPT ![t] = "held"] /\ conn' = [conn EXCEPT ![t] = c]
        /\ idle' = [idle EXCEPT ![c] = @ - 1] /\ table' = table
    BY <1>1 DEF PoolGrant, Issue, Taken
  <1>5. /\ lease'[t] = "held" /\ conn'[t] = c
        /\ \A u \in Txs \ {t} : lease'[u] = lease[u] /\ conn'[u] = conn[u]
        /\ \A d \in Conns \ {c} : queue'[d] = queue[d] /\ idle'[d] = idle[d]
        /\ queue[c] \in Seq(Command) /\ queue'[c] = Append(queue[c], cmd)
    BY <1>2, <1>4 DEF TypeOK
  <1>6. /\ Sent(c)' = Sent(c) \cup {cmd}
        /\ \A d \in Conns \ {c} : Sent(d)' = Sent(d)
    <2>1. Sent(c)' = {queue[c][i] : i \in 1..Len(queue[c])} \cup {cmd}
      BY <1>3, <1>5, SentAppended
    <2>2. ASSUME NEW d \in Conns \ {c} PROVE Sent(d)' = Sent(d)
      BY <1>5 DEF Sent
    <2> QED BY <2>1, <2>2 DEF Sent
  <1>7. WaitOK'
    BY GrantWaits DEF ReturnInv
  <1>8. ASSUME NEW d \in Conns PROVE Kept(d)'
    <2>1. CASE d = c
      BY <1>2, <1>5, <2>1 DEF Kept
    <2>2. CASE d # c
      <3>1. \A u \in Txs : conn[u] = d => u # t
        BY <1>2, PoolAssumption
      <3>2. Kept(d)
        BY DEF ReturnInv
      <3> QED BY <1>5, <2>2, <3>1, <3>2 DEF Kept
    <2> QED BY <2>1, <2>2
  <1>9. ASSUME NEW d \in Conns, NEW q \in Sent(d)' PROVE conn'[q.tx] = d
    <2>1. CASE q \in Sent(d)
      <3>1. q.tx \in Txs /\ conn[q.tx] = d
        BY <2>1, SentType DEF ReturnInv
      <3> QED BY <1>2, <1>5, <3>1, PoolAssumption
    <2>2. CASE d = c /\ q = cmd
      BY <1>3, <1>5, <2>2
    <2> QED BY <1>6, <2>1, <2>2
  <1>10. ASSUME NEW u \in Txs, lease'[u] = "held" PROVE conn'[u] \in Conns /\ Coming(u)'
    <2>1. CASE u = t
      BY <1>3, <1>5, <1>6, <2>1 DEF Coming, Ends
    <2>2. CASE u # t
      <3>1. lease[u] = "held" /\ conn[u] \in Conns /\ Coming(u)
        BY <1>5, <1>10, <2>2 DEF ReturnInv
      <3> QED BY <1>4, <1>5, <1>6, <2>2, <3>1 DEF Coming
    <2> QED BY <2>1, <2>2
  <1>11. ASSUME NEW u \in Txs
         PROVE  /\ lease'[u] \in {"unused", "waiting"} => conn'[u] = NoConn
                /\ u \in table' => conn'[u] \in Conns
    BY <1>2, <1>4, <1>5 DEF ReturnInv
  <1> QED BY <1>7, <1>8, <1>9, <1>10, <1>11 DEF ReturnInv

\* Every step keeps the invariant.
LEMMA NextReturns == TypeOK /\ ReturnInv /\ [Next]_vars => ReturnInv'
  <1> SUFFICES ASSUME TypeOK, ReturnInv, [Next]_vars PROVE ReturnInv'
    OBVIOUS
  <1>1. TypeOK'
    BY NextType
  <1>2. ASSUME NEW t \in Txs, CallBegin(t) PROVE ReturnInv'
    <2>1. WaitOK'
      BY <1>2, CallBeginWaits DEF ReturnInv
    <2>2. /\ lease[t] = "unused" /\ lease'[t] = "waiting"
          /\ \A u \in Txs \ {t} : lease'[u] = lease[u]
          /\ UNCHANGED <<table, conn, idle, queue>>
      BY <1>2 DEF CallBegin, TypeOK
    <2> QED BY <1>1, <2>1, <2>2, WaitingReturns
  <1>3. ASSUME NEW i \in DOMAIN waitq, WaitTimesOut(i) PROVE ReturnInv'
    <2>1. i \in 1..Len(waitq)
      BY DEF TypeOK
    <2>2. WaitOK'
      BY <1>3, <2>1, WaitTimesOutWaits DEF ReturnInv
    <2>3. PICK t \in Txs : t = waitq[i] /\ lease[t] = "waiting"
      BY <2>1 DEF ReturnInv, WaitOK, TypeOK
    <2>4. /\ lease'[t] = "refused" /\ \A u \in Txs \ {t} : lease'[u] = lease[u]
          /\ UNCHANGED <<table, conn, idle, queue>>
      BY <1>3, <2>3 DEF WaitTimesOut, TypeOK
    <2> QED BY <1>1, <2>2, <2>3, <2>4, WaitingReturns
  <1>4. ASSUME NEW c \in Conns, PoolGrant(c) PROVE ReturnInv'
    BY <1>1, <1>4, GrantReturns
  <1>5. ASSUME NEW c \in Conns, Answer(c) PROVE ReturnInv'
    BY <1>1, <1>5, AnswerReturns
  <1>6. ASSUME NEW t \in ToolTxs, ExecInTx(t) PROVE ReturnInv'
    <2>1. PICK cmd : cmd = Cmd("STMT", t, "tool", sent[t] + 1)
      OBVIOUS
    <2>2. t \in Txs /\ t \in table /\ sent[t] + 1 \in Nat
      BY <1>6 DEF ExecInTx, Txs, TypeOK
    <2>3. cmd \in Command /\ cmd.tx = t
      BY ONLY <2>1, <2>2, CmdType DEF Ops, Callers
    <2>4. Issue(conn[t], cmd) /\ UNCHANGED <<table, waitq, lease, conn, idle>>
      BY <2>1, <1>6 DEF ExecInTx
    <2> QED BY <2>2, <2>3, <2>4, IssueReturns
  <1>7. ASSUME NEW t \in ToolTxs, NEW op \in {"COMMIT", "ROLLBACK"}, Finish(t, op) PROVE ReturnInv'
    <2>1. PICK cmd : cmd = Cmd(op, t, "tool", 0)
      OBVIOUS
    <2>2. t \in Txs /\ t \in table
      BY <1>7 DEF Finish, Txs
    <2>3. cmd \in Command /\ cmd.tx = t
      BY <2>1, <2>2, CmdType DEF Ops, Callers
    <2>4. Issue(conn[t], cmd) /\ UNCHANGED <<table, waitq, lease, conn, idle>>
      BY <2>1, <1>7 DEF Finish, clientVars
    <2> QED BY <2>2, <2>3, <2>4, IssueReturns
  <1>8. ASSUME NEW t \in ToolTxs, CleanupExpired(t) PROVE ReturnInv'
    <2>1. PICK cmd : cmd = Cmd("ROLLBACK", t, "timer", 0)
      OBVIOUS
    <2>2. t \in Txs /\ t \in table
      BY <1>8 DEF CleanupExpired, Txs
    <2>3. cmd \in Command /\ cmd.tx = t /\ Ends(cmd)
      BY <2>1, <2>2, CmdType DEF Ops, Callers, Ends
    <2>4. /\ Issue(conn[t], cmd) /\ UNCHANGED <<waitq, lease, conn, idle>>
          /\ \A u \in Txs \ {t} : u \in table' <=> u \in table
      BY <2>1, <1>8 DEF CleanupExpired
    <2> QED BY <2>2, <2>3, <2>4, IssueReturns
  <1>9. ASSUME NEW c \in Conns, NEW i \in DOMAIN queue[c], StmtTimesOut(c, i) PROVE ReturnInv'
    <2>1. i \in 1..Len(queue[c])
      BY DEF TypeOK
    <2> QED BY <1>9, <2>1, TimeoutReturns
  <1>10. CASE UNCHANGED vars
    BY <1>10 DEF vars, clientVars, serverVars, history, ReturnInv, WaitOK, Kept, Sent, Coming
  <1> QED BY <1>2, <1>3, <1>4, <1>5, <1>6, <1>7, <1>8, <1>9, <1>10 DEF Next

\* Whatever clients do, and whatever the server refuses: a connection that is not free is
\* held or was leaked, and whoever holds one will give it back.
THEOREM ConnectionsComeBack == Spec => []ConnectionsReturn
  <1>1. Init => ReturnInv
    BY PoolAssumption DEF Init, ReturnInv, WaitOK, Kept, Sent
  <1>2. TypeOK /\ ReturnInv => ConnectionsReturn
    <2> SUFFICES ASSUME TypeOK, ReturnInv PROVE ConnectionsReturn
      OBVIOUS
    <2>1. ASSUME NEW t \in Txs, lease[t] = "held", t \notin table
          PROVE  \E i \in 1..Len(queue[conn[t]]) :
                   queue[conn[t]][i].tx = t /\ Ends(queue[conn[t]][i])
      <3>1. PICK q \in Sent(conn[t]) : q.tx = t /\ Ends(q)
        BY <2>1 DEF ReturnInv, Coming
      <3> QED BY <3>1 DEF Sent
    <2> QED BY <2>1 DEF ReturnInv, Kept, ConnectionsReturn
  <1>3. TypeOK /\ ReturnInv /\ [Next]_vars => (TypeOK /\ ReturnInv)'
    BY NextType, NextReturns
  <1> QED BY <1>1, <1>2, <1>3, InitType, PTL DEF Spec
=============================================================================
