------------------------------- MODULE RingLog -------------------------------
(* The ring buffers that keep the most recent records: the audit log of      *)
(* src/core/audit.ts (1000 entries) and QueryHistory of                      *)
(* src/core/query-replay.ts (DB_REPLAY_BUFFER_SIZE records).  Both use the   *)
(* same head and count arithmetic; QueryHistory also numbers its records and *)
(* looks them up by number.                                                  *)
EXTENDS Integers, Sequences

CONSTANTS
  MaxSize,     \* MAX_BUFFER_SIZE, the constructor's maxSize
  Records,     \* what is recorded
  MaxPushes    \* bound: records pushed

ASSUME RingAssumption == MaxSize \in Nat \ {0} /\ MaxPushes \in Nat

VARIABLES
  buffer,   \* the array; Empty where it was never written
  head,     \* auditHead, this.head
  count,    \* auditCount, this.count
  counter,  \* this.counter: number of the last record
  pushed    \* history: every record ever pushed, in order

vars == <<buffer, head, count, counter, pushed>>

Slots == 0..MaxSize - 1
Empty == [id |-> 0]
Entry(id, record) == [id |-> id, record |-> record]

Init ==
  /\ buffer = [i \in Slots |-> Empty]
  /\ head = 0 /\ count = 0 /\ counter = 0
  /\ pushed = << >>

\* Indices wrap around at the end of the array.
Wrap(i) == i % MaxSize

\* Faulty variant: the head stays when the oldest entry is overwritten.
HeadStays(h, n) == h

\* Where the next record goes, and where the oldest one is after that.
TailIndex(h, n) == Wrap(h + n)
NextHead(h, n) == IF n = MaxSize THEN Wrap(h + 1) ELSE h

\* ringPush and QueryHistory.push.
Push(record) ==
  /\ counter < MaxPushes
  /\ counter' = counter + 1
  /\ buffer' = [buffer EXCEPT ![TailIndex(head, count)] = Entry(counter + 1, record)]
  /\ head' = NextHead(head, count)
  /\ count' = IF count = MaxSize THEN count ELSE count + 1
  /\ pushed' = Append(pushed, record)

Next == \E record \in Records : Push(record)

Spec == Init /\ [][Next]_vars

-----------------------------------------------------------------------------
(* The readers.                                                              *)

\* The i-th entry from the oldest, i = 0, 1, ...
At(i) == buffer[Wrap(head + i)]

\* ringSlice(limit) and list(limit) for a limit of at least 0.
Slice(limit) ==
  LET n == IF limit < count THEN limit ELSE count
      start == count - n
  IN  [i \in 1..n |-> At(start + i - 1)]

\* getById: the first match from the oldest entry on, or none.
Matches(id) == {i \in 0..count - 1 : At(i).id = id}
GetById(id) ==
  IF Matches(id) = {} THEN Empty
  ELSE At(CHOOSE i \in Matches(id) : \A j \in Matches(id) : i <= j)

-----------------------------------------------------------------------------
(* Properties.                                                               *)

\* head and count stay indices of the array, the array keeps its slots.
TypeOK ==
  /\ head \in Slots /\ count \in 0..MaxSize /\ counter \in 0..MaxPushes
  /\ DOMAIN buffer = Slots
  /\ pushed \in Seq(Records) /\ Len(pushed) = counter

\* The last entries of everything pushed, oldest first.
Newest(n) == [i \in 1..n |-> Entry(Len(pushed) - n + i, pushed[Len(pushed) - n + i])]

\* The buffer holds exactly the newest records, as many as fit, in order; through
\* any number of wrap-arounds.
KeepsNewest ==
  /\ count = (IF Len(pushed) < MaxSize THEN Len(pushed) ELSE MaxSize)
  /\ \A i \in 1..count : At(i - 1) = Newest(count)[i]

\* ringSlice and list answer the newest records, oldest first, for every limit.
SliceAnswersNewest ==
  \A limit \in 0..MaxSize + 1 :
    Slice(limit) = Newest(IF limit < count THEN limit ELSE count)

\* getById finds a record exactly while it is among the newest that fit, and never
\* another record under its number, though slots are reused.
GetByIdFinds ==
  \A id \in 1..MaxPushes :
    GetById(id) = IF id <= Len(pushed) /\ id > Len(pushed) - MaxSize
                  THEN Entry(id, pushed[id]) ELSE Empty

\* All readers together: what the audit log and the query history tell.
RingTellsNewest == KeepsNewest /\ SliceAnswersNewest /\ GetByIdFinds
=============================================================================
