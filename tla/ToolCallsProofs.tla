-------------------------- MODULE ToolCallsProofs --------------------------
(* Proofs about RingLog and ToolCalls, for any calls, operations and limits:  *)
(* the ring, alone and as the audit log; what the log tells, what the metrics *)
(* count and when alerts are sent are invariants which share only the types.  *)
EXTENDS ToolCalls, FiniteSetTheorems, TLAPS

-----------------------------------------------------------------------------
(* The ring alone.                                                           *)

\* What Wrap does to a sum of two indices.
LEMMA WrapFacts ==
  ASSUME NEW x \in Int, 0 <= x, x < 2 * MaxSize
  PROVE  /\ x < MaxSize => Wrap(x) = x
         /\ x >= MaxSize => Wrap(x) = x - MaxSize
         /\ Wrap(x) \in 0..MaxSize - 1
  BY RingAssumption DEF Wrap

\* What the i-th entry from the oldest is, and that the head has not moved before
\* the buffer filled up.
RingInv ==
  /\ TypeOK
  /\ count = (IF counter < MaxSize THEN counter ELSE MaxSize)
  /\ count < MaxSize => head = 0
  /\ \A i \in 0..count - 1 :
       At(i) = Entry(counter - count + i + 1, pushed[counter - count + i + 1])

\* The empty buffer satisfies it.
LEMMA InitRing == Init => RingInv
  <1> SUFFICES ASSUME Init PROVE RingInv
    OBVIOUS
  <1>1. TypeOK
    BY RingAssumption DEF Init, TypeOK, Slots
  <1> QED BY <1>1, RingAssumption DEF Init, RingInv

\* One push: the new record is the newest, the others keep their order, and the
\* oldest is dropped exactly when the buffer is full.
LEMMA PushRing ==
  ASSUME RingInv, NEW record \in Records, Push(record)
  PROVE  RingInv'
  <1> DEFINE tail == TailIndex(head, count)
             new == Entry(counter + 1, record)
  <1>1. /\ MaxSize \in Nat \ {0} /\ MaxPushes \in Nat /\ counter \in Nat /\ counter < MaxPushes
        /\ head \in 0..MaxSize - 1 /\ count \in 0..MaxSize /\ DOMAIN buffer = 0..MaxSize - 1
        /\ pushed \in Seq(Records) /\ Len(pushed) = counter
    BY RingAssumption DEF RingInv, TypeOK, Slots, Push
  <1>2. /\ counter' = counter + 1 /\ buffer' = [buffer EXCEPT ![tail] = new]
        /\ head' = NextHead(head, count)
        /\ count' = IF count = MaxSize THEN count ELSE count + 1
        /\ pushed' = Append(pushed, record)
    BY DEF Push
  <1>3. /\ pushed' \in Seq(Records) /\ Len(pushed') = counter + 1
        /\ pushed'[counter + 1] = record
        /\ \A k \in 1..counter : pushed'[k] = pushed[k]
    BY <1>1, <1>2
  <1>4. tail \in 0..MaxSize - 1 /\ Wrap(head + 1) \in 0..MaxSize - 1
    BY <1>1, WrapFacts DEF TailIndex
  <1>5. TypeOK'
    BY <1>1, <1>2, <1>3, <1>4 DEF TypeOK, Slots, NextHead
  <1>6. buffer'[tail] = new /\ \A k \in (0..MaxSize - 1) \ {tail} : buffer'[k] = buffer[k]
    BY <1>1, <1>2, <1>4
  <1>7. CASE count < MaxSize
    <2>1. head = 0 /\ count = counter /\ head' = 0 /\ count' = counter + 1
      BY <1>1, <1>2, <1>7 DEF RingInv, NextHead
    <2>2. tail = count
      BY <1>1, <1>7, <2>1, WrapFacts DEF TailIndex
    <2>3. ASSUME NEW i \in 0..count' - 1
          PROVE  At(i)' = Entry(i + 1, pushed'[i + 1])
      <3>1. i \in 0..MaxSize - 1 /\ Wrap(head' + i) = i /\ Wrap(head + i) = i
        BY <1>1, <1>7, <2>1, WrapFacts
      <3>2. At(i)' = buffer'[i] /\ At(i) = buffer[i]
        BY <3>1 DEF At
      <3>3. CASE i = count
        BY <1>3, <1>6, <2>1, <2>2, <3>2, <3>3 DEF Entry
      <3>4. CASE i < count
        <4>1. At(i) = Entry(i + 1, pushed[i + 1]) /\ i + 1 \in 1..counter
          BY <1>1, <2>1, <3>4 DEF RingInv
        <4>2. buffer'[i] = buffer[i]
          BY <1>6, <2>2, <3>1, <3>4
        <4> QED BY <1>3, <3>2, <4>1, <4>2
      <3> QED BY <1>1, <2>1, <3>3, <3>4
    <2>4. counter' - count' = 0
      BY <1>1, <1>2, <2>1
    <2>5. count' = IF counter' < MaxSize THEN counter' ELSE MaxSize
      BY <1>1, <1>2, <1>7, <2>1
    <2>6. \A i \in 0..count' - 1 :
            At(i)' = Entry(counter' - count' + i + 1, pushed'[counter' - count' + i + 1])
      BY <1>1, <2>1, <2>3, <2>4
    <2> QED BY <1>5, <2>1, <2>5, <2>6 DEF RingInv
  <1>8. CASE count = MaxSize
    <2>1. /\ counter >= MaxSize /\ count' = MaxSize /\ head' = Wrap(head + 1)
      BY <1>1, <1>2, <1>8 DEF RingInv, NextHead
    <2>2. tail = head
      BY <1>1, <1>8, WrapFacts DEF TailIndex
    <2>3. ASSUME NEW i \in 0..MaxSize - 1
          PROVE  At(i)' = Entry(counter - MaxSize + i + 2, pushed'[counter - MaxSize + i + 2])
      <3> DEFINE k == Wrap(head' + i)
      <3>1. CASE i = MaxSize - 1
        <4>1. k = head
          <5>1. CASE head + 1 < MaxSize
            BY <1>1, <2>1, <3>1, <5>1, WrapFacts
          <5>2. CASE head + 1 = MaxSize
            BY <1>1, <2>1, <3>1, <5>2, WrapFacts
          <5> QED BY <1>1, <5>1, <5>2
        <4>2. counter - MaxSize + i + 2 = counter + 1
          BY <1>1, <3>1
        <4> QED BY <1>3, <1>6, <2>2, <4>1, <4>2 DEF At, Entry
      <3>2. CASE i < MaxSize - 1
        <4>1. k = Wrap(head + (i + 1)) /\ k # head /\ k \in 0..MaxSize - 1
          <5>1. CASE head + 1 < MaxSize
            <6>1. head' = head + 1
              BY <1>1, <2>1, <5>1, WrapFacts
            <6> QED BY <1>1, <3>2, <6>1, WrapFacts
          <5>2. CASE head + 1 = MaxSize
            <6>1. head' = 0
              BY <1>1, <2>1, <5>2, WrapFacts
            <6>2. k = i
              BY <1>1, <3>2, <6>1, WrapFacts
            <6>3. Wrap(head + (i + 1)) = i
              BY <1>1, <3>2, <5>2, WrapFacts
            <6> QED BY <1>1, <3>2, <5>2, <6>2, <6>3
          <5> QED BY <1>1, <5>1, <5>2
        <4>2. At(i)' = At(i + 1)
          BY <1>6, <2>2, <4>1 DEF At
        <4>3. At(i + 1) = Entry(counter - MaxSize + (i + 1) + 1, pushed[counter - MaxSize + (i + 1) + 1])
          BY <1>1, <1>8, <3>2 DEF RingInv
        <4>4. /\ counter - MaxSize + (i + 1) + 1 = counter - MaxSize + i + 2
              /\ counter - MaxSize + i + 2 \in 1..counter
          BY <1>1, <2>1, <3>2
        <4> QED BY <1>3, <4>2, <4>3, <4>4
      <3> QED BY <1>1, <3>1, <3>2
    <2>4. \A i \in 0..count' - 1 :
            At(i)' = Entry(counter' - count' + i + 1, pushed'[counter' - count' + i + 1])
      <3>1. \A i \in 0..MaxSize - 1 : counter' - count' + i + 1 = counter - MaxSize + i + 2
        BY <1>1, <1>2, <2>1
      <3> QED BY <2>1, <2>3, <3>1
    <2>5. count' = (IF counter' < MaxSize THEN counter' ELSE MaxSize) /\ ~(count' < MaxSize)
      BY <1>1, <1>2, <2>1
    <2> QED BY <1>5, <2>4, <2>5 DEF RingInv
  <1> QED BY <1>1, <1>7, <1>8

\* It holds in every reachable state.
THEOREM RingInvariant == Spec => []RingInv
  <1>1. RingInv /\ [Next]_vars => RingInv'
    <2> SUFFICES ASSUME RingInv, [Next]_vars PROVE RingInv'
      OBVIOUS
    <2>1. ASSUME NEW record \in Records, Push(record) PROVE RingInv'
      BY <2>1, PushRing
    <2>2. CASE UNCHANGED vars
      BY <2>2 DEF vars, RingInv, TypeOK, At
    <2> QED BY <2>1, <2>2 DEF Next
  <1> QED BY <1>1, InitRing, PTL DEF Spec

\* The buffer of the invariant holds the newest records in order.
LEMMA InvKeepsNewest == RingInv => KeepsNewest
  <1> SUFFICES ASSUME RingInv PROVE KeepsNewest
    OBVIOUS
  <1>1. /\ counter \in Nat /\ count \in Nat /\ Len(pushed) = counter
        /\ MaxSize \in Nat \ {0}
        /\ count = (IF counter < MaxSize THEN counter ELSE MaxSize)
    BY RingAssumption DEF RingInv, TypeOK
  <1>2. ASSUME NEW i \in 1..count PROVE At(i - 1) = Newest(count)[i]
    <2>1. i - 1 \in 0..count - 1 /\ counter - count + (i - 1) + 1 = counter - count + i
      BY <1>1
    <2>2. At(i - 1) = Entry(counter - count + i, pushed[counter - count + i])
      BY <2>1 DEF RingInv
    <2> QED BY <1>1, <2>2 DEF Newest
  <1> QED BY <1>1, <1>2 DEF KeepsNewest

\* A slice of any length is of the newest records.
LEMMA InvSliceAnswersNewest == RingInv => SliceAnswersNewest
  <1> SUFFICES ASSUME RingInv, NEW limit \in 0..MaxSize + 1
               PROVE  Slice(limit) = Newest(IF limit < count THEN limit ELSE count)
    BY DEF SliceAnswersNewest
  <1> DEFINE n == IF limit < count THEN limit ELSE count
  <1>1. /\ counter \in Nat /\ count \in Nat /\ Len(pushed) = counter /\ count <= counter
        /\ MaxSize \in Nat \ {0} /\ limit \in Nat
    BY RingAssumption DEF RingInv, TypeOK
  <1>2. n \in 0..count
    BY <1>1
  <1>3. ASSUME NEW i \in 1..n
        PROVE  At(count - n + i - 1) = Entry(counter - n + i, pushed[counter - n + i])
    <2>1. /\ count - n + i - 1 \in 0..count - 1
          /\ counter - count + (count - n + i - 1) + 1 = counter - n + i
      BY <1>1, <1>2
    <2> QED BY <2>1 DEF RingInv
  <1>4. Slice(limit) = [i \in 1..n |-> At(count - n + i - 1)]
    BY DEF Slice
  <1>5. Newest(n) = [i \in 1..n |-> Entry(counter - n + i, pushed[counter - n + i])]
    BY <1>1 DEF Newest
  <1> HIDE DEF n
  <1>6. Slice(limit) = Newest(n)
    BY <1>3, <1>4, <1>5
  <1> QED BY <1>6 DEF n

\* A number is found in its place exactly while its record is kept.
LEMMA InvGetByIdFinds == RingInv => GetByIdFinds
  <1> SUFFICES ASSUME RingInv, NEW id \in 1..MaxPushes
               PROVE  GetById(id) = IF id <= counter /\ id > counter - MaxSize
                                    THEN Entry(id, pushed[id]) ELSE Empty
    BY DEF GetByIdFinds, RingInv, TypeOK
  <1> DEFINE place == id - (counter - count) - 1
  <1>1. /\ counter \in Nat /\ count \in Nat /\ MaxSize \in Nat \ {0} /\ id \in Nat
        /\ count = (IF counter < MaxSize THEN counter ELSE MaxSize)
    BY RingAssumption DEF RingInv, TypeOK
  <1>2. ASSUME NEW i \in 0..count - 1
        PROVE  /\ At(i) = Entry(counter - count + i + 1, pushed[counter - count + i + 1])
               /\ At(i).id = counter - count + i + 1
    BY <1>2 DEF RingInv, Entry
  <1>3. Matches(id) = {i \in 0..count - 1 : i = place}
    BY <1>1, <1>2 DEF Matches
  <1>4. CASE id <= counter /\ id > counter - MaxSize
    <2>1. place \in 0..count - 1 /\ counter - count + place + 1 = id
      BY <1>1, <1>4
    <2> HIDE DEF place
    <2>2. Matches(id) = {place}
      BY <1>3, <2>1
    <2>3. (CHOOSE i \in Matches(id) : \A j \in Matches(id) : i <= j) = place
      BY <2>1, <2>2
    <2> QED BY <1>2, <1>4, <2>1, <2>2, <2>3 DEF GetById
  <1>5. CASE ~(id <= counter /\ id > counter - MaxSize)
    <2>1. place \notin 0..count - 1
      BY <1>1, <1>5
    <2>2. Matches(id) = {}
      BY <1>3, <2>1
    <2> QED BY <1>5, <2>2 DEF GetById
  <1> QED BY <1>4, <1>5

\* The invariant makes every reader tell the newest records.
LEMMA RingInvTells == RingInv => RingTellsNewest
  BY InvKeepsNewest, InvSliceAnswersNewest, InvGetByIdFinds DEF RingTellsNewest

\* For every capacity and any number of pushes, the buffer holds exactly the
\* newest records in the order they were pushed.
THEOREM RingKeepsNewest == Spec => []KeepsNewest
  BY InvKeepsNewest, RingInvariant, PTL

\* For every capacity and every limit, the readers answer the newest records.
THEOREM RingSlices == Spec => []SliceAnswersNewest
  BY InvSliceAnswersNewest, RingInvariant, PTL

\* For every capacity a record is found by its number exactly while it is kept.
THEOREM RingFinds == Spec => []GetByIdFinds
  BY InvGetByIdFinds, RingInvariant, PTL

\* Whatever is recorded, the ring and its readers tell exactly the newest records.
THEOREM RingTells == Spec => []RingTellsNewest
  BY RingKeepsNewest, RingSlices, RingFinds, PTL DEF RingTellsNewest

-----------------------------------------------------------------------------
(* The calls.                                                                *)

Kinds == {"slow", "rate"}
Metric == [total : Nat, failed : Nat]

Ids == Conns \cup {NoConnection}
Call == [op : Operations \cup {NoConnection}, connectionId : Ids, started : Int,
         answer : {"none", "ok", "error"}]

CallTypes ==
  /\ pc \in [Calls -> {"idle", "running", "executed", "answered"}]
  /\ call \in [Calls -> Call]
  /\ effects \subseteq Calls /\ unsettled \subseteq Calls
  /\ pushed \in Seq(Records)

AlertTypes ==
  /\ metrics \in [Keys -> Metric]
  /\ alert \in [Calls -> [stage : {"none"} \cup Kinds, total : Nat, failed : Nat, since : Nat]]
  /\ lastAlertAt \in [Kinds \X Keys -> Nat \cup {Never}]
  /\ sent \subseteq [call : Calls, kind : Kinds, key : Keys, at : Nat]
  /\ due \subseteq [call : Calls, key : Keys, at : Nat]
  /\ now \in Nat

\* Nothing was sent after the time that is remembered for its kind and key,
\* and something was sent at that time.
Remembered ==
  /\ \A s \in sent : s.at <= lastAlertAt[<<s.kind, s.key>>]
  /\ \A kind \in Kinds, k \in Keys : lastAlertAt[<<kind, k>>] # Never =>
       /\ lastAlertAt[<<kind, k>>] <= now
       /\ \E s \in sent : s.kind = kind /\ s.key = k /\ s.at = lastAlertAt[<<kind, k>>]

Alerting == AlertTypes /\ Remembered /\ AlertsSpaced /\ StormReported

Authorized(c) == \E i \in EntriesOf(c, "authorization") : pushed[i].success = "true"

\* An operation that took effect, was answered ok and is one that is audited.
Reported(c) == c \in effects /\ call[c].answer = "ok" /\ call[c].op.audited # "never"

\* Who is past the authorization has its entry, and what was answered has happened.
AuditOf(c) ==
  /\ pc[c] \in {"running", "executed"} \/ c \in unsettled \cup effects => Authorized(c)
  /\ pc[c] = "executed" => c \in effects
  /\ pc[c] # "idle" => call[c].op \in Operations
  /\ pc[c] # "answered" => call[c].answer = "none"
  /\ c \in unsettled => call[c].answer = "error"
  /\ pc[c] \in {"idle", "running"} => c \notin effects
  /\ \A i \in EntriesOf(c, "operation") :
       /\ \E j \in EntriesOf(c, "authorization") : j < i
       /\ pushed[i].success = "true" => c \in effects
  /\ Reported(c) => EntriesOf(c, "operation") # {}

Auditing == \A c \in Calls : AuditOf(c)

AnsweredOn(k) == {c \in Calls : pc[c] = "answered" /\ KeyOf(c) = k}
FailedOn(k) == {c \in AnsweredOn(k) : call[c].answer = "error"}

Counting ==
  \A k \in Keys : metrics[k].total = Cardinality(AnsweredOn(k))
                  /\ metrics[k].failed = Cardinality(FailedOn(k))

\* Only answered calls are evaluated.
Evaluating == \A c \in Calls : alert[c].stage # "none" => pc[c] = "answered"

CallsInv == CallTypes /\ RingInv /\ Alerting /\ Auditing /\ Counting /\ Evaluating

-----------------------------------------------------------------------------
(* Alerts.                                                                   *)

\* An alert that should be sent keeps its distance from all of its kind and key.
LEMMA SendKeepsDistance ==
  ASSUME Alerting, NEW c \in Calls, NEW k \in Keys, NEW kind \in Kinds,
         NEW metric, metric.total \in Nat, metric.failed \in Nat, ShouldSend(DedupeKey(kind, k)), Send(c, k, kind, metric),
         now' = now, metrics' \in [Keys -> Metric]
  PROVE  /\ Remembered' /\ AlertsSpaced'
         /\ due' \subseteq [call : Calls, key : Keys, at : Nat] => AlertTypes'
         /\ sent' = sent \cup {[call |-> c, kind |-> kind, key |-> k, at |-> now]}
<1> DEFINE new == [call |-> c, kind |-> kind, key |-> k, at |-> now]
<1>1. /\ lastAlertAt' = [lastAlertAt EXCEPT ![<<kind, k>>] = now]
      /\ sent' = sent \cup {new}
      /\ alert' = [alert EXCEPT ![c] = [stage |-> kind, total |-> metric.total,
                                        failed |-> metric.failed, since |-> now]]
  BY DEF Send, MarkSent, DedupeKey
<1>2. /\ now \in Nat /\ Cooldown \in Nat \ {0}
      /\ lastAlertAt[<<kind, k>>] \in Nat \cup {Never}
      /\ lastAlertAt'[<<kind, k>>] = now
      /\ \A other \in (Kinds \X Keys) \ {<<kind, k>>} : lastAlertAt'[other] = lastAlertAt[other]
  BY <1>1, ToolCallsAssumption DEF Alerting, AlertTypes
<1>3. \A s \in sent : s.kind \in Kinds /\ s.key \in Keys /\ s.at \in Nat
  BY DEF Alerting, AlertTypes
<1>4. ASSUME NEW s \in sent, s.kind = kind, s.key = k
      PROVE  now - s.at >= Cooldown /\ s.at <= now
  <2>1. s.at \in Nat /\ s.at <= lastAlertAt[<<kind, k>>]
    BY <1>3, <1>4 DEF Alerting, Remembered
  <2>2. lastAlertAt[<<kind, k>>] # Never
    BY <1>2, <2>1 DEF Never
  <2> QED
    BY <1>2, <2>1, <2>2 DEF ShouldSend, DedupeKey, Never
<1>5. Remembered'
  <2>1. ASSUME NEW s \in sent'
        PROVE  s.at <= lastAlertAt'[<<s.kind, s.key>>]
    <3>1. CASE s = new
      BY <1>2, <3>1
    <3>2. CASE s \in sent /\ s.kind = kind /\ s.key = k
      BY <1>2, <1>4, <3>2
    <3>3. CASE s \in sent /\ <<s.kind, s.key>> # <<kind, k>>
      BY <1>2, <1>3, <3>3 DEF Alerting, Remembered
    <3> QED
      BY <1>1, <3>1, <3>2, <3>3
  <2>2. ASSUME NEW l \in Kinds, NEW m \in Keys, lastAlertAt'[<<l, m>>] # Never
        PROVE  /\ lastAlertAt'[<<l, m>>] <= now
               /\ \E s \in sent' : s.kind = l /\ s.key = m /\ s.at = lastAlertAt'[<<l, m>>]
    <3>1. CASE <<l, m>> = <<kind, k>>
      <4>1. l = kind /\ m = k /\ new \in sent' /\ new.kind = kind /\ new.key = k /\ new.at = now
        BY <1>1, <3>1
      <4>2. lastAlertAt'[<<l, m>>] = now /\ now <= now
        BY <1>2, <4>1
      <4> HIDE DEF new
      <4> QED
        BY <4>1, <4>2
    <3>2. CASE <<l, m>> # <<kind, k>>
      BY <1>1, <1>2, <2>2, <3>2 DEF Alerting, Remembered
    <3> QED
      BY <3>1, <3>2
  <2> QED
    BY <2>1, <2>2 DEF Remembered
<1>6. AlertsSpaced'
  BY <1>1, <1>2, <1>3, <1>4 DEF Alerting, AlertsSpaced
<1>7. alert' \in [Calls -> [stage : {"none"} \cup Kinds, total : Nat, failed : Nat, since : Nat]]
  BY <1>1, <1>2 DEF Alerting, AlertTypes, Metric
<1>8. /\ lastAlertAt' \in [Kinds \X Keys -> Nat \cup {Never}]
      /\ sent' \subseteq [call : Calls, kind : Kinds, key : Keys, at : Nat]
  BY <1>1, <1>2 DEF Alerting, AlertTypes
<1> QED
  BY <1>1, <1>2, <1>5, <1>6, <1>7, <1>8 DEF AlertTypes

\* The evaluation of a failure rate reports one over the threshold or leaves it to an
\* alert within the cooldown.
LEMMA RateIsReported ==
  ASSUME Alerting, NEW c \in Calls, NEW k \in Keys, NEW failed \in BOOLEAN,
         NEW metric, metric.total \in Nat, metric.failed \in Nat, CheckRate(c, k, failed, metric),
         now' = now, metrics' \in [Keys -> Metric]
  PROVE  Alerting'
<1> DEFINE over == failed /\ metric.total >= MinCalls /\ FailureRate(metric) >= Threshold
           entry == [call |-> c, key |-> k, at |-> now]
<1>1. due' = IF over THEN due \cup {entry} ELSE due
  BY DEF CheckRate
<1>2. IF over /\ ShouldSend(DedupeKey("rate", k)) THEN Send(c, k, "rate", metric)
      ELSE alert' = [alert EXCEPT ![c] = Evaluated] /\ UNCHANGED <<lastAlertAt, sent>>
  BY DEF CheckRate
<1> HIDE DEF over
<1>3. now \in Nat /\ Cooldown \in Nat \ {0} /\ due' \subseteq [call : Calls, key : Keys, at : Nat]
  BY <1>1, ToolCallsAssumption DEF Alerting, AlertTypes
<1>4. CASE over /\ ShouldSend(DedupeKey("rate", k))
  <2>1. AlertTypes' /\ Remembered' /\ AlertsSpaced'
    BY <1>2, <1>3, <1>4, SendKeepsDistance DEF Kinds
  <2>2. sent' = sent \cup {[call |-> c, kind |-> "rate", key |-> k, at |-> now]}
    BY <1>2, <1>4, SendKeepsDistance DEF Kinds
  <2>3. StormReported'
    <3>1. \E s \in sent' : s.kind = "rate" /\ s.key = k /\ now - s.at \in 0..Cooldown - 1
      <4> DEFINE new == [call |-> c, kind |-> "rate", key |-> k, at |-> now]
      <4>1. new \in sent' /\ new.kind = "rate" /\ new.key = k /\ new.at = now
        BY <2>2
      <4>2. now - now \in 0..Cooldown - 1
        BY <1>3
      <4> HIDE DEF new
      <4> QED
        BY <4>1, <4>2
    <3>2. due' = due \cup {entry} /\ entry.key = k /\ entry.at = now /\ sent \subseteq sent'
      BY <1>1, <1>4, <2>2
    <3> HIDE DEF entry
    <3> QED
      BY <3>1, <3>2 DEF Alerting, StormReported
  <2> QED
    BY <2>1, <2>3 DEF Alerting
<1>5. CASE ~(over /\ ShouldSend(DedupeKey("rate", k)))
  <2>1. alert' = [alert EXCEPT ![c] = Evaluated] /\ UNCHANGED <<lastAlertAt, sent>>
    BY <1>2, <1>5
  <2>2. AlertTypes'
    BY <1>3, <2>1 DEF Alerting, AlertTypes, Evaluated, Kinds
  <2>3. Remembered' /\ AlertsSpaced'
    BY <2>1 DEF Alerting, Remembered, AlertsSpaced
  <2>4. StormReported'
    <3>1. CASE ~over
      BY <1>1, <2>1, <3>1 DEF Alerting, StormReported
    <3>2. CASE over
      <4>1. /\ lastAlertAt[<<"rate", k>>] # Never
            /\ ~(now - lastAlertAt[<<"rate", k>>] >= Cooldown)
        BY <1>5, <3>2 DEF ShouldSend, DedupeKey
      <4>2. /\ lastAlertAt[<<"rate", k>>] <= now
            /\ lastAlertAt[<<"rate", k>>] \in Nat
        BY <4>1 DEF Alerting, AlertTypes, Remembered, Kinds
      <4>3. \E s \in sent : s.kind = "rate" /\ s.key = k /\ now - s.at \in 0..Cooldown - 1
        BY <1>3, <4>1, <4>2 DEF Alerting, Remembered, Kinds
      <4> QED
        BY <1>1, <2>1, <3>2, <4>3 DEF Alerting, StormReported
    <3> QED
      BY <3>1, <3>2
  <2> QED
    BY <2>2, <2>3, <2>4 DEF Alerting
<1> QED
  BY <1>4, <1>5

\* A recorded call is evaluated for both kinds of alerts, one after the other.
LEMMA RecordKeepsAlerting ==
  ASSUME Alerting, NEW c \in Calls, NEW k \in Keys, NEW failed \in BOOLEAN, NEW since \in Int,
         RecordToolCall(c, k, failed, since), now' = now
  PROVE  Alerting'
<1> DEFINE metric == [total |-> metrics[k].total + 1,
                      failed |-> metrics[k].failed + (IF failed THEN 1 ELSE 0)]
<1>1. metrics[k] \in Metric
  BY DEF Alerting, AlertTypes
<1>2. metric \in Metric
  BY <1>1 DEF Metric
<1>3. metrics' = [metrics EXCEPT ![k] = metric]
  BY DEF RecordToolCall
<1>4. \/ ShouldSend(DedupeKey("slow", k)) /\ Send(c, k, "slow", metric) /\ due' = due
      \/ CheckRate(c, k, failed, metric)
  BY DEF RecordToolCall
<1> HIDE DEF metric
<1>5. metrics' \in [Keys -> Metric]
  BY <1>2, <1>3 DEF Alerting, AlertTypes
<1>6. CASE CheckRate(c, k, failed, metric)
  BY <1>2, <1>5, <1>6, RateIsReported DEF Metric
<1>7. CASE ShouldSend(DedupeKey("slow", k)) /\ Send(c, k, "slow", metric) /\ due' = due
  <2>1. AlertTypes' /\ Remembered' /\ AlertsSpaced' /\ sent \subseteq sent'
    BY <1>2, <1>5, <1>7, SendKeepsDistance DEF Kinds, Metric, Alerting, AlertTypes
  <2>2. StormReported'
    BY <1>7, <2>1 DEF Alerting, StormReported
  <2> QED
    BY <2>1, <2>2 DEF Alerting
<1> QED
  BY <1>4, <1>6, <1>7

-----------------------------------------------------------------------------
(* The audit log.                                                            *)

\* The log grows by one entry at its end.
LEMMA LogGrows ==
  ASSUME pushed \in Seq(Records), NEW c \in Calls, NEW op \in {"authorization", "operation"},
         NEW success \in {"true", "false", "unset"}, AuditLog(c, op, success)
  PROVE  LET entry == [call |-> c, op |-> op, success |-> success]
         IN  /\ pushed' \in Seq(Records)
             /\ Len(pushed') = Len(pushed) + 1 /\ Len(pushed) \in Nat
             /\ pushed'[Len(pushed) + 1] = entry
             /\ \A i \in 1..Len(pushed) : pushed'[i] = pushed[i]
<1> DEFINE entry == [call |-> c, op |-> op, success |-> success]
<1>1. entry \in Records
  BY ToolCallsAssumption DEF Entries
<1>2. pushed' = Append(pushed, entry)
  BY DEF AuditLog, Push
<1> HIDE DEF entry
<1>3. /\ pushed' \in Seq(Records)
      /\ Len(pushed') = Len(pushed) + 1 /\ Len(pushed) \in Nat
      /\ pushed'[Len(pushed) + 1] = entry
      /\ \A i \in 1..Len(pushed) : pushed'[i] = pushed[i]
  BY <1>1, <1>2
<1> QED
  BY <1>3 DEF entry

\* The invariant of each call together is what the log tells.
LEMMA InvTells == CallTypes /\ Auditing => AuditTells
  BY DEF CallTypes, Auditing, AuditOf, Authorized, Reported, AuditTells

\* An entry of one call leaves the entries of the others, and of the other kind, alone.
LEMMA EntriesKept ==
  ASSUME pushed \in Seq(Records), NEW c \in Calls, NEW op \in {"authorization", "operation"},
         NEW success \in {"true", "false", "unset"}, AuditLog(c, op, success)
  PROVE  /\ \A d \in Calls, o \in {"authorization", "operation"} :
              /\ d # c \/ o # op => EntriesOf(d, o)' = EntriesOf(d, o)
              /\ \A i \in EntriesOf(d, o) : pushed'[i] = pushed[i] /\ i < Len(pushed) + 1
         /\ EntriesOf(c, op)' = EntriesOf(c, op) \cup {Len(pushed) + 1}
         /\ pushed'[Len(pushed) + 1].success = success
         /\ pushed' \in Seq(Records)
<1> DEFINE entry == [call |-> c, op |-> op, success |-> success]
<1>1. /\ pushed' \in Seq(Records)
      /\ Len(pushed') = Len(pushed) + 1 /\ Len(pushed) \in Nat
      /\ pushed'[Len(pushed) + 1] = entry
      /\ \A i \in 1..Len(pushed) : pushed'[i] = pushed[i]
  BY LogGrows
<1>2. entry.call = c /\ entry.op = op /\ entry.success = success
  OBVIOUS
<1> HIDE DEF entry
<1>3. 1..Len(pushed') = (1..Len(pushed)) \cup {Len(pushed) + 1}
  BY <1>1
<1>4. \A d \in Calls, o \in {"authorization", "operation"} : EntriesOf(d, o)' =
        EntriesOf(d, o) \cup (IF d = c /\ o = op THEN {Len(pushed) + 1} ELSE {})
  BY <1>1, <1>2, <1>3 DEF EntriesOf
<1>5. \A d \in Calls, o \in {"authorization", "operation"} : \A i \in EntriesOf(d, o) :
        pushed'[i] = pushed[i] /\ i < Len(pushed) + 1
  BY <1>1 DEF EntriesOf
<1> QED
  BY ZenonT(60), <1>1, <1>2, <1>4, <1>5

\* The log stays or grows by an entry of c.
LogOf(c) ==
  \/ pushed' = pushed
  \/ \E op \in {"authorization", "operation"}, success \in {"true", "false", "unset"} :
       AuditLog(c, op, success)

\* What holds of a call is not disturbed by the entries of another.
LEMMA OthersKeep ==
  ASSUME CallTypes, NEW c \in Calls, LogOf(c), NEW d \in Calls, d # c, AuditOf(d),
         pc'[d] = pc[d], call'[d] = call[d],
         d \in unsettled' <=> d \in unsettled, d \in effects' <=> d \in effects
  PROVE  AuditOf(d)'
<1>1. /\ EntriesOf(d, "operation")' = EntriesOf(d, "operation")
      /\ EntriesOf(d, "authorization")' = EntriesOf(d, "authorization")
      /\ \A i \in EntriesOf(d, "operation") \cup EntriesOf(d, "authorization") :
           pushed'[i] = pushed[i]
  <2>1. CASE pushed' = pushed
    BY <2>1 DEF EntriesOf
  <2>2. CASE pushed' # pushed
    <3>1. PICK op \in {"authorization", "operation"}, success \in {"true", "false", "unset"} :
            AuditLog(c, op, success)
      BY <2>2 DEF LogOf
    <3> QED
      BY <3>1, EntriesKept DEF CallTypes
  <2> QED
    BY <2>1, <2>2
<1> QED
  BY <1>1 DEF AuditOf, Authorized, Reported

\* A step that logs nothing keeps what the log says of its call.
LEMMA UnloggedKeeps ==
  ASSUME CallTypes, NEW c \in Calls, AuditOf(c), pushed' = pushed,
         pc'[c] \in {"running", "executed"} \/ c \in unsettled' \cup effects' => Authorized(c),
         pc'[c] = "executed" => c \in effects',
         pc'[c] # "idle" => call'[c].op \in Operations,
         pc'[c] # "answered" => call'[c].answer = "none",
         c \in unsettled' => call'[c].answer = "error",
         pc'[c] \in {"idle", "running"} => c \notin effects',
         effects \subseteq effects',
         Reported(c)' => EntriesOf(c, "operation") # {}
  PROVE  AuditOf(c)'
<1>1. /\ EntriesOf(c, "operation")' = EntriesOf(c, "operation")
      /\ EntriesOf(c, "authorization")' = EntriesOf(c, "authorization")
      /\ Authorized(c)' = Authorized(c)
  BY DEF EntriesOf, Authorized
<1> QED
  BY <1>1 DEF AuditOf

\* Nor does a step that logs an entry the invariant allows.
LEMMA LoggedKeeps ==
  ASSUME CallTypes, NEW c \in Calls, AuditOf(c), effects' = effects,
         NEW op \in {"authorization", "operation"}, NEW success \in {"true", "false", "unset"},
         AuditLog(c, op, success),
         pc'[c] = "running" => op = "authorization" /\ success = "true",
         c \in unsettled' \cup effects' => Authorized(c),
         pc'[c] # "executed",
         pc'[c] # "idle" => call'[c].op \in Operations,
         pc'[c] # "answered" => call'[c].answer = "none",
         c \in unsettled' => call'[c].answer = "error",
         pc'[c] \in {"idle", "running"} => c \notin effects',
         op = "operation" => Authorized(c) /\ (success = "true" => c \in effects),
         Reported(c)' => op = "operation"
  PROVE  AuditOf(c)'
<1> DEFINE last == Len(pushed) + 1
<1>1. /\ EntriesOf(c, op)' = EntriesOf(c, op) \cup {last}
      /\ pushed'[last].success = success
      /\ \A o \in {"authorization", "operation"} :
           /\ o # op => EntriesOf(c, o)' = EntriesOf(c, o)
           /\ \A i \in EntriesOf(c, o) : pushed'[i] = pushed[i] /\ i < last
  BY EntriesKept DEF CallTypes
<1> HIDE DEF last
<1>2. Authorized(c) => Authorized(c)'
  BY <1>1 DEF Authorized
<1>3. op = "authorization" /\ success = "true" => Authorized(c)'
  BY <1>1 DEF Authorized
<1>4. ASSUME NEW i \in EntriesOf(c, "operation")'
      PROVE  /\ \E j \in EntriesOf(c, "authorization")' : j < i
             /\ pushed'[i].success = "true" => c \in effects
  <2>1. CASE i \in EntriesOf(c, "operation")
    <3>1. PICK j \in EntriesOf(c, "authorization") : j < i
      BY <2>1 DEF AuditOf
    <3>2. j \in EntriesOf(c, "authorization")'
      BY <1>1
    <3> QED
      BY <1>1, <2>1, <3>1, <3>2 DEF AuditOf
  <2>2. CASE i = last /\ op = "operation"
    BY <1>1, <2>2 DEF Authorized
  <2> QED
    BY <1>1, <2>1, <2>2
<1>5. op = "operation" => EntriesOf(c, "operation")' # {}
  BY <1>1
<1> QED
  BY <1>2, <1>3, <1>4, <1>5 DEF AuditOf

\* A step of one call keeps the invariant if it keeps what the log says of that call.
LEMMA OneCall ==
  ASSUME CallTypes, Auditing, NEW c \in Calls, LogOf(c), AuditOf(c)',
         \A d \in Calls \ {c} :
           /\ pc'[d] = pc[d] /\ call'[d] = call[d]
           /\ d \in unsettled' <=> d \in unsettled
           /\ d \in effects' <=> d \in effects
  PROVE  Auditing'
<1>1. \A d \in Calls \ {c} : AuditOf(d)'
  BY OthersKeep DEF Auditing
<1> QED
  BY <1>1 DEF Auditing

\* What the authorization takes a call to be on.
LEMMA DecidedIds ==
  ASSUME NEW o \in Operations
  PROVE  /\ ConnectionIdOf(o) \in Ids /\ NoConnection \in Ids
         /\ <<o.tool, ConnectionIdOf(o)>> \in Keys /\ <<o.tool, NoConnection>> \in Keys
<1>1. o.names \in {"one", "two", "none"} /\ o.conn \in Conns
  BY ToolCallsAssumption DEF OperationTypes
<1>2. ConnectionIdOf(o) \in Ids /\ NoConnection \in Ids
  BY <1>1, ToolCallsAssumption DEF ConnectionIdOf, Ids
<1> QED
  BY <1>2 DEF Keys, Ids

\* What the arrival of a call leaves of it.
LEMMA Arrived ==
  ASSUME CallTypes, now \in Nat, NEW c \in Calls, NEW o \in Operations, NEW id \in Ids,
         NEW answer \in {"none", "error"}, Arrive(c, o, id, answer)
  PROVE  /\ pc[c] = "idle" /\ pc' \in [Calls -> {"idle", "running", "executed", "answered"}]
         /\ call' \in [Calls -> Call]
         /\ pc'[c] = (IF answer = "none" THEN "running" ELSE "answered")
         /\ call'[c].op = o /\ call'[c].connectionId = id /\ call'[c].answer = answer
         /\ \A d \in Calls \ {c} : pc'[d] = pc[d] /\ call'[d] = call[d]
<1> DEFINE new == [op |-> o, connectionId |-> id, started |-> now, answer |-> answer]
<1>1. call' = [call EXCEPT ![c] = new] /\ pc[c] = "idle"
  BY DEF Arrive
<1>2. new \in Call
  BY DEF Call
<1>3. new.op = o /\ new.connectionId = id /\ new.answer = answer
  OBVIOUS
<1> HIDE DEF new
<1>4. /\ call' \in [Calls -> Call] /\ call'[c] = new
      /\ \A d \in Calls \ {c} : call'[d] = call[d]
  BY <1>1, <1>2 DEF CallTypes
<1>5. /\ pc' \in [Calls -> {"idle", "running", "executed", "answered"}]
      /\ pc'[c] = (IF answer = "none" THEN "running" ELSE "answered")
      /\ \A d \in Calls \ {c} : pc'[d] = pc[d]
  BY DEF Arrive, CallTypes
<1> QED
  BY <1>1, <1>3, <1>4, <1>5

\* What the steps before the operation do to the log and to the call.
LEMMA ArrivalKeeps ==
  ASSUME CallTypes, Auditing, now \in Nat, NEW c \in Calls, NEW o \in Operations,
         UnknownConnection(c, o) \/ Deny(c, o) \/ Allow(c, o)
  PROVE  CallTypes' /\ Auditing'
<1>1. AuditOf(c) /\ UNCHANGED <<unsettled, effects>>
  BY DEF Auditing, UnknownConnection, Deny, Allow
<1>2. PICK id \in Ids, answer \in {"none", "error"} :
        /\ Arrive(c, o, id, answer)
        /\ answer = "none" <=> Allow(c, o)
        /\ answer = "error" <=> UnknownConnection(c, o) \/ Deny(c, o)
  <2>1. CASE Allow(c, o)
    <3>1. Arrive(c, o, ConnectionIdOf(o), "none")
      BY <2>1 DEF Allow
    <3>2. ~UnknownConnection(c, o) /\ ~Deny(c, o)
      BY <3>1 DEF CallTypes, Arrive, UnknownConnection, Deny
    <3> QED
      BY <2>1, <3>1, <3>2, DecidedIds
  <2>2. CASE UnknownConnection(c, o) \/ Deny(c, o)
    <3>1. \E id \in Ids : Arrive(c, o, id, "error")
      BY <2>2, DecidedIds DEF UnknownConnection, Deny
    <3>2. ~Allow(c, o)
      BY <3>1 DEF CallTypes, Arrive, Allow
    <3> QED
      BY <2>2, <3>1, <3>2
  <2> QED
    BY <2>1, <2>2
<1>3. /\ pc[c] = "idle" /\ pc' \in [Calls -> {"idle", "running", "executed", "answered"}]
      /\ call' \in [Calls -> Call]
      /\ pc'[c] = (IF answer = "none" THEN "running" ELSE "answered")
      /\ call'[c].op = o /\ call'[c].answer = answer
      /\ \A d \in Calls \ {c} : pc'[d] = pc[d] /\ call'[d] = call[d]
  BY <1>2, Arrived
<1>4. c \notin effects /\ c \notin unsettled
  BY <1>1, <1>3 DEF AuditOf
<1>5. CASE UnknownConnection(c, o)
  <2>1. pushed' = pushed /\ pc'[c] = "answered" /\ call'[c].answer = "error"
    BY <1>2, <1>3, <1>5 DEF UnknownConnection, vars
  <2>2. ~Reported(c)'
    BY <2>1 DEF Reported
  <2>3. AuditOf(c)'
    BY <1>1, <1>3, <1>4, <2>1, <2>2, UnloggedKeeps
  <2>4. Auditing'
    BY <1>1, <1>3, <2>1, <2>3, OneCall DEF LogOf
  <2> QED
    BY <1>1, <1>3, <2>1, <2>4 DEF CallTypes
<1>6. CASE Deny(c, o) \/ Allow(c, o)
  <2>1. PICK success \in {"true", "false", "unset"} :
          /\ AuditLog(c, "authorization", success)
          /\ answer = "none" => success = "true"
    BY <1>2, <1>6 DEF Deny, Allow
  <2>2. ~Reported(c)'
    BY <1>3 DEF Reported
  <2>3. AuditOf(c)'
    BY <1>1, <1>3, <1>4, <2>1, <2>2, LoggedKeeps
  <2>4. Auditing'
    BY <1>1, <1>3, <2>1, <2>3, OneCall DEF LogOf
  <2>5. pushed' \in Seq(Records)
    BY <2>1, EntriesKept DEF CallTypes
  <2> QED
    BY <1>1, <1>3, <2>4, <2>5 DEF CallTypes
<1> QED
  BY <1>5, <1>6

\* An operation happens only for a call that was allowed.
LEMMA ExecutedKeeps ==
  ASSUME CallTypes, Auditing, NEW c \in Calls, Executed(c)
  PROVE  CallTypes' /\ Auditing'
<1>1. AuditOf(c) /\ (pc[c] = "running" \/ c \in unsettled) /\ call' = call /\ pushed' = pushed
  BY DEF Auditing, Executed, vars
<1>2. /\ pc' = [pc EXCEPT ![c] = IF @ = "running" THEN "executed" ELSE @]
      /\ effects' = effects \cup {c} /\ unsettled' = unsettled \ {c}
  BY DEF Executed
<1>3. AuditOf(c)'
  <2>1. pc[c] \in {"running", "answered"} /\ pc'[c] \in {"executed", "answered"}
    BY <1>1, <1>2 DEF CallTypes, AuditOf
  <2>2. /\ pc[c] = "running" => call[c].answer = "none"
        /\ c \in unsettled => call[c].answer = "error"
    BY <1>1 DEF AuditOf
  <2>3. ~Reported(c)'
    BY <1>1, <2>2 DEF Reported
  <2>4. c \in unsettled' => call'[c].answer = "error"
    BY <1>1, <1>2
  <2>5. Authorized(c) /\ call'[c].op \in Operations
    BY <1>1, <2>1 DEF AuditOf
  <2>6. pc'[c] # "answered" => call'[c].answer = "none"
    BY <1>1, <1>2, <2>1, <2>2 DEF CallTypes
  <2>7. effects \subseteq effects' /\ c \in effects'
    BY <1>2
  <2> QED
    BY <1>1, <2>1, <2>3, <2>4, <2>5, <2>6, <2>7, UnloggedKeeps
<1>4. Auditing'
  BY <1>1, <1>2, <1>3, OneCall DEF CallTypes, LogOf
<1> QED
  BY <1>1, <1>2, <1>4 DEF CallTypes

\* What the answer of a call leaves of it.
LEMMA Answered ==
  ASSUME CallTypes, NEW c \in Calls, NEW answer \in {"ok", "error"}, Answer(c, answer)
  PROVE  /\ pc' = [pc EXCEPT ![c] = "answered"] /\ pc'[c] = "answered"
         /\ call' \in [Calls -> Call] /\ call'[c].answer = answer
         /\ call'[c].op = call[c].op /\ call'[c].connectionId = call[c].connectionId
         /\ \A d \in Calls \ {c} : pc'[d] = pc[d] /\ call'[d] = call[d]
<1> DEFINE new == [op |-> call[c].op, connectionId |-> call[c].connectionId, started |-> 0, answer |-> answer]
<1>1. call[c] \in Call /\ call \in [Calls -> Call]
  BY DEF CallTypes
<1>2. [call[c] EXCEPT !.answer = answer, !.started = 0] = new /\ new \in Call
  <2> DEFINE old == call[c]
  <2>1. old \in Call
    BY <1>1
  <2> HIDE DEF old
  <2>2. [old EXCEPT !.answer = answer, !.started = 0]
          = [op |-> old.op, connectionId |-> old.connectionId, started |-> 0, answer |-> answer]
    <3> DEFINE mid == [old EXCEPT !.answer = answer]
    <3>1. /\ mid \in Call /\ mid.op = old.op /\ mid.connectionId = old.connectionId
          /\ mid.answer = answer
      BY <2>1 DEF Call
    <3>2. ASSUME NEW r \in Call
          PROVE  [r EXCEPT !.started = 0]
                   = [op |-> r.op, connectionId |-> r.connectionId, started |-> 0, answer |-> r.answer]
      BY ONLY <3>2 DEF Call
    <3>3. [old EXCEPT !.answer = answer, !.started = 0] = [mid EXCEPT !.started = 0]
      OBVIOUS
    <3> HIDE DEF mid
    <3> QED
      BY <3>1, <3>2, <3>3
  <2>3. old.op \in Operations \cup {NoConnection} /\ old.connectionId \in Ids
    BY ONLY <2>1 DEF Call
  <2>4. [op |-> old.op, connectionId |-> old.connectionId, started |-> 0, answer |-> answer] \in Call
    BY <2>3 DEF Call
  <2> QED
    BY <2>2, <2>4 DEF old
<1>3. call' = [call EXCEPT ![c] = [call[c] EXCEPT !.answer = answer, !.started = 0]]
  BY DEF Answer
<1>4. call' = [call EXCEPT ![c] = new]
  BY <1>2, <1>3
<1>5. new.op = call[c].op /\ new.connectionId = call[c].connectionId /\ new.answer = answer
  OBVIOUS
<1> HIDE DEF new
<1>6. /\ call' \in [Calls -> Call] /\ call'[c] = new
      /\ \A d \in Calls \ {c} : call'[d] = call[d]
  BY <1>1, <1>2, <1>4
<1>7. /\ pc' = [pc EXCEPT ![c] = "answered"] /\ pc'[c] = "answered"
      /\ \A d \in Calls \ {c} : pc'[d] = pc[d]
  BY DEF Answer, CallTypes
<1> QED
  BY <1>5, <1>6, <1>7

\* An answer without an entry of the operation is an error, or comes from the cache, or
\* is of an operation that is never audited.
LEMMA SettledKeeps ==
  ASSUME CallTypes, Auditing, NEW c \in Calls, Refuse(c) \/ CacheHit(c) \/ Succeed(c) \/ Fail(c)
  PROVE  CallTypes' /\ Auditing'
<1>1. /\ AuditOf(c) /\ pc[c] \in {"running", "executed"} /\ effects' = effects
      /\ Authorized(c) /\ call[c].op \in Operations /\ c \notin unsettled
  BY DEF Auditing, AuditOf, Refuse, CacheHit, Succeed, Fail
<1>2. PICK answer \in {"ok", "error"} :
        /\ Answer(c, answer)
        /\ answer = "ok" => Succeed(c) \/ (CacheHit(c) /\ pc[c] = "running")
        /\ answer = "ok" => unsettled' = unsettled
  BY DEF Refuse, CacheHit, Succeed, Fail
<1>4. /\ pc'[c] = "answered" /\ call' \in [Calls -> Call] /\ call'[c].answer = answer
      /\ call'[c].op = call[c].op
      /\ \A d \in Calls \ {c} : pc'[d] = pc[d] /\ call'[d] = call[d]
      /\ pc' = [pc EXCEPT ![c] = "answered"]
  BY <1>2, Answered
<1>5. unsettled' \in {unsettled, unsettled \cup {c}} /\ (c \in unsettled' => answer = "error")
  BY <1>1, <1>2 DEF Refuse, CacheHit, Succeed, Fail
<1>6. CASE pushed' = pushed
  <2>1. ~Reported(c)'
    <3> SUFFICES ASSUME Succeed(c), call[c].op.audited # "never"
                 PROVE  FALSE
      BY <1>1, <1>2, <1>4 DEF Reported, AuditOf
    <3>1. call[c].op.audited \in {"outcome", "success"}
      BY <1>1, ToolCallsAssumption DEF OperationTypes
    <3>2. PICK success \in {"true", "false", "unset"} : AuditLog(c, "operation", success)
      BY <3>1 DEF Succeed, AuditOperation, Audits, Outcome
    <3>3. Len(pushed') = Len(pushed) + 1 /\ Len(pushed) \in Nat
      BY <3>2, LogGrows DEF CallTypes
    <3> QED
      BY <1>6, <3>3
  <2>2. AuditOf(c)'
    BY <1>1, <1>4, <1>5, <1>6, <2>1, UnloggedKeeps
  <2>3. Auditing'
    BY <1>1, <1>4, <1>5, <1>6, <2>2, OneCall DEF LogOf
  <2> QED
    BY <1>1, <1>4, <1>5, <1>6, <2>3 DEF CallTypes
<1>7. CASE pushed' # pushed
  <2>1. PICK success \in {"true", "false", "unset"} :
          /\ AuditLog(c, "operation", success)
          /\ success = "true" => pc[c] = "executed"
    BY <1>7 DEF Refuse, CacheHit, Succeed, Fail, AuditOperation, Outcome, vars
  <2>2. AuditOf(c)'
    BY <1>1, <1>4, <1>5, <2>1, LoggedKeeps DEF AuditOf
  <2>3. Auditing'
    BY <1>1, <1>4, <1>5, <2>1, <2>2, OneCall DEF LogOf
  <2>4. pushed' \in Seq(Records)
    BY <2>1, EntriesKept DEF CallTypes
  <2> QED
    BY <1>1, <1>4, <1>5, <2>3, <2>4 DEF CallTypes
<1> QED
  BY <1>6, <1>7

-----------------------------------------------------------------------------
(* The metrics.                                                              *)

\* An answered call is counted once, for its tool and what it was taken to be on.
LEMMA RecordKeepsCounting ==
  ASSUME CallTypes, Alerting, Counting, NEW c \in Calls, NEW k \in Keys,
         NEW failed \in BOOLEAN, NEW since \in Int, RecordToolCall(c, k, failed, since),
         pc[c] # "answered", pc'[c] = "answered", KeyOf(c)' = k,
         failed <=> call'[c].answer = "error",
         \A d \in Calls \ {c} : pc'[d] = pc[d] /\ call'[d] = call[d]
  PROVE  Counting'
<1>1. /\ metrics \in [Keys -> Metric]
      /\ metrics' = [metrics EXCEPT ![k] =
                       [total |-> metrics[k].total + 1,
                        failed |-> metrics[k].failed + (IF failed THEN 1 ELSE 0)]]
  BY DEF Alerting, AlertTypes, RecordToolCall
<1>2. SUFFICES ASSUME NEW l \in Keys
               PROVE  /\ metrics'[l].total = Cardinality(AnsweredOn(l)')
                      /\ metrics'[l].failed = Cardinality(FailedOn(l)')
  BY DEF Counting
<1>5. \A d \in Calls \ {c} : KeyOf(d)' = KeyOf(d)
  BY DEF KeyOf
<1>3. CASE l # k
  <2>1. AnsweredOn(l)' = AnsweredOn(l) /\ FailedOn(l)' = FailedOn(l)
    BY <1>3, <1>5 DEF AnsweredOn, FailedOn
  <2> QED
    BY <1>1, <1>3, <2>1 DEF Counting
<1>4. CASE l = k
  <2>1. /\ AnsweredOn(k)' = AnsweredOn(k) \cup {c} /\ c \notin AnsweredOn(k)
        /\ FailedOn(k)' = IF failed THEN FailedOn(k) \cup {c} ELSE FailedOn(k)
        /\ c \notin FailedOn(k)
    BY <1>5 DEF AnsweredOn, FailedOn
  <2>2. IsFiniteSet(AnsweredOn(k)) /\ IsFiniteSet(FailedOn(k))
    BY ToolCallsAssumption, FS_Subset DEF AnsweredOn, FailedOn
  <2>3. /\ Cardinality(AnsweredOn(k) \cup {c}) = Cardinality(AnsweredOn(k)) + 1
        /\ Cardinality(FailedOn(k) \cup {c}) = Cardinality(FailedOn(k)) + 1
        /\ Cardinality(AnsweredOn(k)) \in Nat /\ Cardinality(FailedOn(k)) \in Nat
    BY <2>1, <2>2, FS_AddElement, FS_CardinalityType
  <2>4. /\ metrics[k].total = Cardinality(AnsweredOn(k))
        /\ metrics[k].failed = Cardinality(FailedOn(k))
    BY DEF Counting
  <2>5. /\ metrics'[k].total = metrics[k].total + 1
        /\ metrics'[k].failed = metrics[k].failed + (IF failed THEN 1 ELSE 0)
    BY <1>1
  <2> QED
    BY <1>4, <2>1, <2>3, <2>4, <2>5
<1> QED
  BY <1>3, <1>4

\* A step that answers nothing counts nothing.
LEMMA UnansweredKeepsCounting ==
  ASSUME Counting, metrics' = metrics,
         \A d \in Calls :
           /\ pc'[d] = "answered" <=> pc[d] = "answered"
           /\ pc[d] = "answered" => call'[d] = call[d]
  PROVE  Counting'
<1>1. ASSUME NEW k \in Keys
      PROVE  AnsweredOn(k)' = AnsweredOn(k) /\ FailedOn(k)' = FailedOn(k)
  <2>1. \A d \in Calls : (pc'[d] = "answered" /\ KeyOf(d)' = k) <=> (pc[d] = "answered" /\ KeyOf(d) = k)
    BY DEF KeyOf
  <2>2. AnsweredOn(k)' = AnsweredOn(k)
    BY <2>1 DEF AnsweredOn
  <2>3. \A d \in AnsweredOn(k) : call'[d] = call[d]
    BY DEF AnsweredOn
  <2> QED
    BY <2>2, <2>3 DEF FailedOn
<1> QED
  BY <1>1 DEF Counting

-----------------------------------------------------------------------------
(* The steps.                                                                *)

\* A logged entry keeps the ring, and so does a step that logs nothing.
LEMMA LogKeepsRing ==
  ASSUME RingInv, NEW c \in Calls,
         \/ UNCHANGED vars
         \/ \E op \in {"authorization", "operation"}, success \in {"true", "false", "unset"} :
              AuditLog(c, op, success)
  PROVE  RingInv'
<1>1. CASE UNCHANGED vars
  BY <1>1 DEF vars, RingInv, TypeOK, At
<1>2. CASE \E op \in {"authorization", "operation"}, success \in {"true", "false", "unset"} :
             AuditLog(c, op, success)
  <2>1. PICK op \in {"authorization", "operation"}, success \in {"true", "false", "unset"} :
          AuditLog(c, op, success)
    BY <1>2
  <2>2. [call |-> c, op |-> op, success |-> success] \in Records
    BY ToolCallsAssumption DEF Entries
  <2> QED
    BY <2>1, <2>2, PushRing DEF AuditLog
<1> QED
  BY <1>1, <1>2

\* An evaluation belongs to the call that was answered.
LEMMA RecordKeepsEvaluating ==
  ASSUME Evaluating, AlertTypes, NEW c \in Calls, NEW k, NEW failed, NEW since,
         RecordToolCall(c, k, failed, since), pc'[c] = "answered",
         \A d \in Calls \ {c} : pc'[d] = pc[d]
  PROVE  Evaluating'
<1>1. \E e : alert' = [alert EXCEPT ![c] = e]
  BY DEF RecordToolCall, CheckRate, Send
<1>2. \A d \in Calls \ {c} : alert'[d] = alert[d]
  BY <1>1 DEF AlertTypes
<1> QED
  BY <1>2 DEF Evaluating

\* A call that arrives is refused and counted, or runs.
LEMMA ArrivalStep ==
  ASSUME CallsInv, NEW c \in Calls, NEW o \in Operations,
         UnknownConnection(c, o) \/ Deny(c, o) \/ Allow(c, o)
  PROVE  CallsInv'
<1>1. now \in Nat /\ pc[c] = "idle" /\ now' = now
  BY DEF CallsInv, Alerting, AlertTypes, UnknownConnection, Deny, Allow, Arrive
<1>2. CallTypes' /\ Auditing'
  BY <1>1, ArrivalKeeps DEF CallsInv
<1>3. CASE Allow(c, o)
  <2>1. Arrive(c, o, ConnectionIdOf(o), "none") /\ UNCHANGED alertVars
    BY <1>3 DEF Allow
  <2>2. pc'[c] = "running" /\ \A d \in Calls \ {c} : pc'[d] = pc[d] /\ call'[d] = call[d]
    BY <1>1, <2>1, Arrived, DecidedIds DEF CallsInv
  <2>3. Alerting'
    BY <1>1, <2>1 DEF CallsInv, Alerting, AlertTypes, Remembered, AlertsSpaced, StormReported, alertVars
  <2>4. Counting'
    BY <1>1, <2>1, <2>2, UnansweredKeepsCounting DEF CallsInv, alertVars
  <2>5. RingInv'
    BY <1>3, LogKeepsRing DEF CallsInv, Allow
  <2>6. Evaluating'
    BY <1>1, <2>1, <2>2 DEF CallsInv, Evaluating, alertVars
  <2> QED
    BY <1>2, <2>3, <2>4, <2>5, <2>6 DEF CallsInv
<1>4. CASE UnknownConnection(c, o) \/ Deny(c, o)
  <2>1. PICK id \in Ids : /\ Arrive(c, o, id, "error")
                          /\ RecordToolCall(c, <<o.tool, id>>, TRUE, now)
                          /\ <<o.tool, id>> \in Keys
    BY <1>4, DecidedIds DEF UnknownConnection, Deny
  <2>2. /\ pc'[c] = "answered" /\ call'[c].op = o /\ call'[c].connectionId = id
        /\ call'[c].answer = "error"
        /\ \A d \in Calls \ {c} : pc'[d] = pc[d] /\ call'[d] = call[d]
    BY <1>1, <2>1, Arrived DEF CallsInv
  <2>3. PICK k \in Keys, failed \in BOOLEAN :
          RecordToolCall(c, k, failed, now) /\ failed = TRUE /\ k = <<o.tool, id>>
    BY <2>1
  <2>4. now \in Int /\ pc[c] # "answered" /\ (failed <=> call'[c].answer = "error") /\ KeyOf(c)' = k
    BY <1>1, <2>2, <2>3 DEF KeyOf
  <2>5. Alerting'
    BY <1>1, <2>3, <2>4, RecordKeepsAlerting DEF CallsInv
  <2>6. Counting'
    BY <2>2, <2>3, <2>4, RecordKeepsCounting DEF CallsInv
  <2>7. RingInv'
    BY <1>4, LogKeepsRing DEF CallsInv, UnknownConnection, Deny
  <2>8. Evaluating'
    BY <2>2, <2>3, RecordKeepsEvaluating DEF CallsInv, Alerting
  <2> QED
    BY <1>2, <2>5, <2>6, <2>7, <2>8 DEF CallsInv
<1> QED
  BY <1>3, <1>4

\* The operation happens.
LEMMA ExecutedStep ==
  ASSUME CallsInv, NEW c \in Calls, Executed(c)
  PROVE  CallsInv'
<1>1. CallTypes' /\ Auditing'
  BY ExecutedKeeps DEF CallsInv
<1>2. UNCHANGED <<call, vars, alertVars, now>>
  BY DEF Executed
<1>3. Alerting'
  BY <1>2 DEF CallsInv, Alerting, AlertTypes, Remembered, AlertsSpaced, StormReported, alertVars
<1>4. Counting'
  BY <1>2, UnansweredKeepsCounting DEF CallsInv, CallTypes, Executed, alertVars
<1>5. RingInv'
  BY <1>2, LogKeepsRing DEF CallsInv
<1>6. Evaluating'
  BY <1>2 DEF CallsInv, CallTypes, Evaluating, Executed, alertVars
<1> QED
  BY <1>1, <1>3, <1>4, <1>5, <1>6 DEF CallsInv

\* A call that arrived has metrics of its own.
LEMMA KeyTyped ==
  ASSUME CallTypes, Auditing, NEW c \in Calls, pc[c] # "idle"
  PROVE  KeyOf(c) \in Keys
<1>1. call[c].op \in Operations /\ call[c].connectionId \in Ids
  BY DEF CallTypes, Call, Auditing, AuditOf
<1> QED
  BY <1>1 DEF KeyOf, Keys, Ids

\* The call is answered.
LEMMA SettledStep ==
  ASSUME CallsInv, NEW c \in Calls, Refuse(c) \/ CacheHit(c) \/ Succeed(c) \/ Fail(c)
  PROVE  CallsInv'
<1>1. CallTypes' /\ Auditing'
  BY SettledKeeps DEF CallsInv
<1>2. PICK answer \in {"ok", "error"} : Answer(c, answer)
  BY DEF Refuse, CacheHit, Succeed, Fail
<1>3. pc[c] # "answered" /\ pc[c] # "idle" /\ now' = now
  BY DEF Refuse, CacheHit, Succeed, Fail
<1>4. /\ pc'[c] = "answered" /\ call'[c].answer = answer /\ KeyOf(c)' = KeyOf(c)
      /\ \A d \in Calls \ {c} : pc'[d] = pc[d] /\ call'[d] = call[d]
  BY <1>2, Answered DEF CallsInv, KeyOf
<1>5. PICK k \in Keys, failed \in BOOLEAN, since \in Int :
        /\ RecordToolCall(c, k, failed, since)
        /\ k = KeyOf(c) /\ (failed <=> answer = "error")
  <2>1. KeyOf(c) \in Keys /\ call[c].started \in Int
    BY <1>3, KeyTyped DEF CallsInv, CallTypes, Call
  <2>2. RecordToolCall(c, KeyOf(c), answer = "error", call[c].started)
    BY <1>2 DEF Answer
  <2> QED
    BY <2>1, <2>2
<1>6. Alerting'
  BY <1>3, <1>5, RecordKeepsAlerting DEF CallsInv
<1>7. Counting'
  BY <1>3, <1>4, <1>5, RecordKeepsCounting DEF CallsInv
<1>8. RingInv'
  BY LogKeepsRing DEF CallsInv, Refuse, CacheHit, Succeed, Fail, AuditOperation, Outcome
<1>9. Evaluating'
  BY <1>4, <1>5, RecordKeepsEvaluating DEF CallsInv, Alerting
<1> QED
  BY <1>1, <1>6, <1>7, <1>8, <1>9 DEF CallsInv

\* The webhook call ends, and the second alert is evaluated.
LEMMA DispatchStep ==
  ASSUME CallsInv, NEW c \in Calls, DispatchEnds(c)
  PROVE  CallsInv'
<1>1. UNCHANGED <<pc, call, unsettled, effects, vars, metrics, now>>
  BY DEF DispatchEnds
<1>2. CallTypes' /\ Auditing'
  BY <1>1 DEF CallsInv, CallTypes, Auditing, AuditOf, Authorized, Reported, EntriesOf, vars
<1>3. Counting'
  BY <1>1, UnansweredKeepsCounting DEF CallsInv
<1>4. RingInv'
  BY <1>1, LogKeepsRing DEF CallsInv
<1>5. /\ KeyOf(c) \in Keys /\ metrics' \in [Keys -> Metric] /\ now' = now
      /\ alert[c].total \in Nat /\ alert[c].failed \in Nat
  <2>1. pc[c] # "idle"
    BY DEF CallsInv, Evaluating, DispatchEnds
  <2> QED
    BY <1>1, <2>1, KeyTyped DEF CallsInv, Alerting, AlertTypes
<1>8. Evaluating'
  <2>1. \E e : alert' = [alert EXCEPT ![c] = e]
    BY DEF DispatchEnds, CheckRate, Send
  <2>2. \A d \in Calls \ {c} : alert'[d] = alert[d]
    BY <2>1 DEF CallsInv, Alerting, AlertTypes
  <2> QED
    BY <1>1, <2>2 DEF CallsInv, Evaluating, DispatchEnds
<1>6. ASSUME alert[c].stage = "slow"
      PROVE  Alerting'
  <2>1. CheckRate(c, KeyOf(c), call[c].answer = "error", alert[c])
    BY <1>6 DEF DispatchEnds
  <2> QED
    BY <1>5, <2>1, RateIsReported DEF CallsInv
<1>7. ASSUME alert[c].stage # "slow"
      PROVE  Alerting'
  <2>1. alert' = [alert EXCEPT ![c] = Evaluated] /\ UNCHANGED <<lastAlertAt, sent, due>>
    BY <1>7 DEF DispatchEnds
  <2>2. AlertTypes'
    BY <1>1, <2>1 DEF CallsInv, Alerting, AlertTypes, Evaluated, Kinds
  <2> QED
    BY <1>1, <2>1, <2>2 DEF CallsInv, Alerting, Remembered, AlertsSpaced, StormReported
<1> QED
  BY <1>2, <1>3, <1>4, <1>6, <1>7, <1>8 DEF CallsInv

\* Time passes.
LEMMA TickStep ==
  ASSUME CallsInv, Tick
  PROVE  CallsInv'
<1>1. UNCHANGED <<pc, call, unsettled, effects, vars, alertVars>> /\ now' = now + 1 /\ now \in Nat
  BY DEF CallsInv, Alerting, AlertTypes, Tick
<1>2. CallTypes' /\ Auditing'
  BY <1>1 DEF CallsInv, CallTypes, Auditing, AuditOf, Authorized, Reported, EntriesOf, vars
<1>3. Counting'
  BY <1>1, UnansweredKeepsCounting DEF CallsInv, alertVars
<1>4. RingInv'
  BY <1>1 DEF CallsInv, RingInv, TypeOK, At, vars
<1>5. AlertTypes'
  BY <1>1 DEF CallsInv, Alerting, AlertTypes, alertVars
<1>6. Remembered'
  BY <1>1 DEF CallsInv, Alerting, AlertTypes, Remembered, alertVars, Never
<1>7. AlertsSpaced' /\ StormReported'
  BY <1>1 DEF CallsInv, Alerting, AlertsSpaced, StormReported, alertVars
<1>8. Evaluating'
  BY <1>1 DEF CallsInv, Evaluating, alertVars
<1> QED
  BY <1>2, <1>3, <1>4, <1>5, <1>6, <1>7, <1>8 DEF CallsInv, Alerting

\* Nobody has called yet.
LEMMA InitCalls == CallsInit => CallsInv
<1> SUFFICES ASSUME CallsInit
             PROVE  CallsInv
  OBVIOUS
<1>1. RingInv
  BY InitRing DEF CallsInit
<1>2. CallTypes
  BY DEF CallsInit, CallTypes, Call, Ids, Blank, Init
<1>3. Alerting
  BY DEF CallsInit, Alerting, AlertTypes, Remembered, AlertsSpaced, StormReported, Evaluated,
     Metric, Kinds, Never
<1>4. Auditing
  BY DEF CallsInit, Auditing, AuditOf, Reported, EntriesOf, Blank, Init
<1>5. Counting
  <2>1. \A k \in Keys : AnsweredOn(k) = {} /\ FailedOn(k) = {}
    BY DEF CallsInit, AnsweredOn, FailedOn
  <2> QED
    BY <2>1, FS_EmptySet DEF CallsInit, Counting
<1>6. Evaluating
  BY DEF CallsInit, Evaluating, Evaluated
<1> QED
  BY <1>1, <1>2, <1>3, <1>4, <1>5, <1>6 DEF CallsInv

\* Every step keeps the invariant.
LEMMA StepCalls ==
  ASSUME CallsInv, [CallsNext]_callVars
  PROVE  CallsInv'
<1>1. CASE Tick
  BY <1>1, TickStep
<1>2. ASSUME NEW c \in Calls, NEW o \in Operations,
             UnknownConnection(c, o) \/ Deny(c, o) \/ Allow(c, o)
      PROVE  CallsInv'
  BY <1>2, ArrivalStep
<1>4. ASSUME NEW c \in Calls, Executed(c)
      PROVE  CallsInv'
  BY <1>4, ExecutedStep
<1>5. ASSUME NEW c \in Calls, Refuse(c) \/ CacheHit(c) \/ Succeed(c) \/ Fail(c)
      PROVE  CallsInv'
  BY <1>5, SettledStep
<1>6. ASSUME NEW c \in Calls, DispatchEnds(c)
      PROVE  CallsInv'
  BY <1>6, DispatchStep
<1>7. CASE UNCHANGED callVars
  <2>1. UNCHANGED <<pc, call, unsettled, effects, vars, alertVars, now>>
    BY <1>7 DEF callVars
  <2>2. CallTypes' /\ Auditing'
    BY <2>1 DEF CallsInv, CallTypes, Auditing, AuditOf, Authorized, Reported, EntriesOf, vars
  <2>3. Counting' /\ RingInv'
    BY <2>1 DEF CallsInv, Counting, AnsweredOn, FailedOn, KeyOf, RingInv, TypeOK, At, vars, alertVars
  <2>4. Alerting'
    BY <2>1 DEF CallsInv, Alerting, AlertTypes, Remembered, AlertsSpaced, StormReported, alertVars
  <2>5. Evaluating'
    BY <2>1 DEF CallsInv, Evaluating, alertVars
  <2> QED
    BY <2>2, <2>3, <2>4, <2>5 DEF CallsInv
<1> QED
  BY <1>1, <1>2, <1>4, <1>5, <1>6, <1>7 DEF CallsNext

\* The inductive invariant, for any operations, limits and sizes of the ring: who is past
\* the authorization, what was logged, and what was counted and posted for which tool and
\* connection, as the authorization has it.
THEOREM CallsInvariant == CallsSpec => []CallsInv
<1>1. CallsInv /\ [CallsNext]_callVars => CallsInv'
  BY StepCalls
<1> QED
  BY <1>1, InitCalls, PTL DEF CallsSpec

\* However calls overlap, outlive their timeout and fail, the audit log has the decision
\* before the operation, no success that did not happen, and an entry of every operation
\* that took effect, was answered ok and is one its driver audits.
THEOREM AuditLogTells == CallsSpec => []AuditTells
<1>1. CallsInv => AuditTells
  BY InvTells DEF CallsInv
<1> QED
  BY <1>1, CallsInvariant, PTL

\* The metrics of every tool and connection count once the answers and the errors of the
\* calls the authorization took to be on it; a call that names its connection is taken to
\* be on the default one.
THEOREM MetricsCount == CallsSpec => []MetricsMatch
<1>1. CallsInv => MetricsMatch
  BY DEF CallsInv, Counting, AnsweredOn, FailedOn, MetricsMatch
<1> QED
  BY <1>1, CallsInvariant, PTL

\* Two alerts of a kind about one tool and connection, as the authorization has it, are
\* never closer than the cooldown, whatever evaluations the webhook holds up.
THEOREM AlertsKeepDistance == CallsSpec => []AlertsSpaced
<1>1. CallsInv => AlertsSpaced
  BY DEF CallsInv, Alerting
<1> QED
  BY <1>1, CallsInvariant, PTL

\* The cooldown suppresses no failure rate of a tool and connection, as the authorization
\* has it, for longer than itself.
THEOREM StormsAreReported == CallsSpec => []StormReported
<1>1. CallsInv => StormReported
  BY DEF CallsInv, Alerting
<1> QED
  BY <1>1, CallsInvariant, PTL

\* The audit log of interleaved calls keeps and tells the newest entries, like any ring.
THEOREM CallsRingTells == CallsSpec => []RingTellsNewest
<1>1. RingInv => RingTellsNewest
  BY RingInvTells
<1> QED
  BY <1>1, CallsInvariant, PTL DEF CallsInv
=============================================================================
