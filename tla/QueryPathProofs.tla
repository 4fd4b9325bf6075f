-------------------------- MODULE QueryPathProofs --------------------------
(* What TLAPS proves of QueryPath, for any clients, queries, cache size,     *)
(* times and number of attempts.                                             *)
EXTENDS QueryPath, SequenceTheorems, TLAPS

Distinct(s) == \A i, j \in DOMAIN s : s[i] = s[j] => i = j

\* What the removal of an element leaves of a sequence without duplicates.
LEMMA RemovedProperties ==
  ASSUME NEW S, NEW s \in Seq(S), Distinct(s), NEW e
  PROVE  /\ RemoveFirst(s, e) \in Seq(S) /\ Distinct(RemoveFirst(s, e))
         /\ ToSet(RemoveFirst(s, e)) \subseteq ToSet(s) \ {e}
<1>1. CASE e \notin ToSet(s)
  <2>1. RemoveFirst(s, e) = s
    BY <1>1 DEF RemoveFirst, ToSet
  <2> QED
    BY <1>1, <2>1
<1>2. CASE e \in ToSet(s)
  <2>1. PICK p \in 1..Len(s) : s[p] = e
    BY <1>2 DEF ToSet
  <2>2. {i \in 1..Len(s) : s[i] = e} = {p}
    BY <2>1 DEF Distinct
  <2>3. RemoveFirst(s, e) = RemoveAt(s, p)
    BY <2>1, <2>2 DEF RemoveFirst, SelectInSeq, Min
  <2>4. RemoveAt(s, p) = SubSeq(s, 1, p - 1) \o SubSeq(s, p + 1, Len(s))
    BY DEF RemoveAt
  <2> DEFINE r == SubSeq(s, 1, p - 1) \o SubSeq(s, p + 1, Len(s))
  <2>5. /\ r \in Seq(S) /\ Len(r) = Len(s) - 1
        /\ \A i \in 1..Len(s) - 1 : r[i] = IF i < p THEN s[i] ELSE s[i + 1]
    <3> DEFINE a == SubSeq(s, 1, p - 1)
               b == SubSeq(s, p + 1, Len(s))
    <3>1. /\ a \in Seq(S) /\ Len(a) = p - 1 /\ \A i \in 1..p - 1 : a[i] = s[i]
      BY <2>1
    <3>2. /\ b \in Seq(S) /\ Len(b) = Len(s) - p /\ \A i \in 1..Len(s) - p : b[i] = s[p + i]
      BY <2>1
    <3> HIDE DEF a, b
    <3>3. /\ a \o b \in Seq(S) /\ Len(a \o b) = Len(a) + Len(b)
          /\ \A i \in 1..Len(a) + Len(b) : (a \o b)[i] = IF i <= Len(a) THEN a[i] ELSE b[i - Len(a)]
      BY <3>1, <3>2, ConcatProperties
    <3>4. Len(a) + Len(b) = Len(s) - 1
      BY <2>1, <3>1, <3>2
    <3>5. ASSUME NEW i \in 1..Len(s) - 1
          PROVE  (a \o b)[i] = IF i < p THEN s[i] ELSE s[i + 1]
      <4>1. ASSUME i < p
            PROVE  (a \o b)[i] = s[i]
        BY <2>1, <3>1, <3>3, <3>4, <4>1
      <4>2. ASSUME ~(i < p)
            PROVE  (a \o b)[i] = s[i + 1]
        <5>1. /\ i - (p - 1) \in 1..Len(s) - p /\ p + (i - (p - 1)) = i + 1
              /\ ~(i <= p - 1) /\ i \in 1..Len(a) + Len(b)
          BY <2>1, <3>4, <4>2
        <5>2. (a \o b)[i] = b[i - (p - 1)]
          BY <3>1, <3>3, <5>1
        <5> QED
          BY <3>2, <5>1, <5>2
      <4> QED
        BY <4>1, <4>2
    <3> QED
      BY <3>3, <3>4, <3>5 DEF a, b
  <2> HIDE DEF r
  <2>6. \A i \in 1..Len(r) : \E j \in 1..Len(s) \ {p} : r[i] = s[j]
    BY <2>1, <2>5
  <2>7. ToSet(r) \subseteq ToSet(s) \ {e}
    <3>1. DOMAIN r = 1..Len(r) /\ DOMAIN s = 1..Len(s)
      BY <2>5
    <3>2. \A j \in 1..Len(s) \ {p} : s[j] \in ToSet(s) \ {e}
      BY <2>1, <3>1 DEF ToSet, Distinct
    <3> QED
      BY <2>6, <3>1, <3>2 DEF ToSet
  <2>8. Distinct(r)
    BY <2>1, <2>5 DEF Distinct
  <2> QED
    BY <2>3, <2>4, <2>5, <2>7, <2>8 DEF r
<1> QED
  BY <1>1, <1>2

\* What a new element adds to a sequence without duplicates.
LEMMA AppendedProperties ==
  ASSUME NEW S, NEW s \in Seq(S), Distinct(s), NEW e \in S, e \notin ToSet(s)
  PROVE  /\ Append(s, e) \in Seq(S) /\ Distinct(Append(s, e))
         /\ ToSet(Append(s, e)) \subseteq ToSet(s) \cup {e}
<1> DEFINE r == Append(s, e)
<1>1. /\ r \in Seq(S) /\ Len(r) = Len(s) + 1 /\ r[Len(s) + 1] = e /\ Len(s) \in Nat
      /\ \A i \in 1..Len(s) : r[i] = s[i]
  OBVIOUS
<1> HIDE DEF r
<1>2. \A i \in 1..Len(s) : s[i] \in ToSet(s)
  BY DEF ToSet
<1>3. Distinct(r)
  BY <1>1, <1>2 DEF Distinct
<1>4. ToSet(r) \subseteq ToSet(s) \cup {e}
  BY <1>1, <1>2 DEF ToSet
<1> QED
  BY <1>1, <1>3, <1>4 DEF r

\* What is left after the first element.
LEMMA TailedProperties ==
  ASSUME NEW S, NEW s \in Seq(S), s # << >>, Distinct(s)
  PROVE  Tail(s) \in Seq(S) /\ Distinct(Tail(s)) /\ ToSet(Tail(s)) \subseteq ToSet(s)
<1>1. /\ Tail(s) \in Seq(S) /\ Len(Tail(s)) = Len(s) - 1
      /\ \A i \in 1..Len(Tail(s)) : Tail(s)[i] = s[i + 1]
  BY HeadTailProperties
<1>2. Distinct(Tail(s))
  BY <1>1 DEF Distinct
<1>3. ToSet(Tail(s)) \subseteq ToSet(s)
  BY <1>1 DEF ToSet
<1> QED
  BY <1>1, <1>2, <1>3

-----------------------------------------------------------------------------
(* The inductive invariant.                                                  *)

Replies == {"done", "lost", "refused"}

Types ==
  /\ call \in [Clients -> [at : {"idle", "waiting", "sleeping"}, key : Queries,
                           attempt : Nat, age : Nat]]
  /\ reply \in [Clients -> [kind : {"none"} \cup Replies, data : Nat]]
  /\ wire \subseteq Clients
  /\ db \in Nat /\ ended \in Seq(Nat) /\ Len(ended) = db
  /\ applied \in [Writers -> Nat]
  /\ verdict \in [Writers -> {"none", "timeout"} \cup Replies]

\* A reply is of a call that waits, and the statement is not at the server any more.
Waiting ==
  \A c \in Clients :
    /\ reply[c].kind # "none" => call[c].at = "waiting" /\ c \notin wire
    /\ call[c].at = "waiting" => call[c].age <= QueryTimeout

\* Where the one statement of a writer is.
WriterOf(w) ==
  /\ call[w].at # "sleeping" /\ applied[w] <= 1
  /\ verdict[w] # "none" => call[w].at = "idle"
  /\ w \in wire => applied[w] = 0 /\ verdict[w] = IF call[w].at = "idle" THEN "timeout" ELSE "none"
  /\ call[w].at = "idle" /\ verdict[w] = "none" => applied[w] = 0
  /\ reply[w].kind = "done" => applied[w] = 1
  /\ reply[w].kind = "refused" => applied[w] = 0
  /\ verdict[w] = "done" => applied[w] = 1
  /\ verdict[w] = "refused" => applied[w] = 0

Writing == \A w \in Writers : WriterOf(w)

\* The cache names queries that have an entry, each once.
Caching ==
  /\ cache \in Seq(Keys) /\ Distinct(cache)
  /\ ToSet(cache) \subseteq DOMAIN entry
  /\ \A k \in DOMAIN entry : entry[k] \in [data : Nat, age : 0..Ttl + 1]

\* Rows were current when the server read them, for an attempt no older than the call;
\* an entry ages as fast as its version does.
Fresh ==
  /\ \A c \in Clients : reply[c].kind = "done" =>
       reply[c].data <= db /\ Staleness(reply[c].data) <= call[c].age
  /\ \A k \in DOMAIN entry :
       /\ entry[k].data <= db
       /\ entry[k].age <= Ttl => Staleness(entry[k].data) <= entry[k].age + QueryTimeout

IInv == Types /\ Waiting /\ Writing /\ Caching /\ Fresh

\* set keeps one entry of each query, the new one among them.
LEMMA StoreKeeps ==
  ASSUME Caching, NEW k \in Keys, NEW version \in Nat, Store(k, version)
  PROVE  /\ Caching'
         /\ \A i \in DOMAIN entry' :
              \/ i = k /\ entry'[i] = [data |-> version, age |-> 0]
              \/ i \in DOMAIN entry /\ entry'[i] = entry[i]
<1>1. RoomMade \in Seq(Keys) /\ Distinct(RoomMade) /\ ToSet(RoomMade) \subseteq ToSet(cache)
  <2>1. Len(cache) >= MaxSize => cache # << >>
    BY QueryAssumption DEF Caching
  <2> QED
    BY <2>1, TailedProperties DEF RoomMade, Caching
<1>2. cache' \in Seq(Keys) /\ Distinct(cache') /\ ToSet(cache') \subseteq ToSet(cache) \cup {k}
  BY <1>1, AppendedProperties DEF Store, Placed
<1>3. entry' = [i \in ToSet(cache') |->
                  IF i = k THEN [data |-> version, age |-> 0] ELSE entry[i]]
  BY DEF Store
<1>4. \A i \in DOMAIN entry' :
        \/ i = k /\ entry'[i] = [data |-> version, age |-> 0]
        \/ i \in DOMAIN entry /\ entry'[i] = entry[i]
  BY <1>2, <1>3 DEF Caching
<1>5. [data |-> version, age |-> 0] \in [data : Nat, age : 0..Ttl + 1]
  BY QueryAssumption
<1> QED
  BY <1>2, <1>3, <1>4, <1>5 DEF Caching

\* A hit moves the query to the end of the cache.
LEMMA HitStep ==
  ASSUME IInv, NEW c \in Readers, NEW k \in Keys, Hit(c, k)
  PROVE  IInv'
<1> USE QueryAssumption DEF IInv, server, caching, Clients, Queries, Replies, Hit, HitKeeps
<1>1. Types'
  BY DEF Types
<1>2. Waiting'
  BY DEF Types, Waiting
<1>3. Writing'
  BY DEF Types, Waiting, Writing, WriterOf
<1>4. Caching'
  <2> DEFINE rest == RemoveFirst(cache, k)
  <2>1. rest \in Seq(Keys) /\ Distinct(rest) /\ ToSet(rest) \subseteq ToSet(cache) \ {k}
    BY RemovedProperties DEF Caching
  <2>2. cache' = Append(rest, k) /\ k \in ToSet(cache)
    BY DEF Usable
  <2> HIDE DEF rest
  <2>3. cache' \in Seq(Keys) /\ Distinct(cache') /\ ToSet(cache') \subseteq ToSet(cache)
    BY <2>1, <2>2, AppendedProperties
  <2> QED
    BY <2>3 DEF Caching
<1>5. Fresh'
  BY DEF Types, Waiting, Caching, Fresh, Staleness
<1> QED
  BY <1>1, <1>2, <1>3, <1>4, <1>5

\* A miss drops what has expired and asks the server.
LEMMA MissStep ==
  ASSUME IInv, NEW c \in Readers, NEW k \in Queries, Miss(c, k)
  PROVE  IInv'
<1> USE QueryAssumption DEF IInv, server, caching, Clients, Queries, Replies, Miss, Send, NoReply
<1>1. Types'
  BY DEF Types
<1>2. Waiting'
  BY DEF Types, Waiting
<1>3. Writing'
  BY DEF Types, Waiting, Writing, WriterOf
<1>4. Caching'
  <2>1. cache' \in Seq(Keys) /\ Distinct(cache') /\ ToSet(cache') \subseteq ToSet(cache)
    BY RemovedProperties DEF Caching
  <2> QED
    BY <2>1 DEF Caching
<1>5. Fresh'
  <2>1. DOMAIN entry' \subseteq DOMAIN entry /\ \A i \in DOMAIN entry' : entry'[i] = entry[i]
    <3>1. ToSet(cache') \subseteq ToSet(cache)
      BY RemovedProperties DEF Caching
    <3> QED
      BY <3>1 DEF Caching
  <2>2. \A d \in Clients : reply'[d].kind = "done" =>
          reply'[d] = reply[d] /\ call'[d] = call[d]
    BY DEF Types
  <2>3. db' = db /\ ended' = ended
    OBVIOUS
  <2> HIDE DEF Miss, Send
  <2> QED
    BY <2>1, <2>2, <2>3 DEF Fresh, Staleness
<1> QED
  BY <1>1, <1>2, <1>3, <1>4, <1>5

\* A write is sent once.
LEMMA ExecuteStep ==
  ASSUME IInv, NEW w \in Writers, Execute(w)
  PROVE  IInv'
<1> USE QueryAssumption DEF IInv, server, caching, Clients, Queries, Replies, Execute, Send, NoReply
<1>1. Types'
  BY DEF Types
<1>2. Waiting'
  BY DEF Types, Waiting
<1>3. Writing'
  BY DEF Types, Waiting, Writing, WriterOf
<1>4. Caching'
  BY DEF Caching
<1>5. Fresh'
  BY DEF Types, Waiting, Caching, Fresh, Staleness
<1> QED
  BY <1>1, <1>2, <1>3, <1>4, <1>5

\* The rows that are cached are as old as their call at most.
LEMMA DeliverStep ==
  ASSUME IInv, NEW c \in Clients, Deliver(c)
  PROVE  IInv'
<1> USE QueryAssumption DEF IInv, server, caching, Clients, Queries, Replies, Deliver, Told, Idle, NoReply
<1>1. Types'
  BY DEF Types
<1>2. Waiting'
  BY DEF Types, Waiting
<1>3. Writing'
  BY DEF Types, Waiting, Writing, WriterOf
<1>6. reply[c].data \in Nat /\ call[c].at = "waiting" /\ call[c].age <= QueryTimeout
  BY DEF Types, Waiting
<1>7. (call[c].key \in Keys /\ Store(call[c].key, reply[c].data)) \/ UNCHANGED <<cache, entry>>
  OBVIOUS
<1>4. Caching'
  BY <1>6, <1>7, StoreKeeps DEF Caching
<1>5. Fresh'
  <2>1. \A i \in DOMAIN entry' :
          \/ entry'[i] = [data |-> reply[c].data, age |-> 0]
          \/ i \in DOMAIN entry /\ entry'[i] = entry[i]
    BY <1>6, <1>7, StoreKeeps
  <2>2. reply[c].data <= db /\ Staleness(reply[c].data) <= call[c].age
    BY DEF Fresh
  <2>3. \A d \in Clients : reply'[d].kind = "done" =>
          reply'[d] = reply[d] /\ call'[d] = call[d]
    BY DEF Types
  <2>4. db' = db /\ ended' = ended
    OBVIOUS
  <2>5. Staleness(reply[c].data) \in Nat /\ call[c].age \in Nat
    BY <2>2 DEF Types, Staleness
  <2> HIDE DEF Deliver
  <2>6. \A v : Staleness(v)' = Staleness(v)
    BY <2>4 DEF Staleness
  <2>7. ASSUME NEW i \in DOMAIN entry'
        PROVE  /\ entry'[i].data <= db'
               /\ entry'[i].age <= Ttl => Staleness(entry'[i].data) <= entry'[i].age + QueryTimeout
    <3>1. CASE entry'[i] = [data |-> reply[c].data, age |-> 0]
      BY <1>6, <2>2, <2>4, <2>5, <3>1
    <3>2. CASE i \in DOMAIN entry /\ entry'[i] = entry[i]
      BY <2>4, <3>2 DEF Fresh
    <3> QED
      BY <2>1, <3>1, <3>2
  <2> QED
    BY <2>3, <2>4, <2>6, <2>7 DEF Fresh
<1> QED
  BY <1>1, <1>2, <1>3, <1>4, <1>5

\* Only reads are kept for another attempt.
LEMMA RejectStep ==
  ASSUME IInv, NEW c \in Clients, Reject(c)
  PROVE  IInv'
<1> USE QueryAssumption DEF IInv, server, caching, Clients, Queries, Replies, Reject, Retriable, Told, Idle, NoReply
<1>1. Types'
  <2> DEFINE Call == [at : {"idle", "waiting", "sleeping"}, key : Queries, attempt : Nat, age : Nat]
  <2>1. call \in [Clients -> Call] /\ call[c] \in Call /\ Idle \in Call
    BY DEF Types
  <2>2. [call[c] EXCEPT !.at = "sleeping", !.age = 0] \in Call
    <3>1. [call[c] EXCEPT !.at = "sleeping"] \in Call
      BY <2>1
    <3>2. \A r \in Call : [r EXCEPT !.age = 0] \in Call
      OBVIOUS
    <3> QED
      BY <3>1, <3>2
  <2>3. \/ call' = [call EXCEPT ![c] = [call[c] EXCEPT !.at = "sleeping", !.age = 0]]
        \/ call' = [call EXCEPT ![c] = Idle]
    BY <2>1
  <2> HIDE DEF Call
  <2>4. call' \in [Clients -> Call]
    BY <2>1, <2>2, <2>3
  <2>5. verdict' \in [Writers -> {"none", "timeout"} \cup Replies]
    BY DEF Types
  <2> QED
    BY <2>4, <2>5 DEF Types, Call
<1>2. Waiting'
  BY DEF Types, Waiting
<1>3. Writing'
  BY DEF Types, Waiting, Writing, WriterOf
<1>4. Caching'
  BY DEF Caching
<1>5. Fresh'
  BY DEF Types, Waiting, Caching, Fresh, Staleness
<1> QED
  BY <1>1, <1>2, <1>3, <1>4, <1>5

\* Another attempt starts with the age of none.
LEMMA RetryStep ==
  ASSUME IInv, NEW c \in Clients, Retry(c)
  PROVE  IInv'
<1> USE QueryAssumption DEF IInv, server, caching, Clients, Queries, Replies, Retry, Send, NoReply
<1>1. Types'
  BY DEF Types
<1>2. Waiting'
  BY DEF Types, Waiting
<1>3. Writing'
  BY DEF Types, Waiting, Writing, WriterOf
<1>4. Caching'
  BY DEF Caching
<1>5. Fresh'
  BY DEF Types, Waiting, Caching, Fresh, Staleness
<1> QED
  BY <1>1, <1>2, <1>3, <1>4, <1>5

\* A call that is not waited for leaves only a write at the server.
LEMMA TimeoutStep ==
  ASSUME IInv, NEW c \in Clients, Timeout(c)
  PROVE  IInv'
<1> USE QueryAssumption DEF IInv, server, caching, Clients, Queries, Replies, Timeout, Due, Told, Idle, NoReply
<1>1. Types'
  BY DEF Types
<1>2. Waiting'
  BY DEF Types, Waiting
<1>3. Writing'
  BY DEF Types, Waiting, Writing, WriterOf
<1>4. Caching'
  BY DEF Caching
<1>5. Fresh'
  BY DEF Types, Waiting, Caching, Fresh, Staleness
<1> QED
  BY <1>1, <1>2, <1>3, <1>4, <1>5

\* The server executes what is on the wire once, and a reply is current when it is sent.
LEMMA ExecutedStep ==
  ASSUME IInv, NEW c \in Clients, Executed(c)
  PROVE  IInv'
<1> USE QueryAssumption DEF IInv, server, caching, Clients, Queries, Replies, Executed, Replied, Reply
<1>6. PICK kind \in {"done", "lost"} :
        reply' = IF call[c].at = "waiting"
                 THEN [reply EXCEPT ![c] = [kind |-> kind, data |-> IF kind = "done" THEN db ELSE 0]]
                 ELSE reply
  OBVIOUS
<1>7. /\ call' = call /\ verdict' = verdict /\ cache' = cache /\ entry' = entry
      /\ c \in wire /\ wire' = wire \ {c}
  OBVIOUS
<1>8. IF c \in Writers
      THEN /\ db' = db + 1 /\ ended' = Append(ended, 0)
           /\ applied' = [applied EXCEPT ![c] = @ + 1]
      ELSE db' = db /\ ended' = ended /\ applied' = applied
  OBVIOUS
<1> HIDE DEF Executed
<1>1. Types'
  <2>1. reply' \in [Clients -> [kind : {"none"} \cup Replies, data : Nat]]
    BY <1>6 DEF Types
  <2>2. db' \in Nat /\ ended' \in Seq(Nat) /\ Len(ended') = db' /\ applied' \in [Writers -> Nat]
    <3>1. CASE c \in Writers
      <4>1. db' = db + 1 /\ ended' = Append(ended, 0) /\ applied' = [applied EXCEPT ![c] = applied[c] + 1]
        BY <1>8, <3>1
      <4> QED
        BY <3>1, <4>1 DEF Types
    <3>2. CASE c \notin Writers
      BY <1>8, <3>2 DEF Types
    <3> QED
      BY <3>1, <3>2
  <2> QED
    BY <1>7, <2>1, <2>2 DEF Types
<1>2. Waiting'
  BY <1>6, <1>7 DEF Types, Waiting
<1>3. Writing'
  <2> SUFFICES ASSUME NEW w \in Writers
               PROVE  WriterOf(w)'
    BY DEF Writing
  <2>1. CASE w = c
    <3>1. applied'[w] = applied[w] + 1 /\ applied[w] = 0 /\ w \notin wire'
      BY <1>7, <1>8, <2>1 DEF Types, Writing, WriterOf
    <3>2. reply'[w].kind # "refused" /\ verdict[w] \in {"none", "timeout"}
      BY <1>6, <1>7, <2>1 DEF Types, Waiting, Writing, WriterOf
    <3>3. call[w].at = "idle" => verdict[w] # "none"
      BY <1>7, <2>1 DEF Writing, WriterOf
    <3> QED
      BY <1>7, <3>1, <3>2, <3>3 DEF Writing, WriterOf
  <2>2. CASE w # c
    <3>1. applied'[w] = applied[w] /\ reply'[w] = reply[w]
      BY <1>6, <1>8, <2>2 DEF Types
    <3> QED
      BY <1>7, <2>2, <3>1 DEF Writing, WriterOf
  <2> QED
    BY <2>1, <2>2
<1>4. Caching'
  BY <1>7 DEF Caching
<1>5. Fresh'
  <2>1. db' >= db /\ \A v \in 0..db : Staleness(v)' = Staleness(v)
    <3>1. CASE c \in Writers
      <4>1. db' = db + 1 /\ ended' = Append(ended, 0)
        BY <1>8, <3>1
      <4>2. /\ \A v \in 1..db : ended'[v] = ended[v]
            /\ ended'[db + 1] = 0 /\ db \in Nat
        BY <4>1 DEF Types
      <4>3. ASSUME NEW v \in 0..db
            PROVE  Staleness(v)' = Staleness(v)
        <5>1. CASE v = db
          BY <4>1, <4>2, <5>1 DEF Staleness
        <5>2. CASE v # db
          <6>1. v + 1 \in 1..db /\ v # db + 1
            BY <4>2, <5>2
          <6> QED
            BY <4>1, <4>2, <5>2, <6>1 DEF Staleness
        <5> QED
          BY <5>1, <5>2
      <4> QED
        BY <4>1, <4>2, <4>3
    <3>2. CASE c \notin Writers
      BY <1>8, <3>2 DEF Types, Staleness
    <3> QED
      BY <3>1, <3>2
  <2>2. ASSUME NEW d \in Clients, reply'[d].kind = "done"
        PROVE  reply'[d].data <= db' /\ Staleness(reply[d].data)' <= call'[d].age
    <3>1. PICK v \in Nat : v = reply'[d].data
      BY <1>1 DEF Types
    <3>2. Staleness(reply[d].data)' = IF v = db' THEN 0 ELSE ended'[v + 1]
      BY <3>1 DEF Staleness
    <3>3. v \in 0..db /\ Staleness(v) <= call[d].age
      <4>1. CASE reply'[d] = reply[d]
        BY <2>2, <3>1, <4>1 DEF Types, Fresh
      <4>2. CASE reply'[d] # reply[d]
        <5>1. v = db
          BY <1>6, <2>2, <3>1, <4>2 DEF Types
        <5> QED
          BY <5>1 DEF Types, Staleness
      <4> QED
        BY <4>1, <4>2
    <3>4. Staleness(v)' = Staleness(v)
      BY <2>1, <3>3
    <3>5. Staleness(v)' = IF v = db' THEN 0 ELSE ended'[v + 1]
      BY DEF Staleness
    <3> QED
      BY <1>1, <1>7, <2>1, <3>1, <3>2, <3>3, <3>4, <3>5 DEF Types
  <2>3. ASSUME NEW k \in DOMAIN entry
        PROVE  /\ entry[k].data <= db'
               /\ entry[k].age <= Ttl => Staleness(entry[k].data)' <= entry[k].age + QueryTimeout
    <3>1. PICK v \in 0..db : v = entry[k].data
      BY DEF Types, Caching, Fresh
    <3>2. entry[k].age <= Ttl => Staleness(v) <= entry[k].age + QueryTimeout
      BY <3>1 DEF Fresh
    <3>3. Staleness(v)' = Staleness(v) /\ v <= db'
      BY <1>1, <2>1 DEF Types
    <3>4. Staleness(entry[k].data)' = Staleness(v)'
      BY <1>7, <3>1 DEF Staleness
    <3> QED
      BY <3>1, <3>2, <3>3, <3>4
  <2>4. entry' = entry
    BY <1>7
  <2> QED
    BY <2>2, <2>3, <2>4 DEF Fresh
<1> QED
  BY <1>1, <1>2, <1>3, <1>4, <1>5

\* What the server refuses is not on the wire any more.
LEMMA NotExecutedStep ==
  ASSUME IInv, NEW c \in Clients, NotExecuted(c)
  PROVE  IInv'
<1> USE QueryAssumption DEF IInv, server, caching, Clients, Queries, Replies, NotExecuted, Replied, Reply
<1>1. Types'
  BY DEF Types
<1>2. Waiting'
  BY DEF Types, Waiting
<1>3. Writing'
  BY DEF Types, Waiting, Writing, WriterOf
<1>4. Caching'
  BY DEF Caching
<1>5. Fresh'
  BY DEF Types, Waiting, Caching, Fresh, Staleness
<1> QED
  BY <1>1, <1>2, <1>3, <1>4, <1>5

\* A superseded version, the calls and the entries age together.
LEMMA TickStep ==
  ASSUME IInv, Tick
  PROVE  IInv'
<1> USE QueryAssumption DEF IInv, server, caching, Clients, Queries, Replies, Tick, Older, Horizon
<1>6. /\ \A c \in Clients :
           /\ call'[c].at = call[c].at /\ call'[c].key = call[c].key
           /\ call'[c].age = IF call[c].at = "waiting" THEN call[c].age + 1 ELSE call[c].age
      /\ call' \in [Clients -> [at : {"idle", "waiting", "sleeping"}, key : Queries,
                                attempt : Nat, age : Nat]]
  <2> DEFINE Call == [at : {"idle", "waiting", "sleeping"}, key : Queries, attempt : Nat, age : Nat]
             Aged(r) == IF r.at = "waiting" THEN [r EXCEPT !.age = @ + 1] ELSE r
  <2>1. \A r \in Call : /\ Aged(r) \in Call /\ Aged(r).at = r.at /\ Aged(r).key = r.key
                        /\ Aged(r).age = IF r.at = "waiting" THEN r.age + 1 ELSE r.age
    OBVIOUS
  <2>2. call \in [Clients -> Call]
    BY DEF Types
  <2>3. call' = [c \in Clients |-> Aged(call[c])]
    OBVIOUS
  <2> HIDE DEF Call, Aged
  <2>4. call' \in [Clients -> Call] /\ \A c \in Clients : call'[c] = Aged(call[c])
    BY <2>1, <2>2, <2>3
  <2> QED
    BY <2>1, <2>2, <2>4 DEF Call
<1>7. /\ ended' \in Seq(Nat) /\ Len(ended') = Len(ended)
      /\ \A v \in 1..Len(ended) : ended'[v] <= ended[v] + 1
  <2>1. ended \in [1..db -> Nat] /\ DOMAIN ended = 1..db
    BY DEF Types
  <2>2. ended' = [v \in 1..db |-> IF ended[v] < Ttl + QueryTimeout + 1 THEN ended[v] + 1 ELSE ended[v]]
    BY <2>1
  <2>3. ended' \in [1..db -> Nat] /\ \A v \in 1..db : ended'[v] <= ended[v] + 1
    BY <2>1, <2>2
  <2>4. ended' \in Seq(Nat) /\ Len(ended') = db
    <3>1. db \in Nat
      BY DEF Types
    <3>2. ended' \in Seq(Nat)
      <4>1. Seq(Nat) = UNION {[1..n -> Nat] : n \in Nat}
        BY SeqDef
      <4>2. [1..db -> Nat] \in {[1..n -> Nat] : n \in Nat}
        BY <3>1
      <4> QED
        BY <2>3, <4>1, <4>2, Zenon
    <3>3. DOMAIN ended' = 1..Len(ended') /\ Len(ended') \in Nat
      BY <3>2, LenProperties
    <3>4. DOMAIN ended' = 1..db
      BY <2>3
    <3> QED
      BY <3>1, <3>2, <3>3, <3>4
  <2> QED
    BY <2>3, <2>4 DEF Types
<1>1. Types'
  BY <1>6, <1>7 DEF Types
<1>2. Waiting'
  BY DEF Types, Waiting
<1>3. Writing'
  BY DEF Types, Waiting, Writing, WriterOf
<1>4. Caching'
  BY DEF Caching
<1>5. Fresh'
  <2>1. reply' = reply /\ db' = db
    OBVIOUS
  <2>2. \A v \in 0..db : Staleness(v)' \in Nat /\ Staleness(v) \in Nat /\ Staleness(v)' <= Staleness(v) + 1
    BY SMTT(40), <1>7 DEF Types, Staleness
  <2>3. ASSUME NEW c \in Clients, reply[c].kind = "done"
        PROVE  reply[c].data <= db /\ Staleness(reply[c].data)' <= call'[c].age
    <3>1. PICK v \in 0..db : v = reply[c].data /\ Staleness(v) <= call[c].age
      BY <2>3 DEF Types, Fresh
    <3>2. call[c].age \in Nat /\ call'[c].age = call[c].age + 1
      BY <1>6, <2>3 DEF Types, Waiting
    <3>3. Staleness(reply[c].data)' = Staleness(v)'
      BY <2>1, <3>1 DEF Staleness
    <3> QED
      BY <2>2, <3>1, <3>2, <3>3
  <2>4. ASSUME NEW k \in DOMAIN entry'
        PROVE  /\ entry'[k].data <= db
               /\ entry'[k].age <= Ttl => Staleness(entry[k].data)' <= entry'[k].age + QueryTimeout
    <3>1. /\ k \in DOMAIN entry /\ entry'[k].data = entry[k].data
          /\ entry'[k].age = IF entry[k].age < Ttl + 1 THEN entry[k].age + 1 ELSE entry[k].age
      BY DEF Caching
    <3>2. PICK v \in 0..db : v = entry[k].data
      BY <3>1 DEF Types, Caching, Fresh
    <3>3. /\ entry[k].age \in 0..Ttl + 1
          /\ entry[k].age <= Ttl => Staleness(v) <= entry[k].age + QueryTimeout
      BY <3>1, <3>2 DEF Caching, Fresh
    <3>4. Staleness(entry[k].data)' = Staleness(v)'
      BY <3>1, <3>2 DEF Staleness
    <3> QED
      BY <2>2, <3>1, <3>2, <3>3, <3>4
  <2> QED
    BY <2>1, <2>3, <2>4 DEF Fresh
<1> QED
  BY <1>1, <1>2, <1>3, <1>4, <1>5

\* Nothing was asked and nothing is cached at first.
LEMMA InitInv == Init => IInv
<1> SUFFICES ASSUME Init
             PROVE  IInv
  OBVIOUS
<1>1. Types
  BY DEF Init, Types, Clients, Queries, Replies, Idle, NoReply
<1>2. Waiting /\ Writing
  BY DEF Init, Waiting, Writing, WriterOf, Idle, NoReply, Clients
<1>3. DOMAIN entry = {} /\ cache \in Seq(Keys) /\ DOMAIN cache = {}
  BY DEF Init
<1>4. Caching
  BY <1>3 DEF Caching, Distinct, ToSet
<1>5. Fresh
  BY <1>3 DEF Init, Fresh, NoReply
<1> QED
  BY <1>1, <1>2, <1>4, <1>5 DEF IInv

\* Every step of a client, the driver, the server and the clock keeps the invariant.
LEMMA StepInv ==
  ASSUME IInv, [Next]_vars
  PROVE  IInv'
<1>1. ASSUME NEW c \in Readers, NEW k \in Keys, Hit(c, k)
      PROVE  IInv'
  BY <1>1, HitStep
<1>2. ASSUME NEW c \in Readers, NEW k \in Queries, Miss(c, k)
      PROVE  IInv'
  BY <1>2, MissStep
<1>3. ASSUME NEW w \in Writers, Execute(w)
      PROVE  IInv'
  BY <1>3, ExecuteStep
<1>4. ASSUME NEW c \in Clients, Deliver(c)
      PROVE  IInv'
  BY <1>4, DeliverStep
<1>5. ASSUME NEW c \in Clients, Reject(c)
      PROVE  IInv'
  BY <1>5, RejectStep
<1>6. ASSUME NEW c \in Clients, Retry(c)
      PROVE  IInv'
  BY <1>6, RetryStep
<1>7. ASSUME NEW c \in Clients, Timeout(c)
      PROVE  IInv'
  BY <1>7, TimeoutStep
<1>8. ASSUME NEW c \in Clients, Executed(c)
      PROVE  IInv'
  BY <1>8, ExecutedStep
<1>9. ASSUME NEW c \in Clients, NotExecuted(c)
      PROVE  IInv'
  BY <1>9, NotExecutedStep
<1>10. CASE Tick
  BY <1>10, TickStep
<1>11. CASE UNCHANGED vars
  BY <1>11 DEF vars, server, caching, IInv, Types, Waiting, Writing, WriterOf, Caching, Fresh, Staleness
<1> QED
  BY <1>1, <1>2, <1>3, <1>4, <1>5, <1>6, <1>7, <1>8, <1>9, <1>10, <1>11 DEF Next

\* The inductive invariant: where each statement is and how old what was read is.
THEOREM QueryInvariant == Spec => []IInv
<1>1. IInv /\ [Next]_vars => IInv'
  BY StepInv
<1> QED
  BY <1>1, InitInv, PTL DEF Spec

\* Whatever is lost, refused, late or retried, a sql_execute is executed at most once and
\* its answer does not say otherwise.
THEOREM WritesHappenAsTold == Spec => []WritesAsTold
<1>1. IInv => WritesAsTold
  BY DEF IInv, Writing, WriterOf, WritesAsTold
<1> QED
  BY <1>1, QueryInvariant, PTL

\* For any time-to-live, query timeout and size of the cache, rows are never staler than
\* both times together, and rows from the server never staler than the timeout.
THEOREM RowsAreFresh == Spec => []StalenessBounded
<1>1. IInv => StalenessBounded
  <2> SUFFICES ASSUME IInv
               PROVE  StalenessBounded
    OBVIOUS
  <2>1. ASSUME NEW c \in Readers, reply[c].kind = "done"
        PROVE  Staleness(reply[c].data) <= QueryTimeout
    <3>1. /\ call[c].age \in Nat /\ call[c].age <= QueryTimeout
          /\ reply[c].data \in 0..db /\ Staleness(reply[c].data) <= call[c].age
      BY <2>1 DEF IInv, Types, Waiting, Fresh, Clients
    <3>2. \A v \in 0..db : Staleness(v) \in Nat
      BY DEF IInv, Types, Staleness
    <3> QED
      BY <3>1, <3>2, QueryAssumption
  <2>2. ASSUME NEW k \in Keys, Usable(k)
        PROVE  Staleness(entry[k].data) <= Ttl + QueryTimeout
    <3>1. /\ k \in DOMAIN entry /\ entry[k].age \in 0..Ttl + 1 /\ entry[k].age <= Ttl
          /\ entry[k].data \in 0..db
          /\ Staleness(entry[k].data) <= entry[k].age + QueryTimeout
      BY <2>2 DEF IInv, Types, Caching, Fresh, Usable
    <3>2. Staleness(entry[k].data) \in Nat
      BY <3>1 DEF IInv, Types, Staleness
    <3> QED
      BY <3>1, <3>2, QueryAssumption
  <2> QED
    BY <2>1, <2>2 DEF StalenessBounded
<1> QED
  BY <1>1, QueryInvariant, PTL
=============================================================================
