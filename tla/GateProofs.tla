------------------------------ MODULE GateProofs ------------------------------
(* Proofs about Gate and the modules it consists of: the rate limiter, alone *)
(* and asked by the tools, the masking, the policies, and what callers are   *)
(* shown and may change.                                                     *)
EXTENDS Gate, WellFoundedInduction, TLAPS

-----------------------------------------------------------------------------
(* Arithmetic.  Refill is linear and keeps the order; the product behind it  *)
(* is hidden from every other proof.                                         *)

LEMMA RefillType == \A a \in Int : Refill(a) \in Int /\ (a >= 0 => Refill(a) >= 0)
BY LimiterAssumption DEF Refill

LEMMA RefillSpan == ASSUME NEW a \in Nat, NEW b \in Nat PROVE Refill(a - b) \in Int
BY LimiterAssumption DEF Refill

LEMMA RefillSum == \A a, b \in Int : Refill(a + b) = Refill(a) + Refill(b)
BY LimiterAssumption DEF Refill

LEMMA RefillFills == \A a \in Int : a >= 1000 => Refill(a) >= Full
<1> TAKE a \in Int
<1> HAVE a >= 1000
<1>1. Refill(1000 + (a - 1000)) = Refill(1000) + Refill(a - 1000)
  BY RefillSum
<1>2. Refill(a - 1000) >= 0 /\ Refill(a - 1000) \in Int
  BY RefillType
<1>3. Refill(1000) = Full
  BY LimiterAssumption DEF Refill, Full, Token
<1>4. 1000 + (a - 1000) = a
  OBVIOUS
<1> QED BY <1>1, <1>2, <1>3, <1>4, RefillType

LEMMA FullType == Full \in Nat /\ Full >= Token /\ Token = 1000
BY LimiterAssumption DEF Full, Token

-----------------------------------------------------------------------------
(* The inductive invariant.                                                  *)

BucketOK ==
  /\ now \in Nat
  /\ live \subseteq Keys
  /\ tokens \in [Keys -> 0..Full]
  /\ last \in [Keys -> Int]
  /\ \A k \in Keys : last[k] <= now
  /\ granted \in [Keys -> Seq(Nat)]

\* Calls allowed since the i-th one, together with what is left in the bucket now,
\* do not exceed a full bucket and what the rate added since.
Budget(k) ==
  \A i \in DOMAIN granted[k] :
    /\ granted[k][i] <= now
    /\ Token * (Len(granted[k]) - i + 1) + Level(k) <= Full + Refill(now - granted[k][i])

RateInv == BucketOK /\ (\A k \in Keys : Budget(k)) /\ RateBound

\* A level is between empty and full.
LEMMA LevelType ==
  ASSUME BucketOK, NEW k \in Keys
  PROVE  Level(k) \in 0..Full
<1>1. now - last[k] \in Int /\ now - last[k] >= 0 /\ tokens[k] \in 0..Full
  BY DEF BucketOK
<1>2. Refill(now - last[k]) \in Int /\ Refill(now - last[k]) >= 0
  BY <1>1, RefillType
<1> QED BY <1>1, <1>2, FullType DEF Level, Capped

LevelsTyped == \A k \in Keys : Level(k) \in 0..Full

LEMMA LevelsAlwaysTyped == BucketOK => LevelsTyped
BY LevelType DEF LevelsTyped

\* Cleanup changes no level: a bucket it drops had filled up.
LEMMA CleanupKeepsLevels ==
  ASSUME BucketOK, Cleanup, NEW k \in Keys
  PROVE  Level(k)' = Level(k)
<1>1. CASE k \in live /\ ~Used(k)
  <2>1. now - last[k] \in Int /\ now - last[k] >= 1000 /\ tokens[k] \in 0..Full
    BY <1>1, LimiterAssumption DEF BucketOK, Used
  <2>2. Refill(now - last[k]) \in Int /\ Refill(now - last[k]) >= Full
    BY <2>1, RefillType, RefillFills
  <2>3. Level(k) = Full
    BY <1>1, <2>1, <2>2, FullType DEF Level, Capped
  <2> QED BY <1>1, <2>3 DEF Level, Cleanup, Full, Token
<1>2. CASE ~(k \in live /\ ~Used(k))
  BY <1>2 DEF Level, Cleanup, Capped, Full, Token
<1> QED BY <1>1, <1>2

\* When time passes a level gains what the rate gives, up to a full bucket.
LEMMA TickFillsLevels ==
  ASSUME BucketOK, NEW d \in Nat, Tick(d), NEW k \in Keys
  PROVE  Level(k)' = Capped(Level(k) + Refill(d))
<1>1. now - last[k] \in Int /\ now' - last[k] = (now - last[k]) + d /\ tokens[k] \in 0..Full
  BY DEF BucketOK, Tick
<1>2. Refill(now' - last[k]) = Refill(now - last[k]) + Refill(d)
  BY SMTT(40), <1>1, RefillSum
<1>3. Refill(now - last[k]) \in Int /\ Refill(d) \in Int /\ Refill(d) >= 0
  BY <1>1, RefillType
<1>4. CASE k \in live
  BY <1>1, <1>2, <1>3, <1>4, FullType DEF Level, Tick, Capped
<1>5. CASE k \notin live
  BY <1>3, <1>5, FullType DEF Level, Tick, Capped
<1> QED BY <1>4, <1>5

\* A call takes one token of its own bucket if it is allowed, and nothing else.
LEMMA AllowTakesToken ==
  ASSUME BucketOK, NEW k \in Keys, Allow(k), NEW j \in Keys
  PROVE  Level(j)' = IF j = k /\ Level(k) >= Token THEN Level(j) - Token ELSE Level(j)
<1>1. Level(k) \in 0..Full
  BY LevelType
<1>2. CASE j # k
  BY <1>2 DEF Allow, Level, Capped, BucketOK, Full, Token
<1>3. CASE j = k
  <2>1. tokens'[k] = IF Level(k) >= Token THEN Level(k) - Token ELSE Level(k)
    BY DEF Allow, BucketOK
  <2>2. k \in live' /\ now' - last'[k] = 0
    BY DEF Allow, BucketOK
  <2>3. Refill(now' - last'[k]) = 0
    BY <2>2, LimiterAssumption DEF Refill
  <2> QED BY <1>1, <1>3, <2>1, <2>2, <2>3, FullType DEF Level, Capped
<1> QED BY <1>2, <1>3

-----------------------------------------------------------------------------
LEMMA InitRateInv == Init => RateInv
<1> SUFFICES ASSUME Init PROVE RateInv
  OBVIOUS
<1>1. BucketOK
  BY FullType DEF Init, BucketOK
<1>2. \A k \in Keys : granted[k] = << >>
  BY DEF Init
<1> QED BY <1>1, <1>2 DEF RateInv, Budget, RateBound

\* Every step keeps the buckets well formed.
LEMMA NextBucketOK ==
  ASSUME RateInv, [Next]_vars
  PROVE  BucketOK'
<1> USE DEF RateInv
<1>1. CASE \E k \in Keys : Allow(k)
  <2>1. PICK k \in Keys : Allow(k)
    BY <1>1
  <2>2. Level(k) \in 0..Full /\ (Level(k) >= Token => Level(k) - Token \in 0..Full)
    BY LevelType, FullType
  <2>3. tokens' \in [Keys -> 0..Full]
    <3>1. CASE Level(k) >= Token
      BY <2>1, <2>2, <3>1 DEF Allow, BucketOK
    <3>2. CASE ~(Level(k) >= Token)
      BY <2>1, <2>2, <3>2 DEF Allow, BucketOK
    <3> QED BY <3>1, <3>2
  <2>6. last' \in [Keys -> Int] /\ live' \subseteq Keys
    BY <2>1 DEF Allow, BucketOK
  <2>4. granted' \in [Keys -> Seq(Nat)]
    <3>1. Append(granted[k], now) \in Seq(Nat)
      BY DEF BucketOK
    <3> QED BY <2>1, <3>1 DEF Allow, BucketOK
  <2>5. now' = now /\ \A j \in Keys : last'[j] <= now'
    BY <2>1 DEF Allow, BucketOK
  <2> QED BY <2>3, <2>4, <2>5, <2>6 DEF BucketOK, Full, Token
<1>2. CASE Cleanup
  BY <1>2 DEF Cleanup, BucketOK
<1>3. CASE \E d \in Delays : Tick(d)
  BY <1>3, LimiterAssumption DEF Tick, BucketOK
<1>4. CASE UNCHANGED vars
  BY <1>4 DEF vars, BucketOK
<1> QED BY <1>1, <1>2, <1>3, <1>4 DEF Next

\* A call spends a token of its own key and touches no other budget.
LEMMA AllowBudget ==
  ASSUME RateInv, NEW k \in Keys, Allow(k), BucketOK', NEW j \in Keys
  PROVE  Budget(j)'
<1> USE DEF RateInv
<1> DEFINE g == granted[j]
<1>1. Level(j) \in 0..Full /\ now' = now /\ now \in Nat /\ g \in Seq(Nat)
  BY LevelType DEF Allow, BucketOK
<1>2. CASE j = k /\ Level(k) >= Token
  <2>1. granted'[j] = Append(g, now)
    BY <1>2 DEF Allow, BucketOK
  <2>2. Level(j)' = Level(j) - Token
    BY <1>2, AllowTakesToken
  <2>3. Len(granted'[j]) = Len(g) + 1 /\ DOMAIN granted'[j] = 1..Len(g) + 1 /\ Len(g) \in Nat
    BY <1>1, <2>1
  <2> SUFFICES ASSUME NEW i \in 1..Len(g) + 1
               PROVE  /\ granted'[j][i] <= now
                      /\ Token * (Len(g) + 1 - i + 1) + (Level(j) - Token)
                           <= Full + Refill(now - granted'[j][i])
    BY SMTT(40), <1>1, <2>2, <2>3 DEF Budget, Token, Full, Refill
  <2>4. CASE i \in 1..Len(g)
    <3>1. granted'[j][i] = g[i] /\ g[i] \in Nat /\ i \in DOMAIN granted[j]
      BY <1>1, <2>1, <2>4
    <3>2. g[i] <= now /\ Token * (Len(g) - i + 1) + Level(j) <= Full + Refill(now - g[i])
      BY <3>1 DEF Budget
    <3>3. Refill(now - g[i]) \in Int
      BY <1>1, <3>1, RefillSpan
    <3>4. Token * (Len(g) + 1 - i + 1) + (Level(j) - Token)
            = Token * (Len(g) - i + 1) + Level(j)
      <4>1. Len(g) \in Int /\ i \in Int /\ Level(j) \in Int
        BY <1>1, <2>3, <2>4
      <4> HIDE DEF g
      <4> QED BY <4>1 DEF Token
    <3> QED BY <3>1, <3>2, <3>4
  <2>5. CASE i = Len(g) + 1
    <3>1. granted'[j][i] = now
      BY <1>1, <2>1, <2>5
    <3>2. Refill(now - now) = 0
      BY <1>1, LimiterAssumption DEF Refill
    <3>3. Token * (Len(g) + 1 - i + 1) + (Level(j) - Token) = Level(j)
      BY <1>1, <2>3, <2>5 DEF Token
    <3> QED BY <1>1, <3>1, <3>2, <3>3, FullType
  <2> QED BY <2>3, <2>4, <2>5
<1>3. CASE ~(j = k /\ Level(k) >= Token)
  <2>1. granted'[j] = granted[j]
    BY <1>3 DEF Allow, BucketOK
  <2>2. Level(j)' = Level(j)
    BY <1>3, AllowTakesToken
  <2> QED BY <1>1, <2>1, <2>2 DEF Budget, Token, Full, Refill
<1> QED BY <1>2, <1>3

\* The clock refills what may be spent.
LEMMA TickBudget ==
  ASSUME RateInv, NEW d \in Nat, Tick(d), NEW k \in Keys
  PROVE  Budget(k)'
<1> USE DEF RateInv
<1> DEFINE g == granted[k]
<1>1. granted' = granted /\ now' = now + d /\ now \in Nat /\ g \in Seq(Nat)
  BY DEF Tick, BucketOK
<1>2. Level(k) \in 0..Full
  BY LevelType
<1>3. Refill(d) \in Int /\ Refill(d) >= 0
  BY RefillType
<1>4. Level(k)' <= Level(k) + Refill(d) /\ Level(k)' \in Int
  BY <1>2, <1>3, TickFillsLevels, FullType DEF Capped
<1> SUFFICES ASSUME NEW i \in DOMAIN g
             PROVE  /\ g[i] <= now + d
                    /\ Token * (Len(g) - i + 1) + Level(k)' <= Full + Refill(now + d - g[i])
  BY <1>1 DEF Budget, Token, Full, Refill
<1>5. g[i] \in Nat /\ Len(g) \in Nat /\ i \in Int
  BY <1>1
<1>6. g[i] <= now /\ Token * (Len(g) - i + 1) + Level(k) <= Full + Refill(now - g[i])
  BY DEF Budget
<1>7. Refill(now + d - g[i]) = Refill(now - g[i]) + Refill(d)
  <2>1. now + d - g[i] = (now - g[i]) + d /\ now - g[i] \in Int /\ d \in Int
    BY <1>1, <1>5
  <2> QED BY ONLY <2>1, RefillSum
<1>8. Refill(now - g[i]) \in Int
  BY <1>1, <1>5, RefillSpan
<1>9. Token * (Len(g) - i + 1) + Level(k)' <= Full + (Refill(now - g[i]) + Refill(d))
  <2> DEFINE spent == Token * (Len(g) - i + 1)
  <2>1. spent \in Int
    BY <1>5 DEF Token
  <2>2. Level(k) \in Int /\ Full \in Int
    BY <1>2, FullType
  <2>3. \A a, b \in Int : a + Level(k) <= Full + b => a + Level(k)' <= Full + (b + Refill(d))
    BY ONLY <1>3, <1>4, <2>2
  <2> QED BY ONLY <1>6, <1>8, <2>1, <2>3
<1> QED BY <1>1, <1>5, <1>6, <1>7, <1>9

\* Every step keeps every budget.
LEMMA NextBudget ==
  ASSUME RateInv, [Next]_vars, BucketOK', NEW k \in Keys
  PROVE  Budget(k)'
<1>1. CASE \E j \in Keys : Allow(j)
  BY <1>1, AllowBudget
<1>2. CASE Cleanup
  <2>1. Level(k)' = Level(k)
    BY <1>2, CleanupKeepsLevels DEF RateInv
  <2> QED BY <1>2, <2>1 DEF Cleanup, Budget, RateInv, Token, Full, Refill
<1>3. CASE \E d \in Delays : Tick(d)
  BY <1>3, TickBudget, LimiterAssumption
<1>4. CASE UNCHANGED vars
  BY <1>4 DEF vars, Budget, Level, RateInv, Token, Full, Refill, Capped
<1> QED BY <1>1, <1>2, <1>3, <1>4 DEF Next

\* The bound of a stretch that ends at a new call is that call's budget.
LEMMA NextRateBound ==
  ASSUME RateInv, [Next]_vars, BucketOK', LevelsTyped', \A k \in Keys : Budget(k)'
  PROVE  RateBound'
<1> USE DEF RateInv
<1> SUFFICES ASSUME NEW k \in Keys, NEW j \in DOMAIN granted'[k], NEW i \in 1..j
             PROVE  Token * (j - i + 1) <= Full + Refill(granted'[k][j] - granted'[k][i])
  BY DEF RateBound, Token, Full, Refill
<1>1. granted'[k] \in Seq(Nat) /\ granted[k] \in Seq(Nat) /\ now' \in Nat
  BY DEF BucketOK
<1>2. CASE j \in DOMAIN granted[k] /\ granted'[k][j] = granted[k][j]
                                   /\ granted'[k][i] = granted[k][i]
  BY <1>2 DEF RateBound
<1>3. CASE j = Len(granted'[k]) /\ granted'[k][j] = now'
  <2>1. i \in DOMAIN granted'[k] /\ i \in Int /\ j \in Int
    BY <1>1
  <2>2. Token * (Len(granted'[k]) - i + 1) + Level(k)' <= Full + Refill(now' - granted'[k][i])
    BY <2>1 DEF Budget, Token, Full, Refill
  <2>3. Level(k)' \in 0..Full
    BY DEF LevelsTyped, Full, Token
  <2>4. granted'[k][i] \in Nat
    BY <1>1, <2>1
  <2>5. Refill(now' - granted'[k][i]) \in Int
    BY <1>1, <2>4, RefillSpan
  <2> QED BY <1>3, <2>1, <2>2, <2>3, <2>5, FullType DEF Token
<1>4. (\E a \in Keys : Allow(a)) \/ granted' = granted
  BY DEF Next, Cleanup, Tick, vars
<1>5. granted'[k] = granted[k] \/ (granted'[k] = Append(granted[k], now) /\ now' = now)
  <2>1. ASSUME NEW a \in Keys, Allow(a)
        PROVE  granted'[k] = granted[k] \/ (granted'[k] = Append(granted[k], now) /\ now' = now)
    BY <2>1 DEF Allow, BucketOK
  <2>2. CASE \E a \in Keys : Allow(a)
    BY <2>1, <2>2
  <2>3. CASE granted' = granted
    BY <2>3
  <2> QED BY <1>4, <2>2, <2>3
<1>6. CASE granted'[k] = granted[k]
  BY <1>2, <1>6
<1>7. CASE granted'[k] = Append(granted[k], now) /\ now' = now
  <2>1. j \in 1..Len(granted[k]) \/ j = Len(granted[k]) + 1
    BY <1>1, <1>7
  <2> QED BY <1>1, <1>2, <1>3, <1>7, <2>1
<1> QED BY <1>5, <1>6, <1>7

\* Behind the bound on the rate: buckets are well formed and every key stays within
\* its budget, whatever cleanups come in between.
THEOREM RateInvariant == Spec => []RateInv
<1>1. RateInv /\ [Next]_vars => RateInv'
  <2> SUFFICES ASSUME RateInv, [Next]_vars PROVE RateInv'
    OBVIOUS
  <2>1. BucketOK'
    BY NextBucketOK
  <2>2. LevelsTyped'
    BY <2>1, LevelsAlwaysTyped, PTL
  <2>3. \A k \in Keys : Budget(k)'
    BY <2>1, NextBudget
  <2> QED BY <2>1, <2>2, <2>3, NextRateBound DEF RateInv
<1> QED BY <1>1, InitRateInv, PTL DEF Spec

\* For every rate, idle time and clock: no stretch of time allows more calls of a
\* key than a full bucket and the rate account for.
THEOREM RateBounded == Spec => []RateBound
BY RateInvariant, PTL DEF RateInv

-----------------------------------------------------------------------------
(* Refinement.                                                               *)

\* The limiter's decisions are those of a bucket that fills all the time and is
\* never forgotten.
THEOREM LimiterImplementsTokenBucket == Spec => ImplementsTokenBucket
<1>1. Init => Bucket!Init
  BY DEF Init, Bucket!Init, Level, Full, Token, Bucket!Full, Bucket!Token
<1>2. RateInv /\ [Next]_vars => [Bucket!Next]_(Bucket!vars)
  <2> SUFFICES ASSUME RateInv, [Next]_vars PROVE [Bucket!Next]_(Bucket!vars)
    OBVIOUS
  <2> USE DEF RateInv
  <2>1. CASE \E k \in Keys : Allow(k)
    <3>1. PICK k \in Keys : Allow(k)
      BY <2>1
    <3>2. \A j \in Keys : Level(j)' =
             IF j = k /\ Level(k) >= Token THEN Level(j) - Token ELSE Level(j)
      BY <3>1, AllowTakesToken
    <3>3. CASE Level(k) >= Token
      <4> DEFINE level == [j \in Keys |-> Level(j)]
      <4>1. level' = [level EXCEPT ![k] = @ - Token]
        BY <3>2, <3>3
      <4>2. granted' = [granted EXCEPT ![k] = Append(@, now)] /\ now' = now
        BY <3>1, <3>3 DEF Allow
      <4>3. level[k] >= Token
        BY <3>3
      <4>4. Bucket!Token = Token
        BY DEF Bucket!Token, Token
      <4>5. Bucket!Grant(k)
        BY <4>1, <4>2, <4>3, <4>4 DEF Bucket!Grant
      <4> QED BY <4>5 DEF Bucket!Next
    <3>4. CASE ~(Level(k) >= Token)
      BY <3>1, <3>2, <3>4 DEF Allow, Bucket!vars
    <3> QED BY <3>3, <3>4
  <2>2. CASE Cleanup
    <3>1. \A k \in Keys : Level(k)' = Level(k)
      BY <2>2, CleanupKeepsLevels
    <3> QED BY <2>2, <3>1 DEF Cleanup, Bucket!vars
  <2>3. CASE \E d \in Delays : Tick(d)
    <3>1. PICK d \in Delays : Tick(d)
      BY <2>3
    <3>2. d \in Nat /\ now' = now + d /\ now \in Nat /\ granted' = granted
      BY <3>1, LimiterAssumption DEF Tick, BucketOK
    <3>3. \A k \in Keys : Level(k)' = Capped(Level(k) + Refill(d))
      BY <3>1, <3>2, TickFillsLevels
    <3>4. now' - now = d /\ now' >= now /\ now' \in Nat
      BY <3>2
    <3>5. \A n \in Int : Bucket!Capped(n) = Capped(n)
      BY DEF Bucket!Capped, Capped, Bucket!Full, Full, Bucket!Token, Token
    <3>6. \A k \in Keys : Level(k) \in Int
      BY LevelType
    <3>7. \A k \in Keys : Level(k)' = Bucket!Capped(Level(k) + (now' - now) * MaxPerSecond)
      BY <3>3, <3>4 DEF Refill, Bucket!Capped, Capped, Bucket!Full, Full, Bucket!Token, Token
    <3> QED BY <3>2, <3>4, <3>7 DEF Bucket!Next, Bucket!Pass
  <2>4. CASE UNCHANGED vars
    BY <2>4 DEF vars, Bucket!vars, Level, Full, Token, Capped, Refill
  <2> QED BY <2>1, <2>2, <2>3, <2>4 DEF Next
<1> QED BY <1>1, <1>2, RateInvariant, PTL DEF Spec, ImplementsTokenBucket, Bucket!Spec

-----------------------------------------------------------------------------
(* The limiter as the tools ask it.                                          *)

\* Every step of the gate is a step of the limiter, or leaves it alone.
LEMMA GateStepsOfLimiter == [GateNext]_gateVars => [Next]_vars
<1> SUFFICES ASSUME [GateNext]_gateVars PROVE [Next]_vars
  OBVIOUS
<1> USE GateAssumption
<1>1. CASE \E s \in Subjects, c \in Conns, forced \in Modes \cup {"none"} : CallOf(s, c, forced)
  <2>1. PICK s \in Subjects, c \in Conns, forced \in Modes \cup {"none"} : CallOf(s, c, forced)
    BY <1>1
  <2>2. Allow(c) \/ UNCHANGED vars
    BY <2>1 DEF CallOf, Query, ReadLimited, ReadDocuments, Write, Execute, AggregateInto, Begin,
                ExecuteInTransaction, Commit
  <2> QED BY <2>2 DEF Next
<1>2. CASE \E s \in Subjects, forced \in Modes \cup {"none"} : MaskingCall(s, forced)
  BY <1>2 DEF MaskingCall, SetMaskingMode, ManageMaskingRules, ChangeMasking
<1>3. CASE \E s \in Subjects : Answers(s) \/ Fails(s)
  BY <1>3 DEF Answers, Fails
<1>4. CASE \E c \in Conns : Rollback(c)
  BY <1>4 DEF Rollback
<1>5. CASE Clock
  BY <1>5 DEF Clock, Next
<1>6. CASE UNCHANGED gateVars
  BY <1>6 DEF gateVars
<1> QED BY <1>1, <1>2, <1>3, <1>4, <1>5, <1>6 DEF GateNext

\* In the gate the limiter takes steps of its own specification or none.
LEMMA GateLimits == GateSpec => Spec
<1>1. GateInit => Init
  BY DEF GateInit
<1> QED BY <1>1, GateStepsOfLimiter, PTL DEF GateSpec, Spec

\* Whatever the callers do, the bound on the rate holds on each connection.
THEOREM GateRateBounded == GateSpec => []RateBound
BY GateLimits, RateBounded, PTL

\* The limiter the tools ask is the bucket that fills all the time.
THEOREM GateImplementsTokenBucket == GateSpec => ImplementsTokenBucket
BY GateLimits, LimiterImplementsTokenBucket, PTL

-----------------------------------------------------------------------------
(* The first of some rules.                                                  *)

\* A set of natural numbers that is not empty has a least element.
LEMMA Least ==
  ASSUME NEW T, T \subseteq Nat, T # {}
  PROVE  \E x \in T : \A y \in T : x <= y
<1> DEFINE R == OpToRel(<, Nat)
<1>1. IsWellFoundedOn(R, Nat)
  BY NatLessThanWellFounded
<1>2. PICK x \in T : \A y \in T : <<y, x>> \notin R
  <2> HIDE DEF R
  <2> QED BY <1>1, WFMin
<1>3. \A y \in T : ~(y < x)
  BY <1>2 DEF OpToRel
<1> QED BY <1>3

\* Min picks the least element.
LEMMA LeastIsMin ==
  ASSUME NEW T, T \subseteq Nat, NEW x \in T, \A y \in T : x <= y
  PROVE  Min(T) = x
<1> DEFINE m == CHOOSE z \in T : \A y \in T : z <= y
<1>1. m \in T /\ \A y \in T : m <= y
  OBVIOUS
<1>2. m = x
  <2> HIDE DEF m
  <2> QED BY <1>1
<1> QED BY <1>2 DEF Min

\* FirstIn finds the first rule there is among some, or 0 if there is none.
LEMMA FirstInFinds ==
  ASSUME NEW S, NEW rules \in Seq(S), NEW among
  PROVE  LET i == FirstIn(rules, among)
         IN  \/ i = 0 /\ \A j \in 1..Len(rules) : rules[j] \notin among
             \/ /\ i \in 1..Len(rules) /\ rules[i] \in among
                /\ \A j \in 1..Len(rules) : rules[j] \in among => i <= j
<1> DEFINE I == {j \in 1..Len(rules) : rules[j] \in among}
<1>1. FirstIn(rules, among) = IF I # {} THEN Min(I) ELSE 0
  BY DEF FirstIn, SelectInSeq
<1>2. CASE I = {}
  BY <1>1, <1>2
<1>3. CASE I # {}
  <2>0. I \subseteq Nat
    OBVIOUS
  <2>1. PICK x \in I : \A y \in I : x <= y
    <3> HIDE DEF I
    <3> QED BY <1>3, <2>0, Least
  <2>2. Min(I) = x
    <3> HIDE DEF I
    <3> QED BY <2>0, <2>1, LeastIsMin
  <2> QED BY <1>1, <1>3, <2>1, <2>2
<1> QED BY <1>2, <1>3

\* A rule behind the others does not change what is found first.
LEMMA FirstInAppend ==
  ASSUME NEW S, NEW rules \in Seq(S), NEW r \in S, NEW among, FirstIn(rules, among) # 0
  PROVE  /\ FirstIn(Append(rules, r), among) = FirstIn(rules, among)
         /\ Append(rules, r)[FirstIn(rules, among)] = rules[FirstIn(rules, among)]
<1> DEFINE i == FirstIn(rules, among)
           longer == Append(rules, r)
           j == FirstIn(longer, among)
<1>1. i \in 1..Len(rules) /\ rules[i] \in among /\ \A n \in 1..Len(rules) : rules[n] \in among => i <= n
  BY FirstInFinds
<1>2. longer \in Seq(S) /\ Len(longer) = Len(rules) + 1 /\ \A n \in 1..Len(rules) : longer[n] = rules[n]
  OBVIOUS
<1>3. \/ j = 0 /\ \A n \in 1..Len(longer) : longer[n] \notin among
      \/ /\ j \in 1..Len(longer) /\ longer[j] \in among
         /\ \A n \in 1..Len(longer) : longer[n] \in among => j <= n
  BY <1>2, FirstInFinds
<1>4. i \in 1..Len(longer) /\ longer[i] \in among
  BY <1>1, <1>2
<1>5. j \in 1..Len(longer) /\ longer[j] \in among /\ j <= i
  BY <1>3, <1>4
<1>6. j \in 1..Len(rules) /\ rules[j] \in among
  BY <1>1, <1>2, <1>5
<1>7. i <= j
  BY <1>1, <1>6
<1> HIDE DEF i, j, longer
<1>8. i = j
  BY <1>1, <1>5, <1>6, <1>7
<1> QED BY <1>1, <1>2, <1>8 DEF i, j, longer

\* manage_masking_rules appends: what the rules there were masked in a mode is still masked.
LEMMA AddingMasksMore ==
  ASSUME NEW S, NEW config \in [mode : Modes, rules : Seq(S)], NEW r \in S, NEW mode \in Modes,
         NEW f, Masked(f, [config EXCEPT !.mode = mode])
  PROVE  Masked(f, [AddRule(config, r) EXCEPT !.mode = mode])
<1>1. PICK m \in Modes, rules \in Seq(S) : config = [mode |-> m, rules |-> rules]
  OBVIOUS
<1> DEFINE longer == Append(rules, r)
<1>2. [config EXCEPT !.mode = mode] = [mode |-> mode, rules |-> rules]
  BY <1>1
<1>3. [AddRule(config, r) EXCEPT !.mode = mode] = [mode |-> mode, rules |-> longer]
  <2>1. config.rules = rules /\ config.mode = m /\ DOMAIN config = {"mode", "rules"}
    BY ONLY <1>1
  <2>2. AddRule(config, r) = [config EXCEPT !.rules = longer]
    BY ONLY <2>1 DEF AddRule, WithRule
  <2>3. AddRule(config, r) = [mode |-> m, rules |-> longer]
    BY ONLY <1>1, <2>2
  <2> HIDE DEF longer
  <2> QED BY <2>3
<1>4. \A among : FirstIn(rules, among) # 0 =>
        /\ FirstIn(longer, among) = FirstIn(rules, among)
        /\ longer[FirstIn(rules, among)] = rules[FirstIn(rules, among)]
  BY FirstInAppend
<1> HIDE DEF longer
<1>5. Masked(f, [mode |-> mode, rules |-> rules]) => Masked(f, [mode |-> mode, rules |-> longer])
  BY <1>4 DEF Masked, Loose, Strict, StrictV2, ByName, Modes
<1> QED BY <1>2, <1>3, <1>5

LEMMA ConcatLength ==
  ASSUME NEW S, NEW s \in Seq(S), NEW t \in Seq(S)
  PROVE  s \o t \in Seq(S) /\ Len(s \o t) = Len(s) + Len(t)
OBVIOUS

\* Removing a rule that is there shortens the rules.
LEMMA RemoveShortens ==
  ASSUME NEW S, NEW rules \in Seq(S), NEW r, Contains(rules, r)
  PROVE  RemoveFirst(rules, r) \in Seq(S) /\ Len(RemoveFirst(rules, r)) = Len(rules) - 1
<1> DEFINE i == FirstIn(rules, {r})
           j == SelectInSeq(rules, LAMBDA v : v = r)
<1>1. i = j
  BY DEF FirstIn, SelectInSeq
<1>2. \E n \in 1..Len(rules) : rules[n] \in {r}
  BY DEF Contains
<1>3. i \in 1..Len(rules)
  BY <1>2, FirstInFinds
<1>4. RemoveFirst(rules, r) = RemoveAt(rules, i)
  <2>1. \E n \in 1..Len(rules) : rules[n] = r
    BY <1>2
  <2>2. RemoveFirst(rules, r) = RemoveAt(rules, j)
    BY <2>1 DEF RemoveFirst
  <2> QED BY <1>1, <2>2
<1> HIDE DEF i, j
<1>5. SubSeq(rules, 1, i - 1) \in Seq(S) /\ Len(SubSeq(rules, 1, i - 1)) = i - 1
  BY <1>3
<1>6. SubSeq(rules, i + 1, Len(rules)) \in Seq(S) /\ Len(SubSeq(rules, i + 1, Len(rules))) = Len(rules) - i
  BY <1>3
<1>7. RemoveAt(rules, i) \in Seq(S) /\ Len(RemoveAt(rules, i)) = Len(rules) - 1
  <2> DEFINE a == SubSeq(rules, 1, i - 1)
             b == SubSeq(rules, i + 1, Len(rules))
  <2>1. RemoveAt(rules, i) = a \o b
    BY DEF RemoveAt
  <2>2. a \in Seq(S) /\ Len(a) = i - 1 /\ b \in Seq(S) /\ Len(b) = Len(rules) - i
    BY <1>5, <1>6
  <2> HIDE DEF a, b
  <2>3. a \o b \in Seq(S) /\ Len(a \o b) = Len(a) + Len(b)
    BY <2>2, ConcatLength
  <2>4. i \in Int /\ Len(rules) \in Int
    BY <1>3
  <2> QED BY <2>1, <2>2, <2>3, <2>4
<1> QED BY <1>4, <1>7

-----------------------------------------------------------------------------
(* The inductive invariant of the gate.                                      *)

Rules == Range(Builtin) \cup Custom
Forced == Modes \cup {"none"}

\* The types; what is kept for a query is what the driver answered, unmasked.
GateOK ==
  /\ masking \in [mode : Modes, rules : Seq(Rules)]
  /\ cached \in [Conns -> {Nothing, Rows}]
  /\ open \in [Conns -> {Nothing} \cup [by : Subjects, wrote : BOOLEAN]]
  /\ asking \in [Subjects -> {Nothing} \cup [forced : Forced, keptFor : Conns \cup {Nothing}]]

AnswerTyped == IsAnswer => event.forced \in Forced

\* No transaction is begun on a readonly MongoDB connection, so none commits.
ReadonlyClosed == \A c \in ReadonlyConns : Engine[c] = "mongodb" => open[c] = Nothing

GateInv ==
  GateOK /\ AnswerTyped /\ AnswersAsForOneself /\ ReadonlyClosed /\ ReadonlyHolds

LEMMA InitGateInv == GateInit => GateInv
<1> SUFFICES ASSUME GateInit PROVE GateInv
  OBVIOUS
<1>1. Builtin \in Seq(Rules)
  <2>1. Builtin \in Seq(Range(Builtin)) /\ Range(Builtin) \subseteq Rules
    BY GateAssumption DEF Rules
  <2> QED BY <2>1
<1>2. GateOK
  BY <1>1, GateAssumption DEF GateInit, GateOK
<1>3. ~IsAnswer /\ ~IsChange
  BY DEF GateInit, IsAnswer, IsChange
<1>4. ReadonlyClosed
  BY GateAssumption DEF GateInit, ReadonlyClosed
<1> QED BY <1>2, <1>3, <1>4 DEF GateInv, AnswerTyped, AnswersAsForOneself, ReadonlyHolds

\* The invariant after a step that begins no transaction and changes nothing.
LEMMA QuietStep ==
  ASSUME GateInv, GateOK', event' = Nothing,
         \A c \in Conns : open'[c] = Nothing \/ open[c] # Nothing
  PROVE  GateInv'
<1>1. ~IsAnswer' /\ ~IsChange'
  BY DEF IsAnswer, IsChange
<1>2. ReadonlyClosed'
  BY GateAssumption DEF GateInv, ReadonlyClosed
<1> QED BY <1>1, <1>2 DEF GateInv, AnswerTyped, AnswersAsForOneself, ReadonlyHolds

\* The invariant after a step that answers a caller with what the driver found.
LEMMA AnswerStep ==
  ASSUME GateInv, GateOK', NEW forced \in Forced, event' = Answer(forced, Rows),
         masking' = masking, open' = open
  PROVE  GateInv'
<1>1. event' # Nothing => IsAnswer' /\ ~IsChange'
  BY DEF IsAnswer, IsChange, Answer
<1>2. event'.forced = forced
         /\ event'.clear = Shown(Rows, EffectiveMaskingConfig(masking, forced))
  BY DEF Answer
<1>3. IsAnswer' => event' # Nothing
  BY DEF IsAnswer
<1>4. AnswerTyped'
  BY <1>2 DEF AnswerTyped
<1>5. AnswersAsForOneself'
  BY <1>2 DEF AnswersAsForOneself, Rows
<1>6. ReadonlyHolds'
  BY <1>1 DEF ReadonlyHolds, IsChange
<1>7. ReadonlyClosed'
  BY DEF GateInv, ReadonlyClosed
<1> QED BY <1>4, <1>5, <1>6, <1>7 DEF GateInv

\* The invariant after a step that changes what may be changed.
LEMMA ChangeStep ==
  ASSUME GateInv, GateOK', NEW t, NEW target, NEW by, event' = Change(t, target, by),
         target \in ReadonlyConns => t \in {"sql_call_procedure", "sql_commit", "mongo_aggregate"},
         \A c \in Conns : open'[c] = Nothing \/ open[c] # Nothing
  PROVE  GateInv'
<1>1. event'.kind = "change" /\ event'.tool = t /\ event'.target = target
  BY DEF Change
<1>2. ~IsAnswer'
  BY <1>1 DEF IsAnswer
<1>3. ReadonlyHolds'
  BY <1>1 DEF ReadonlyHolds
<1>4. ReadonlyClosed'
  BY GateAssumption DEF GateInv, ReadonlyClosed
<1> QED BY <1>2, <1>3, <1>4 DEF GateInv, AnswerTyped, AnswersAsForOneself

\* A call that reads.
LEMMA ReadStep ==
  ASSUME GateInv, NEW s \in Subjects, NEW c \in Conns, NEW forced \in Forced,
         \/ \E paged \in BOOLEAN : Query(s, c, forced, paged)
         \/ \E t \in {"sql_export_query", "sql_sample_table"} : ReadLimited(s, t, c, forced)
         \/ \E t \in {"mongo_find", "mongo_aggregate"} : ReadDocuments(s, t, c, forced)
  PROVE  GateInv'
<1>1. masking' = masking /\ cached' = cached /\ open' = open
  BY DEF Query, ReadLimited, ReadDocuments
<1>2. (\E kept \in Conns \cup {Nothing} : Ask(s, forced, kept)) \/ asking' = asking
  BY DEF Query, ReadLimited, ReadDocuments
<1>3. asking' \in [Subjects -> {Nothing} \cup [forced : Forced, keptFor : Conns \cup {Nothing}]]
  BY <1>2 DEF Ask, GateInv, GateOK
<1>4. GateOK'
  BY <1>1, <1>3 DEF GateInv, GateOK, Rows, Rules, Forced
<1>5. event' = Nothing \/ (cached[c] # Nothing /\ event' = Answer(forced, cached[c]))
  BY DEF Query, ReadLimited, ReadDocuments
<1>6. cached[c] # Nothing => cached[c] = Rows
  BY DEF GateInv, GateOK
<1> QED BY <1>1, <1>4, <1>5, <1>6, QuietStep, AnswerStep

\* A call that changes something in one step.
LEMMA WriteStep ==
  ASSUME GateInv, NEW s \in Subjects, NEW c \in Conns, NEW forced \in Forced,
         \/ \E t \in WriteAtOnce : Write(s, t, c, forced)
         \/ Execute(s, c, forced)
         \/ AggregateInto(s, c, forced)
  PROVE  GateInv'
<1>1. UNCHANGED <<masking, cached, open, asking>>
  BY DEF Write, Execute, AggregateInto
<1>2. GateOK'
  BY <1>1 DEF GateInv, GateOK, Rows, Rules, Forced
<1>3. \/ event' = Nothing
      \/ \E t : event' = Change(t, c, s) /\ (MayChange(t, c) \/ t = "mongo_aggregate")
  BY DEF Write, Execute, AggregateInto
<1>4. ASSUME NEW t, MayChange(t, c), c \in ReadonlyConns
      PROVE  t = "sql_call_procedure"
  BY <1>4 DEF MayChange, SqlMayChange, MongoMayChange, RefuseReadonly
<1> QED BY <1>1, <1>2, <1>3, <1>4, QuietStep, ChangeStep

\* A call of an interactive transaction.
LEMMA TransactionStep ==
  ASSUME GateInv, NEW s \in Subjects, NEW c \in Conns, NEW forced,
         Begin(s, c, forced) \/ ExecuteInTransaction(s, c, forced) \/ Commit(s, c, forced)
  PROVE  GateInv'
<1>1. UNCHANGED <<masking, cached, asking>>
  BY DEF Begin, ExecuteInTransaction, Commit
<1>2. open' \in [Conns -> {Nothing} \cup [by : Subjects, wrote : BOOLEAN]]
  <2>1. open[c] # Nothing => [open[c] EXCEPT !.wrote = TRUE] \in [by : Subjects, wrote : BOOLEAN]
    BY DEF GateInv, GateOK
  <2>2. CASE Begin(s, c, forced)
    BY <2>2 DEF GateInv, GateOK, Begin
  <2>3. CASE ExecuteInTransaction(s, c, forced)
    <3>1. open[c] # Nothing /\ open' = [open EXCEPT ![c] = [open[c] EXCEPT !.wrote = TRUE]]
      BY <2>3 DEF ExecuteInTransaction
    <3> QED BY <2>1, <3>1 DEF GateInv, GateOK
  <2>4. CASE Commit(s, c, forced)
    BY <2>4 DEF GateInv, GateOK, Commit
  <2> QED BY <2>2, <2>3, <2>4
<1>3. GateOK'
  BY <1>1, <1>2 DEF GateInv, GateOK, Rows, Rules, Forced
<1>4. CASE Begin(s, c, forced)
  <2>1. event' = Nothing /\ ~RefusesBegin(c) /\ \A d \in Conns \ {c} : open'[d] = open[d]
    BY <1>4 DEF Begin, GateInv, GateOK
  <2>2. ~IsAnswer' /\ ~IsChange'
    BY <2>1 DEF IsAnswer, IsChange
  <2>3. ReadonlyClosed'
    BY <2>1, GateAssumption DEF GateInv, ReadonlyClosed, RefusesBegin
  <2> QED BY <1>3, <2>2, <2>3 DEF GateInv, AnswerTyped, AnswersAsForOneself, ReadonlyHolds
<1>5. CASE ExecuteInTransaction(s, c, forced)
  <2>1. event' = Nothing /\ open[c] # Nothing /\ \A d \in Conns \ {c} : open'[d] = open[d]
    BY <1>5 DEF ExecuteInTransaction, GateInv, GateOK
  <2> QED BY <1>3, <2>1, QuietStep
<1>6. CASE Commit(s, c, forced)
  <2>1. open[c] # Nothing /\ \A d \in Conns \ {c} : open'[d] = open[d]
    BY <1>6 DEF Commit, GateInv, GateOK
  <2>2. event' = Nothing \/ event' = Change(TxTools(c).commit, c, open[c].by)
    BY <1>6 DEF Commit
  <2>3. c \in ReadonlyConns => TxTools(c).commit = "sql_commit"
    BY <2>1 DEF GateInv, ReadonlyClosed, TxTools, IsSql
  <2> QED BY <1>3, <2>1, <2>2, <2>3, QuietStep, ChangeStep
<1> QED BY <1>4, <1>5, <1>6

\* The transaction is rolled back, by a tool or the cleanup interval.
LEMMA RollbackStep ==
  ASSUME GateInv, NEW c \in Conns, Rollback(c)
  PROVE  GateInv'
<1>1. /\ UNCHANGED <<masking, cached, asking>> /\ event' = Nothing
      /\ open[c] # Nothing /\ open' = [open EXCEPT ![c] = Nothing]
  BY DEF Rollback
<1>2. GateOK'
  BY <1>1 DEF GateInv, GateOK, Rows, Rules, Forced
<1>3. \A d \in Conns : open'[d] = Nothing \/ open[d] # Nothing
  BY <1>1 DEF GateInv, GateOK
<1> QED BY <1>1, <1>2, <1>3, QuietStep

\* A call that changes the masking.
LEMMA MaskingStep ==
  ASSUME GateInv, NEW s \in Subjects, NEW forced \in Forced, MaskingCall(s, forced)
  PROVE  GateInv'
<1>1. PICK t, config : ChangeMasking(s, t, forced, config) /\ config \in [mode : Modes, rules : Seq(Rules)]
  <2>1. ASSUME NEW mode \in Modes
        PROVE  SetMode(masking, mode) \in [mode : Modes, rules : Seq(Rules)]
    BY DEF SetMode, GateInv, GateOK
  <2>2. ASSUME NEW r \in Custom
        PROVE  /\ AddRule(masking, r) \in [mode : Modes, rules : Seq(Rules)]
               /\ CanRemove(masking, r) => RemoveRule(masking, r) \in [mode : Modes, rules : Seq(Rules)]
    <3>1. masking.rules \in Seq(Rules) /\ r \in Rules /\ masking \in [mode : Modes, rules : Seq(Rules)]
      BY DEF GateInv, GateOK, Rules
    <3>2. CanRemove(masking, r) => RemoveFirst(masking.rules, r) \in Seq(Rules)
      BY <3>1, RemoveShortens DEF CanRemove
    <3>3. Append(masking.rules, r) \in Seq(Rules)
      BY <3>1
    <3> QED BY <3>1, <3>2, <3>3 DEF AddRule, WithRule, RemoveRule
  <2> QED BY <2>1, <2>2 DEF MaskingCall, SetMaskingMode, ManageMaskingRules
<1>2. GateOK'
  BY <1>1 DEF ChangeMasking, GateInv, GateOK, Rows, Rules, Forced
<1>3. "masking" \notin ReadonlyConns
  BY GateAssumption
<1> QED BY <1>1, <1>2, <1>3, ChangeStep DEF ChangeMasking, GateInv, GateOK

\* A query that waited is answered or fails.
LEMMA AnswersOrFailsStep ==
  ASSUME GateInv, NEW s \in Subjects, Answers(s) \/ Fails(s)
  PROVE  GateInv'
<1>1. asking[s] # Nothing /\ asking[s] \in [forced : Forced, keptFor : Conns \cup {Nothing}]
  BY DEF Answers, Fails, GateInv, GateOK
<1>2. masking' = masking /\ open' = open /\ asking' = [asking EXCEPT ![s] = Nothing]
  BY DEF Answers, Fails
<1>3. cached' \in [Conns -> {Nothing, Rows}]
  BY <1>1 DEF Answers, Fails, Stored, GateInv, GateOK
<1>4. GateOK'
  BY <1>2, <1>3 DEF GateInv, GateOK, Rows, Rules, Forced
<1>5. event' = Nothing \/ event' = Answer(asking[s].forced, Rows)
  BY DEF Answers, Fails
<1> QED BY <1>1, <1>2, <1>4, <1>5, QuietStep, AnswerStep

\* What every step keeps, whichever tools are called in whatever order: the rows kept for a
\* query are the driver's own, every answer masks them for the caller it is given to, and
\* nothing is begun or changed on a readonly connection but what its driver lets through.
THEOREM GateInvariant == GateSpec => []GateInv
<1>1. GateInv /\ [GateNext]_gateVars => GateInv'
  <2> SUFFICES ASSUME GateInv, [GateNext]_gateVars PROVE GateInv'
    OBVIOUS
  <2>1. CASE \E s \in Subjects, c \in Conns, forced \in Forced : CallOf(s, c, forced)
    BY <2>1, ReadStep, WriteStep, TransactionStep DEF CallOf
  <2>2. CASE \E s \in Subjects, forced \in Forced : MaskingCall(s, forced)
    BY <2>2, MaskingStep
  <2>3. CASE \E s \in Subjects : Answers(s) \/ Fails(s)
    BY <2>3, AnswersOrFailsStep
  <2>4. CASE \E c \in Conns : Rollback(c)
    BY <2>4, RollbackStep
  <2>5. CASE Clock
    <3>1. GateOK' /\ event' = Nothing /\ open' = open
      BY <2>5 DEF Clock, GateInv, GateOK, Rows, Rules, Forced
    <3> QED BY <3>1, QuietStep
  <2>6. CASE UNCHANGED gateVars
    BY <2>6 DEF gateVars, GateInv, GateOK, AnswerTyped, AnswersAsForOneself, ReadonlyClosed,
                ReadonlyHolds, IsAnswer, IsChange, Rows, Rules, Forced
  <2> QED BY <2>1, <2>2, <2>3, <2>4, <2>5, <2>6 DEF GateNext, Forced
<1> QED BY <1>1, InitGateInv, PTL DEF GateSpec

\* For every set of callers, policies and masking rules: sql_query answered from the cache
\* shows its caller exactly what asking the database would have shown, under the masking in
\* force at the answer, whoever the rows were kept for and whatever was changed since.
THEOREM AnsweredAsForOneself == GateSpec => []AnswersAsForOneself
BY GateInvariant, PTL DEF GateInv

\* For every set of connections and policies: a readonly connection changes only through
\* a procedure, the commit of a SQL transaction or an aggregation that writes its output.
THEOREM ReadonlyConnectionsHold == GateSpec => []ReadonlyHolds
BY GateInvariant, PTL DEF GateInv

-----------------------------------------------------------------------------
(* Policies and masking.                                                     *)

\* effectiveMaskingConfig takes the higher rank of two modes: what either mode masks is
\* masked, except what loose masks beside strict or strict-v2.
LEMMA ForcedMasksMore ==
  ASSUME NEW config \in [mode : Modes, rules : Seq(Rules)], NEW forced \in Forced, NEW f
  PROVE  LET effective == EffectiveMaskingConfig(config, forced)
         IN  \A mode \in {config.mode, forced} \ {"none"} :
               \/ Masked(f, [config EXCEPT !.mode = mode]) => Masked(f, effective)
               \/ mode = "loose" /\ {config.mode, forced} \cap {"strict", "strict-v2"} # {}
<1>1. PICK m \in Modes, rules \in Seq(Rules) : config = [mode |-> m, rules |-> rules]
  OBVIOUS
<1>2. \A n : [config EXCEPT !.mode = n] = [mode |-> n, rules |-> rules]
  BY <1>1
<1>3. EffectiveMaskingConfig(config, forced) = config
        \/ EffectiveMaskingConfig(config, forced) = [mode |-> forced, rules |-> rules]
  BY <1>2 DEF EffectiveMaskingConfig
<1>4. StrictV2(f, rules) => Strict(f, rules)
  BY DEF StrictV2, Strict
<1>5. \A n \in Modes : Masked(f, [mode |-> n, rules |-> rules]) <=>
        \/ n = "loose" /\ Loose(f, rules)
        \/ n = "strict" /\ Strict(f, rules)
        \/ n = "strict-v2" /\ StrictV2(f, rules)
  BY DEF Masked, Modes
<1>6. SUFFICES ASSUME NEW mode \in {m, forced} \ {"none"},
                      ~(mode = "loose" /\ {m, forced} \cap {"strict", "strict-v2"} # {}),
                      Masked(f, [mode |-> mode, rules |-> rules])
               PROVE  Masked(f, EffectiveMaskingConfig(config, forced))
  BY <1>1, <1>2
<1>7. mode \in Modes /\ mode \in {m, forced}
  BY DEF Forced
<1>10. /\ MaskingModeRank("off") = 0 /\ MaskingModeRank("loose") = 1
       /\ MaskingModeRank("strict-v2") = 2 /\ MaskingModeRank("strict") = 3
  BY DEF MaskingModeRank
<1>11. mode = "loose" => m \notin {"strict", "strict-v2"} /\ forced \notin {"strict", "strict-v2"}
  <2>1. mode = "loose" => {m, forced} \cap {"strict", "strict-v2"} = {}
    BY <1>6
  <2> QED BY <2>1
<1>8. CASE EffectiveMaskingConfig(config, forced) = config
  <2>1. forced = "none" \/ ~(MaskingModeRank(forced) > MaskingModeRank(m))
    <3>1. ASSUME forced # "none", MaskingModeRank(forced) > MaskingModeRank(m)
          PROVE  forced = m
      <4>1. [mode |-> forced, rules |-> rules] = [mode |-> m, rules |-> rules]
        BY <1>1, <1>2, <1>8, <3>1 DEF EffectiveMaskingConfig
      <4> QED BY <4>1
    <3>2. MaskingModeRank(m) \in Nat
      BY DEF MaskingModeRank, Modes
    <3> QED BY <3>1, <3>2
  <2>2. mode = m \/ (mode = forced /\ ~(MaskingModeRank(mode) > MaskingModeRank(m)))
    BY <2>1
  <2>3. \/ mode = m
        \/ mode = "off"
        \/ mode = "strict-v2" /\ m = "strict"
    BY ONLY <1>7, <1>10, <1>11, <2>2, m \in Modes DEF Modes
  <2> QED BY <1>1, <1>4, <1>5, <1>6, <1>7, <1>8, <2>3 DEF Modes
<1>9. CASE EffectiveMaskingConfig(config, forced) = [mode |-> forced, rules |-> rules]
           /\ EffectiveMaskingConfig(config, forced) # config
  <2>1. forced \in Modes /\ MaskingModeRank(forced) > MaskingModeRank(m)
    BY <1>1, <1>9 DEF EffectiveMaskingConfig, Forced
  <2>2. \/ mode = forced
        \/ mode = "off"
        \/ mode = "strict-v2" /\ forced = "strict"
    BY ONLY <1>7, <1>10, <1>11, <2>1, m \in Modes DEF Modes
  <2> QED BY <1>4, <1>5, <1>6, <1>7, <1>9, <2>1, <2>2 DEF Modes
<1> QED BY <1>3, <1>8, <1>9

\* For every list of rules: a field that the mode of the server or the mode of the policy
\* masks alone is masked under both, unless it is loose that masks it and the other mode is
\* strict or strict-v2.
THEOREM NeitherModeUnmasks == GateSpec => []ModesMaskTogether
<1>1. GateInv => ModesMaskTogether
  <2> SUFFICES ASSUME GateInv, IsAnswer, NEW mode \in {masking.mode, event.forced} \ {"none"},
                      ~(mode = "loose" /\ {masking.mode, event.forced} \cap {"strict", "strict-v2"} # {})
               PROVE  event.clear \subseteq Shown(Rows, [masking EXCEPT !.mode = mode])
    BY DEF ModesMaskTogether
  <2>1. event.clear = Shown(Rows, EffectiveMaskingConfig(masking, event.forced))
    BY DEF GateInv, AnswersAsForOneself
  <2>2. event.forced \in Forced /\ masking \in [mode : Modes, rules : Seq(Rules)]
    BY DEF GateInv, AnswerTyped, GateOK
  <2>3. \A f : Masked(f, [masking EXCEPT !.mode = mode])
               => Masked(f, EffectiveMaskingConfig(masking, event.forced))
    BY <2>2, ForcedMasksMore
  <2> QED BY <2>1, <2>3 DEF Shown
<1> QED BY <1>1, GateInvariant, PTL

\* For every list of rules: a rule added by manage_masking_rules hides no field less, in any
\* mode the server is in or may be set to.
THEOREM AddedRulesMaskMore == GateSpec => AddingRuleNeverUnmasks
<1> DEFINE A == Len(masking'.rules) > Len(masking.rules) =>
       \A mode \in Modes, f \in Fields :
         Masked(f, [masking EXCEPT !.mode = mode]) => Masked(f, [masking' EXCEPT !.mode = mode])
<1>1. GateInv /\ [GateNext]_gateVars => A
  <2> SUFFICES ASSUME GateInv, [GateNext]_gateVars, Len(masking'.rules) > Len(masking.rules)
               PROVE  \A mode \in Modes, f \in Fields :
                        Masked(f, [masking EXCEPT !.mode = mode])
                          => Masked(f, [masking' EXCEPT !.mode = mode])
    OBVIOUS
  <2>1. masking \in [mode : Modes, rules : Seq(Rules)]
    BY DEF GateInv, GateOK
  <2>2. masking' # masking
    BY <2>1
  <2>3. PICK s \in Subjects, forced \in Modes \cup {"none"} : MaskingCall(s, forced)
    BY <2>2 DEF GateNext, CallOf, Query, ReadLimited, ReadDocuments, Write, Execute, AggregateInto,
                Begin, ExecuteInTransaction, Commit, Rollback, Answers, Fails, Clock, gateVars
  <2>4. PICK r \in Custom : masking' = AddRule(masking, r)
    <3>1. ASSUME NEW mode \in Modes, masking' = SetMode(masking, mode)
          PROVE  FALSE
      BY <2>1, <3>1 DEF SetMode
    <3>2. ASSUME NEW r \in Custom, CanRemove(masking, r), masking' = RemoveRule(masking, r)
          PROVE  FALSE
      <4>1. masking'.rules = RemoveFirst(masking.rules, r)
        BY <2>1, <3>2 DEF RemoveRule
      <4>2. Len(masking'.rules) = Len(masking.rules) - 1
        BY <2>1, <3>2, <4>1, RemoveShortens DEF CanRemove
      <4>3. Len(masking.rules) \in Nat
        BY <2>1
      <4> QED BY <4>2, <4>3
    <3> QED BY <2>3, <3>1, <3>2 DEF MaskingCall, SetMaskingMode, ManageMaskingRules, ChangeMasking
  <2>5. r \in Rules
    BY DEF Rules
  <2> QED BY <2>1, <2>4, <2>5, AddingMasksMore
<1> QED BY <1>1, GateInvariant, PTL DEF GateSpec, AddingRuleNeverUnmasks

-----------------------------------------------------------------------------
(* What a policy lets anyone change.                                         *)

MaskingTools == {"set_masking_mode", "manage_masking_rules"}

\* The tools that change something themselves, or begin a transaction.
ChangingTools == (WriteTools \cup AdminTools) \ UNION {SqlTxTools, MongoTxTools, MaskingTools}

\* Every call of such a tool that the policy of an intent permits names a target of its caller.
PermitsOnly(i, targets) ==
  \A s \in Subjects, c \in Conns :
    /\ \A t \in ChangingTools : Permits[i][s][t][c] # {} => c \in targets[s]
    /\ \A t \in MaskingTools : Permits[i][s][t][c] # {} => "masking" \in targets[s]

\* Transactions are open, and changes were made, only where the policy permits them to those
\* who began or called.
Within(targets) ==
  /\ \A c \in Conns : open[c] # Nothing => c \in targets[open[c].by]
  /\ IsChange /\ event.tool # "mongo_aggregate" =>
       event.by \in Subjects /\ event.target \in targets[event.by]

\* A transaction that is open after a step was begun by the same caller before it.
KeepsOpen == \A c \in Conns : open'[c] = Nothing \/ (open[c] # Nothing /\ open'[c].by = open[c].by)

\* A step that changes no data opens transactions on targets at most.
LEMMA QuietWithin ==
  ASSUME NEW targets, Within(targets), event' = Nothing \/ IsAnswer',
         \A c \in Conns : \/ open'[c] = Nothing
                          \/ open[c] # Nothing /\ open'[c].by = open[c].by
                          \/ c \in targets[open'[c].by]
  PROVE  Within(targets)'
<1>1. ~IsChange'
  BY DEF IsChange, IsAnswer
<1> QED BY <1>1 DEF Within

\* A step that changes data changes a target.
LEMMA ChangeWithin ==
  ASSUME NEW targets, Within(targets), NEW t, NEW target, NEW by, event' = Change(t, target, by),
         (by \in Subjects /\ target \in targets[by]) \/ t = "mongo_aggregate", KeepsOpen
  PROVE  Within(targets)'
<1>1. event'.tool = t /\ event'.target = target /\ event'.by = by
  BY DEF Change
<1> QED BY <1>1 DEF Within, KeepsOpen

\* A commit changes no more than whoever began was permitted: the policy is not asked for
\* the connection of a transaction again.
LEMMA CallWithin ==
  ASSUME GateInv, NEW targets, PermitsOnly(intent, targets), Within(targets),
         NEW s \in Subjects, NEW c \in Conns, NEW forced, CallOf(s, c, forced)
  PROVE  Within(targets)'
<1>1. ASSUME NEW t \in ChangingTools, Calls(s, t, c, forced)
      PROVE  c \in targets[s]
  BY <1>1 DEF Calls, PermitsOnly
<1>2. CASE \/ \E paged \in BOOLEAN : Query(s, c, forced, paged)
           \/ \E t \in {"sql_export_query", "sql_sample_table"} : ReadLimited(s, t, c, forced)
           \/ \E t \in {"mongo_find", "mongo_aggregate"} : ReadDocuments(s, t, c, forced)
  <2>1. open' = open /\ (event' = Nothing \/ \E rows : event' = Answer(forced, rows))
    BY <1>2 DEF Query, ReadLimited, ReadDocuments
  <2>2. ASSUME NEW rows, event' = Answer(forced, rows) PROVE ~IsChange'
    BY <2>2 DEF Answer, IsChange
  <2>3. ~IsChange'
    BY <2>1, <2>2 DEF IsChange
  <2> QED BY <2>1, <2>3 DEF Within
<1>3. ASSUME NEW t \in WriteAtOnce, Write(s, t, c, forced)
      PROVE  Within(targets)'
  <2>0. t \in WriteTools \cup AdminTools
    BY DEF WriteAtOnce, WriteOneDocument, WriteManyDocuments, AlterCollection,
           WriteTools, SqlWriteTools, MongoWriteTools, AdminTools
  <2>1. Calls(s, t, c, forced) /\ MayChange(t, c) /\ event' = Change(t, c, s) /\ open' = open
    BY <1>3 DEF Write
  <2>2. t \in ChangingTools
    BY <2>0, <2>1 DEF MayChange, SqlMayChange, MongoMayChange, ChangingTools, MaskingTools, SqlTxTools,
                MongoTxTools, WriteOneDocument, WriteManyDocuments, AlterCollection
  <2>3. KeepsOpen
    BY <2>1 DEF KeepsOpen
  <2> QED BY <1>1, <2>1, <2>2, <2>3, ChangeWithin
<1>4. CASE Execute(s, c, forced)
  <2>1. Calls(s, "sql_execute", c, forced) /\ open' = open
          /\ (event' = Nothing \/ event' = Change("sql_execute", c, s))
    BY <1>4 DEF Execute
  <2>2. "sql_execute" \in ChangingTools
    BY DEF ChangingTools, MaskingTools, SqlTxTools, MongoTxTools, WriteTools, SqlWriteTools
  <2>3. KeepsOpen
    BY <2>1 DEF KeepsOpen
  <2> QED BY <1>1, <2>1, <2>2, <2>3, ChangeWithin, QuietWithin
<1>5. CASE AggregateInto(s, c, forced)
  BY <1>5, ChangeWithin DEF AggregateInto, KeepsOpen
<1>6. CASE Begin(s, c, forced)
  <2>1. TxTools(c).begin \in ChangingTools
    BY DEF TxTools, ChangingTools, MaskingTools, SqlTxTools, MongoTxTools, WriteTools,
           SqlWriteTools, MongoWriteTools
  <2>2. event' = Nothing /\ open' = [open EXCEPT ![c] = [by |-> s, wrote |-> FALSE]]
          /\ open \in [Conns -> {Nothing} \cup [by : Subjects, wrote : BOOLEAN]]
    BY <1>6 DEF Begin, GateInv, GateOK
  <2>3. c \in targets[s]
    BY <1>1, <1>6, <2>1 DEF Begin
  <2>4. open'[c].by = s /\ \A d \in Conns \ {c} : open'[d] = open[d]
    BY <2>2
  <2>5. \A d \in Conns : \/ open'[d] = Nothing
                         \/ open[d] # Nothing /\ open'[d].by = open[d].by
                         \/ d \in targets[open'[d].by]
    BY <2>3, <2>4
  <2> QED BY ONLY <2>2, <2>5, Within(targets), QuietWithin
<1>7. CASE ExecuteInTransaction(s, c, forced)
  <2>1. /\ open[c] # Nothing /\ event' = Nothing
        /\ open' = [open EXCEPT ![c] = [open[c] EXCEPT !.wrote = TRUE]]
    BY <1>7 DEF ExecuteInTransaction
  <2>2. open'[c].by = open[c].by /\ \A d \in Conns \ {c} : open'[d] = open[d]
    BY <2>1 DEF GateInv, GateOK
  <2> QED BY <2>1, <2>2, QuietWithin
<1>8. CASE Commit(s, c, forced)
  <2>1. /\ open[c] # Nothing /\ \A d \in Conns \ {c} : open'[d] = open[d]
        /\ event' = Nothing \/ event' = Change(TxTools(c).commit, c, open[c].by)
        /\ open'[c] = Nothing
    BY <1>8 DEF Commit, GateInv, GateOK
  <2>2. open[c].by \in Subjects /\ c \in targets[open[c].by] /\ KeepsOpen
    BY <2>1 DEF Within, KeepsOpen, GateInv, GateOK
  <2>3. CASE event' = Nothing
    BY <2>2, <2>3, QuietWithin DEF KeepsOpen
  <2>4. CASE event' = Change(TxTools(c).commit, c, open[c].by)
    BY <2>2, <2>4, ChangeWithin
  <2> QED BY <2>1, <2>3, <2>4
<1> QED BY <1>2, <1>3, <1>4, <1>5, <1>6, <1>7, <1>8 DEF CallOf

\* Where a policy permits changes of targets only, a step changes no more than them.
LEMMA NextWithin ==
  ASSUME GateInv, NEW targets, PermitsOnly(intent, targets), Within(targets), [GateNext]_gateVars
  PROVE  Within(targets)'
<1>1. CASE \E s \in Subjects, c \in Conns, forced \in Modes \cup {"none"} : CallOf(s, c, forced)
  BY <1>1, CallWithin
<1>2. CASE \E s \in Subjects, forced \in Modes \cup {"none"} : MaskingCall(s, forced)
  <2>1. PICK s \in Subjects, forced \in Modes \cup {"none"} : MaskingCall(s, forced)
    BY <1>2
  <2>2. PICK t, config : t \in MaskingTools /\ ChangeMasking(s, t, forced, config)
    BY <2>1 DEF MaskingCall, SetMaskingMode, ManageMaskingRules, MaskingTools
  <2>3. "masking" \in targets[s] /\ event' = Change(t, "masking", s) /\ open' = open
    BY <2>2 DEF ChangeMasking, Calls, PermitsOnly
  <2> QED BY <2>3, ChangeWithin DEF KeepsOpen
<1>3. CASE \E s \in Subjects : Answers(s) \/ Fails(s)
  <2>1. open' = open /\ (event' = Nothing \/ \E forced : event' = Answer(forced, Rows))
    BY <1>3 DEF Answers, Fails
  <2>2. ASSUME NEW forced, event' = Answer(forced, Rows) PROVE ~IsChange'
    BY <2>2 DEF Answer, IsChange
  <2>3. ~IsChange'
    BY <2>1, <2>2 DEF IsChange
  <2> QED BY <2>1, <2>3 DEF Within
<1>4. CASE \E c \in Conns : Rollback(c)
  <2>1. PICK c \in Conns : Rollback(c)
    BY <1>4
  <2>2. open'[c] = Nothing /\ event' = Nothing /\ \A d \in Conns \ {c} : open'[d] = open[d]
    BY <2>1 DEF Rollback, GateInv, GateOK
  <2> QED BY <2>2, QuietWithin
<1>5. CASE Clock
  BY <1>5, QuietWithin DEF Clock
<1>6. CASE UNCHANGED gateVars
  BY <1>6 DEF gateVars, Within, IsChange
<1> QED BY <1>1, <1>2, <1>3, <1>4, <1>5, <1>6 DEF GateNext

\* The policy of a server never changes.
LEMMA IntentStays == [GateNext]_gateVars => intent' = intent
BY DEF GateNext, CallOf, Query, ReadLimited, ReadDocuments, Write, Execute, AggregateInto, Calls,
       Begin, ExecuteInTransaction, Commit, Rollback, Answers, Fails, Clock, gateVars,
       MaskingCall, SetMaskingMode, ManageMaskingRules, ChangeMasking

\* By the name of the policy: what is changed lies within what the policy permits outright.
WithinIntent(targets) == intent \in DOMAIN Intents /\ Within(targets[intent])

LEMMA InitWithin == ASSUME NEW targets, GateInit PROVE WithinIntent(targets)
BY GateAssumption DEF GateInit, WithinIntent, Within, IsChange

LEMMA NextWithinIntent ==
  ASSUME NEW targets, \A i \in DOMAIN Intents : PermitsOnly(i, targets[i]),
         GateInv, WithinIntent(targets), [GateNext]_gateVars
  PROVE  WithinIntent(targets)'
<1>1. intent' = intent
  BY IntentStays
<1>2. PICK named : named = targets[intent]
  OBVIOUS
<1>3. Within(named)'
  BY <1>2, NextWithin DEF WithinIntent
<1> QED BY <1>1, <1>2, <1>3 DEF WithinIntent, Within, IsChange

\* For every policy, default connection and default effect: if each single call that is
\* permitted stays within what its caller may change (PermitsOnly, about the decisions the
\* code makes, those by a rule about the default connection included), then so does every
\* sequence of calls, what is committed being changed by whoever began.  Execute and commit
\* are asked of the policy without the connection they change.
THEOREM IntentsKept ==
  ASSUME \A i \in DOMAIN Intents : PermitsOnly(i, Intents[i].changes)
  PROVE  GateSpec => []NoChangeBeyondIntent
<1> DEFINE targets == [i \in DOMAIN Intents |-> Intents[i].changes]
<1>1. \A i \in DOMAIN Intents : PermitsOnly(i, targets[i])
  OBVIOUS
<1>2. WithinIntent(targets) => NoChangeBeyondIntent
  BY DEF Within, WithinIntent, NoChangeBeyondIntent
<1> HIDE DEF targets
<1>3. GateInit => WithinIntent(targets)
  BY InitWithin
<1>4. GateInv /\ WithinIntent(targets) /\ [GateNext]_gateVars => WithinIntent(targets)'
  BY <1>1, NextWithinIntent
<1> QED BY <1>2, <1>3, <1>4, GateInvariant, PTL DEF GateSpec

-----------------------------------------------------------------------------
(* What the templates let anyone do.                                         *)

\* The only place the loops look at in a template, and the rule there.
OnlyPlace == <<1, <<1, 1>>>>

OnlyRule(actions, conditions) == Rule(AllTools \cup EveryConnection, actions, "allow", conditions)

\* What a template consists of: one binding of one role with one rule.
LEMMA TemplateFields ==
  ASSUME NEW role, NEW subjects, NEW actions, NEW conditions, NEW policy,
         policy = Template(role, subjects, actions, conditions)
  PROVE  /\ DOMAIN policy.bindings = {1}
         /\ policy.bindings[1].subjects = subjects
         /\ DOMAIN policy.bindings[1].roles = {1}
         /\ policy.bindings[1].roles[1] = role
         /\ DOMAIN policy.roles[role] = {1}
         /\ policy.roles[role][1] = OnlyRule(actions, conditions)
<1>1. policy = [roles |-> [r \in {role} |-> <<OnlyRule(actions, conditions)>>],
                bindings |-> <<[subjects |-> subjects, roles |-> <<role>>]>>]
  BY DEF Template, OnlyRule
<1> QED BY <1>1

LEMMA TemplateRule ==
  ASSUME NEW role, NEW subjects, NEW actions, NEW conditions, NEW policy,
         policy = Template(role, subjects, actions, conditions)
  PROVE  RuleAt(policy, OnlyPlace) = OnlyRule(actions, conditions)
BY TemplateFields DEF RuleAt, OnlyPlace

\* The rules of a template that are for a subject: the one or none.
LEMMA TemplatePlaces ==
  ASSUME NEW role, NEW subjects, NEW actions, NEW conditions, NEW policy, NEW s,
         policy = Template(role, subjects, actions, conditions)
  PROVE  Places(policy, s) = IF s \in subjects THEN {OnlyPlace} ELSE {}
<1> DEFINE given(b) == policy.bindings[b].roles
           rules(b) == UNION {{r} \X DOMAIN policy.roles[given(b)[r]] : r \in DOMAIN given(b)}
           bound == {n \in DOMAIN policy.bindings : s \in policy.bindings[n].subjects}
<1>1. rules(1) = {<<1, 1>>}
  BY TemplateFields
<1>2. bound = IF s \in subjects THEN {1} ELSE {}
  BY TemplateFields
<1>3. Places(policy, s) = UNION {{b} \X rules(b) : b \in bound}
  BY DEF Places
<1> HIDE DEF bound, rules
<1> QED BY <1>1, <1>2, <1>3 DEF OnlyPlace

\* What a decision is under a policy of one rule: for the subjects and the actions it names by
\* its conditions, for all others by the default effect.
ByOneRule(decision, options, subjects, actions, conditions, s, t, rows, inWindow) ==
  /\ s \in subjects /\ ActionOf(t) \in actions =>
       /\ decision.conditions = conditions
       /\ decision.allowed <=> /\ s.transport \in conditions.transport
                               /\ rows <= conditions.maxRows
                               /\ conditions.window => inWindow
  /\ ~(s \in subjects /\ ActionOf(t) \in actions) =>
       (decision.allowed <=> options.defaultAllows)

\* A template has one rule.
LEMMA TemplateDecides ==
  ASSUME NEW role, NEW subjects, NEW actions, NEW conditions, NEW options, NEW policy,
         options.policy = policy, policy = Template(role, subjects, actions, conditions),
         policy # NoPolicy,
         NEW s, NEW t \in Tools, NEW named, NEW rows, NEW inWindow,
         NEW decision, decision = Authorize(options, s, t, named, rows, inWindow)
  PROVE  ByOneRule(decision, options, subjects, actions, conditions, s, t, rows, inWindow)
<1>1. PICK request : request =
        [subject |-> s, action |-> ActionOf(t), resources |-> ResourcesOf(t, named), rows |-> rows,
         inWindow |-> inWindow]
  OBVIOUS
<1>2. /\ request.subject = s /\ request.action = ActionOf(t) /\ request.rows = rows
      /\ request.resources = ResourcesOf(t, named) /\ request.inWindow = inWindow
  BY ONLY <1>1
<1>3. <<"tool", t>> \in request.resources
  BY <1>2 DEF ResourcesOf
<1> DEFINE rule == OnlyRule(actions, conditions)
           matching == {p \in Places(policy, request.subject) : Matches(RuleAt(policy, p), request)}
<1>4. Matches(rule, request) <=> request.action \in actions
  BY <1>3 DEF OnlyRule, Rule, Matches, AllTools
<1>5. rule.effect = "allow" /\ rule.conditions = conditions
  BY DEF OnlyRule, Rule
<1>6. RuleAt(policy, OnlyPlace) = rule
  BY TemplateRule
<1>7. Places(policy, request.subject) = IF request.subject \in subjects THEN {OnlyPlace} ELSE {}
  BY TemplatePlaces
<1> HIDE DEF rule
<1>8. matching = IF request.subject \in subjects /\ request.action \in actions
                 THEN {OnlyPlace} ELSE {}
  BY <1>4, <1>6, <1>7
<1>9. decision =
        IF matching = {} THEN [allowed |-> options.defaultAllows, conditions |-> Unconditional]
        ELSE LET first == RuleAt(policy, CHOOSE p \in matching : \A q \in matching : Before(p, q))
             IN  [allowed    |-> first.effect = "allow" /\ ConditionsAllow(first.conditions, request),
                  conditions |-> first.conditions]
  BY <1>1 DEF Authorize, AuthorizeWithPolicy
<1> HIDE DEF matching
<1>10. matching = {OnlyPlace} =>
        (CHOOSE p \in matching : \A q \in matching : Before(p, q)) = OnlyPlace
  <2>1. Before(OnlyPlace, OnlyPlace)
    BY DEF Before, OnlyPlace
  <2> QED BY <2>1
<1>11. CASE ~(request.subject \in subjects /\ request.action \in actions)
  <2>1. decision = [allowed |-> options.defaultAllows, conditions |-> Unconditional]
    BY <1>8, <1>9, <1>11
  <2>2. decision.allowed <=> options.defaultAllows
    BY ONLY <2>1
  <2> QED BY ONLY <1>2, <1>11, <2>2 DEF ByOneRule
<1>12. CASE request.subject \in subjects /\ request.action \in actions
  <2>1. matching = {OnlyPlace} /\ matching # {}
    BY <1>8, <1>12
  <2>2. decision = [allowed |-> rule.effect = "allow" /\ ConditionsAllow(rule.conditions, request),
                    conditions |-> rule.conditions]
    BY <1>6, <1>9, <1>10, <2>1
  <2>3. decision.allowed <=> rule.effect = "allow" /\ ConditionsAllow(rule.conditions, request)
    BY ONLY <2>2
  <2>4. decision.conditions = conditions
    BY ONLY <1>5, <2>2
  <2> QED BY ONLY <1>5, <1>2, <1>12, <2>3, <2>4 DEF ConditionsAllow, ByOneRule
<1> QED BY <1>11, <1>12

LEMMA HttpOnlyFields ==
  ASSUME NEW n, NEW conditions, conditions = HttpOnly(n)
  PROVE  /\ conditions.transport = {"http"} /\ conditions.maxRows = n
         /\ ~conditions.window /\ conditions.maskingMode = "strict-v2"
BY DEF HttpOnly, Unconditional

\* What each template decides, for every connection that is named and every default effect:
\* readers at the HTTP transport with bounded rows, or the local user alone.  What a template
\* has no rule for is left to the default effect, so it denies only where that does.
THEOREM TemplatesDecide ==
  ASSUME NEW s \in Subjects, NEW t \in Tools, NEW named, NEW rows \in 0..NoLimit,
         NEW inWindow \in BOOLEAN, NEW options
  PROVE  LET allowed == Authorize(options, s, t, named, rows, inWindow).allowed
         IN  /\ options.policy = ReadonlyHttp =>
                  IF ActionOf(t) \in {"read", "diagnose", "export", "replay"}
                  THEN allowed <=> s.transport = "http" /\ rows <= 1000
                  ELSE allowed <=> options.defaultAllows
             /\ options.policy = DiagnosticReadonly =>
                  IF ActionOf(t) \in {"diagnose", "read"}
                  THEN allowed <=> s.transport = "http" /\ rows <= 100
                  ELSE allowed <=> options.defaultAllows
             /\ options.policy = LocalAdmin =>
                  IF s.name = "local:stdio"
                  THEN allowed <=> s.transport = "stdio"
                  ELSE allowed <=> options.defaultAllows
<1>1. PICK decision : decision = Authorize(options, s, t, named, rows, inWindow)
  OBVIOUS
<1>2. ASSUME options.policy = ReadonlyHttp
      PROVE  IF ActionOf(t) \in {"read", "diagnose", "export", "replay"}
             THEN decision.allowed <=> s.transport = "http" /\ rows <= 1000
             ELSE decision.allowed <=> options.defaultAllows
  <2>1. PICK conditions : conditions = HttpOnly(1000)
    OBVIOUS
  <2>2. PICK actions : actions = {"read", "diagnose", "export", "replay"}
    OBVIOUS
  <2>3. PICK policy  : /\ options.policy = policy /\ policy # NoPolicy
                       /\ policy = Template("readonly_analyst", Subjects, actions, conditions)
    BY <1>2, <2>1, <2>2, AccessAssumption DEF ReadonlyHttp
  <2>4. ByOneRule(decision, options, Subjects, actions, conditions, s, t, rows, inWindow)
    BY ONLY <1>1, <2>3, TemplateDecides, t \in Tools
  <2>5. conditions.transport = {"http"} /\ conditions.maxRows = 1000 /\ ~conditions.window
    BY ONLY <2>1, HttpOnlyFields
  <2> QED BY <2>2, <2>4, <2>5 DEF ByOneRule
<1>3. ASSUME options.policy = DiagnosticReadonly
      PROVE  IF ActionOf(t) \in {"diagnose", "read"}
             THEN decision.allowed <=> s.transport = "http" /\ rows <= 100
             ELSE decision.allowed <=> options.defaultAllows
  <2>1. PICK conditions : conditions = HttpOnly(100)
    OBVIOUS
  <2>2. PICK actions : actions = {"diagnose", "read"}
    OBVIOUS
  <2>3. PICK policy  : /\ options.policy = policy /\ policy # NoPolicy
                       /\ policy = Template("diagnostic_reader", Subjects, actions, conditions)
    BY <1>3, <2>1, <2>2, AccessAssumption DEF DiagnosticReadonly
  <2>4. ByOneRule(decision, options, Subjects, actions, conditions, s, t, rows, inWindow)
    BY ONLY <1>1, <2>3, TemplateDecides, t \in Tools
  <2>5. conditions.transport = {"http"} /\ conditions.maxRows = 100 /\ ~conditions.window
    BY ONLY <2>1, HttpOnlyFields
  <2> QED BY <2>2, <2>4, <2>5 DEF ByOneRule
<1>4. ASSUME options.policy = LocalAdmin
      PROVE  IF s.name = "local:stdio"
             THEN decision.allowed <=> s.transport = "stdio"
             ELSE decision.allowed <=> options.defaultAllows
  <2> DEFINE local == {u \in Subjects : u.name = "local:stdio"}
  <2>1. PICK conditions : conditions = [Unconditional EXCEPT !.transport = {"stdio"}]
    OBVIOUS
  <2>2. conditions.transport = {"stdio"} /\ conditions.maxRows = NoLimit /\ ~conditions.window
    BY <2>1 DEF Unconditional
  <2>3. LocalAdmin = Template("local_admin", local, Actions, conditions) /\ LocalAdmin # NoPolicy
    BY <2>1, AccessAssumption DEF LocalAdmin
  <2>4. ActionOf(t) \in Actions
    BY DEF ActionOf, Actions
  <2>5. rows <= NoLimit
    OBVIOUS
  <2>6. s \in local <=> s.name = "local:stdio"
    OBVIOUS
  <2> HIDE DEF local
  <2>7. PICK policy  : /\ options.policy = policy /\ policy # NoPolicy
                       /\ policy = Template("local_admin", local, Actions, conditions)
    BY <1>4, <2>3
  <2>8. ByOneRule(decision, options, local, Actions, conditions, s, t, rows, inWindow)
    BY ONLY <1>1, <2>7, TemplateDecides, t \in Tools
  <2> QED BY <2>2, <2>4, <2>5, <2>6, <2>8 DEF ByOneRule
<1> QED BY <1>1, <1>2, <1>3, <1>4

\* The intents that only let anyone read: the templates for readers where the default effect
\* is deny, and a server that wants tokens but was given no policy.
Readers ==
  {i \in DOMAIN Intents :
     \/ Intents[i].policy \in {ReadonlyHttp, DiagnosticReadonly} /\ ~Intents[i].defaultAllows
     \/ Intents[i].policy = NoPolicy /\ Intents[i].bearer = TRUE}

\* The policies that permit reading only: no change, and rows under strict-v2.
LEMMA ReadersPermit ==
  ASSUME NEW i \in Readers, NEW s \in Subjects, NEW t \in Tools, NEW c \in Conns,
         NEW mode, mode \in Permits[i][s][t][c]
  PROVE  ActionOf(t) \notin {"write", "admin"} /\ mode = "strict-v2"
<1>1. i \in DOMAIN Intents
  BY DEF Readers
<1>2. PICK rows, inWindow, decision :
        /\ decision = Authorize(Intents[i], s, t, {c}, rows, inWindow)
        /\ decision.allowed /\ decision.conditions.maskingMode = mode
  BY SMTT(60), <1>1 DEF Permits
<1>3. CASE Intents[i].policy = NoPolicy
  <2>1. Intents[i].bearer = TRUE
    BY <1>3, AccessAssumption DEF Readers
  <2>2. decision = [allowed |-> FALSE, conditions |-> Unconditional]
    BY <1>2, <1>3, <2>1 DEF Authorize
  <2>3. ~decision.allowed
    BY ONLY <2>2
  <2> QED BY <1>2, <2>3
<1>4. CASE Intents[i].policy = ReadonlyHttp
  <2>1. PICK conditions : conditions = HttpOnly(1000)
    OBVIOUS
  <2>2. PICK options : options = Intents[i]
    OBVIOUS
  <2>3. PICK actions : actions = {"read", "diagnose", "export", "replay"}
    OBVIOUS
  <2>4. PICK policy  : /\ options.policy = policy /\ policy # NoPolicy
                       /\ policy = Template("readonly_analyst", Subjects, actions, conditions)
    BY <1>4, <2>1, <2>2, <2>3, AccessAssumption DEF ReadonlyHttp
  <2>5. ByOneRule(decision, options, Subjects, actions, conditions, s, t, rows, inWindow)
    BY ONLY <1>2, <2>2, <2>4, TemplateDecides, t \in Tools
  <2>6. ~options.defaultAllows
    BY <1>4, <2>2, <2>4 DEF Readers
  <2> QED BY <1>2, <2>1, <2>3, <2>5, <2>6, HttpOnlyFields DEF ByOneRule
<1>5. CASE Intents[i].policy = DiagnosticReadonly
  <2>1. PICK conditions : conditions = HttpOnly(100)
    OBVIOUS
  <2>2. PICK options : options = Intents[i]
    OBVIOUS
  <2>3. PICK actions : actions = {"diagnose", "read"}
    OBVIOUS
  <2>4. PICK policy  : /\ options.policy = policy /\ policy # NoPolicy
                       /\ policy = Template("diagnostic_reader", Subjects, actions, conditions)
    BY <1>5, <2>1, <2>2, <2>3, AccessAssumption DEF DiagnosticReadonly
  <2>5. ByOneRule(decision, options, Subjects, actions, conditions, s, t, rows, inWindow)
    BY ONLY <1>2, <2>2, <2>4, TemplateDecides, t \in Tools
  <2>6. ~options.defaultAllows
    BY <1>5, <2>2, <2>4 DEF Readers
  <2> QED BY <1>2, <2>1, <2>3, <2>5, <2>6, HttpOnlyFields DEF ByOneRule
<1> QED BY <1>3, <1>4, <1>5 DEF Readers

\* What nobody may change.
NoTargets == [s \in Subjects |-> {}]

\* Such a policy permits no change at all.
LEMMA ReadersPermitOnly == ASSUME NEW i \in Readers PROVE PermitsOnly(i, NoTargets)
<1>1. \A t \in ChangingTools \cup MaskingTools : t \in Tools /\ ActionOf(t) \in {"write", "admin"}
  BY DEF ChangingTools, MaskingTools, Tools, WriteTools, AdminTools, ActionOf, ReadTools, SqlTxTools,
         MongoTxTools, SqlWriteTools, MongoWriteTools, RedisWriteTools, SqlReadTools, MongoReadTools,
         RedisReadTools, OtherReadTools, DiagnoseTools, ExportTools, ReplayTools
<1> QED BY <1>1, ReadersPermit DEF PermitsOnly, NoTargets

\* What a reader waits for, and what the last one was shown, is masked at least as strict-v2.
ReadersMasked ==
  /\ \A s \in Subjects : asking[s] # Nothing => asking[s].forced = "strict-v2"
  /\ IsAnswer => event.forced = "strict-v2"

\* Under such a policy the mode strict-v2 is forced on everything that is read.
LEMMA NextReadersMasked ==
  ASSUME GateInv, intent \in Readers, ReadersMasked, [GateNext]_gateVars
  PROVE  ReadersMasked'
<1>1. CASE \E s \in Subjects, c \in Conns, forced \in Modes \cup {"none"} : CallOf(s, c, forced)
  <2>1. PICK s \in Subjects, c \in Conns, forced \in Modes \cup {"none"} : CallOf(s, c, forced)
    BY <1>1
  <2>2. CASE asking' = asking /\ ~IsAnswer'
    BY <2>2 DEF ReadersMasked
  <2>3. CASE \/ \E paged \in BOOLEAN : Query(s, c, forced, paged)
             \/ \E t \in {"sql_export_query", "sql_sample_table"} : ReadLimited(s, t, c, forced)
             \/ \E t \in {"mongo_find", "mongo_aggregate"} : ReadDocuments(s, t, c, forced)
    <3>1. PICK t \in {"sql_query", "sql_export_query", "sql_sample_table", "mongo_find",
                      "mongo_aggregate"} : Calls(s, t, c, forced)
      BY <2>3 DEF Query, ReadLimited, ReadDocuments
    <3>2. t \in Tools
      BY DEF Tools, ReadTools, SqlReadTools, MongoReadTools, ExportTools
    <3>3. forced = "strict-v2"
      BY <3>1, <3>2, ReadersPermit DEF Calls
    <3>4. (\E kept : Ask(s, forced, kept)) \/ asking' = asking
      BY <2>3 DEF Query, ReadLimited, ReadDocuments
    <3>5. event' = Nothing \/ \E rows : event' = Answer(forced, rows)
      BY <2>3 DEF Query, ReadLimited, ReadDocuments
    <3>6. IsAnswer' => event'.forced = "strict-v2"
      BY <3>3, <3>5 DEF IsAnswer, Answer
    <3>7. \A u \in Subjects : asking'[u] # Nothing => asking'[u].forced = "strict-v2"
      BY <3>3, <3>4 DEF Ask, ReadersMasked, GateInv, GateOK
    <3> QED BY <3>6, <3>7 DEF ReadersMasked
  <2>4. CASE \/ \E t \in WriteAtOnce : Write(s, t, c, forced)
             \/ Execute(s, c, forced) \/ AggregateInto(s, c, forced)
             \/ Begin(s, c, forced) \/ ExecuteInTransaction(s, c, forced) \/ Commit(s, c, forced)
    <3>1. asking' = asking /\ (event' = Nothing \/ \E t, by : event' = Change(t, c, by))
      BY <2>4 DEF Write, Execute, AggregateInto, Begin, ExecuteInTransaction, Commit
    <3>2. ~IsAnswer'
      BY <3>1 DEF IsAnswer, Change
    <3> QED BY <2>2, <3>1, <3>2
  <2> QED BY <2>1, <2>3, <2>4 DEF CallOf
<1>2. CASE \E s \in Subjects, forced \in Modes \cup {"none"} : MaskingCall(s, forced)
  <2>1. asking' = asking /\ \E t, by : event' = Change(t, "masking", by)
    BY <1>2 DEF MaskingCall, SetMaskingMode, ManageMaskingRules, ChangeMasking
  <2>2. ~IsAnswer'
    BY <2>1 DEF IsAnswer, Change
  <2> QED BY <2>1, <2>2 DEF ReadersMasked
<1>3. CASE \E s \in Subjects : Answers(s) \/ Fails(s)
  <2>1. PICK s \in Subjects : Answers(s) \/ Fails(s)
    BY <1>3
  <2>2. /\ asking[s] # Nothing /\ asking' = [asking EXCEPT ![s] = Nothing]
        /\ event' = Nothing \/ event' = Answer(asking[s].forced, Rows)
    BY <2>1 DEF Answers, Fails
  <2>3. IsAnswer' => event'.forced = "strict-v2"
    BY <2>2 DEF IsAnswer, Answer, ReadersMasked
  <2> QED BY <2>2, <2>3 DEF ReadersMasked, GateInv, GateOK
<1>4. CASE (\E c \in Conns : Rollback(c)) \/ Clock
  BY <1>4 DEF Rollback, Clock, ReadersMasked, IsAnswer
<1>5. CASE UNCHANGED gateVars
  BY <1>5 DEF gateVars, ReadersMasked, IsAnswer
<1> QED BY <1>1, <1>2, <1>3, <1>4, <1>5 DEF GateNext

\* Under a template for readers whose default effect is deny nobody changes anything, except
\* by an aggregation that writes its output, and everybody is shown no more than strict-v2 leaves.
THEOREM ReadersOnlyRead ==
  ASSUME NEW i \in Readers
  PROVE  GateSpec => [](intent = i => /\ IsChange => event.tool = "mongo_aggregate"
                                      /\ IsAnswer => event.clear \subseteq
                                           Shown(Rows, [masking EXCEPT !.mode = "strict-v2"]))
<1> DEFINE Inv == intent = i => Within(NoTargets) /\ ReadersMasked
           Goal == intent = i => /\ IsChange => event.tool = "mongo_aggregate"
                                 /\ IsAnswer => event.clear \subseteq
                                      Shown(Rows, [masking EXCEPT !.mode = "strict-v2"])
<1>1. GateInit => Inv
  BY DEF GateInit, Within, ReadersMasked, IsChange, IsAnswer
<1>2. GateInv /\ Inv /\ [GateNext]_gateVars => Inv'
  <2> SUFFICES ASSUME GateInv, intent = i, Within(NoTargets), ReadersMasked, [GateNext]_gateVars
               PROVE  Within(NoTargets)' /\ ReadersMasked'
    BY IntentStays
  <2>1. Within(NoTargets)'
    BY ReadersPermitOnly, NextWithin
  <2> QED BY <2>1, NextReadersMasked
<1>3. GateInv /\ ModesMaskTogether /\ Inv => Goal
  <2> SUFFICES ASSUME GateInv, ModesMaskTogether, intent = i, Within(NoTargets), ReadersMasked
               PROVE  /\ IsChange => event.tool = "mongo_aggregate"
                      /\ IsAnswer => event.clear \subseteq
                           Shown(Rows, [masking EXCEPT !.mode = "strict-v2"])
    OBVIOUS
  <2>1. event.by \in Subjects => event.target \notin NoTargets[event.by]
    BY DEF NoTargets
  <2>2. IsChange => event.tool = "mongo_aggregate"
    BY <2>1 DEF Within
  <2>3. IsAnswer => "strict-v2" \in {masking.mode, event.forced} \ {"none"}
    BY DEF ReadersMasked
  <2> QED BY <2>2, <2>3 DEF ModesMaskTogether
<1> HIDE DEF Inv, Goal
<1>4. GateSpec => []Goal
  BY <1>1, <1>2, <1>3, GateInvariant, NeitherModeUnmasks, PTL DEF GateSpec
<1> QED BY <1>4 DEF Goal
=============================================================================
