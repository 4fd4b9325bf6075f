----------------------------- MODULE RateLimiter -----------------------------
(* The token buckets of src/core/rate-limiter.ts, one per connection id,     *)
(* asked by sql_query and sql_execute before anything else.  A bucket is     *)
(* refilled only when its key calls, for the time since its last call, and   *)
(* the cleanup interval drops the buckets that have not been used for        *)
(* IdleTtl milliseconds: the next call of such a key finds a new, full one.  *)
(*                                                                           *)
(* Tokens are in thousandths, so refill = (elapsed / 1000) * maxPerSecond is *)
(* an integer; the rounding of the code's floating point is left out, and    *)
(* the clock does not step back.                                             *)
EXTENDS Integers, Sequences

CONSTANTS
  Keys,          \* connection ids
  MaxPerSecond,  \* DB_RATE_LIMIT_PER_SECOND, positive: 0 turns the limiter off
  IdleTtl,       \* idleTtlMs, 300000 unless the constructor is told otherwise
  Delays,        \* bound: the milliseconds by which the clock may advance
  MaxNow         \* bound: the last millisecond

ASSUME LimiterAssumption ==
  /\ MaxPerSecond \in Nat \ {0}
  /\ IdleTtl \in Nat /\ IdleTtl >= 1000
  /\ Delays \subseteq Nat /\ MaxNow \in Nat

VARIABLES
  now,      \* Date.now()
  live,     \* the keys of buckets
  tokens,   \* bucket.tokens
  last,     \* bucket.lastRefill and bucket.lastUsed, always assigned together
  granted   \* history: when the allowed calls of each key were made

vars == <<now, live, tokens, last, granted>>

Token == 1000
Full == Token * MaxPerSecond

Init ==
  /\ now = 0 /\ live = {}
  /\ tokens = [k \in Keys |-> Full]
  /\ last = [k \in Keys |-> 0]
  /\ granted = [k \in Keys |-> << >>]

\* Faulty variant: tokens pile up without a cap.
Uncapped(n) == n

Capped(n) == IF n > Full THEN Full ELSE n

\* The tokens a bucket gains in a time.
Refill(elapsed) == elapsed * MaxPerSecond

\* What allow(k) finds after making a missing bucket and refilling it.
Level(k) ==
  IF k \in live THEN Capped(tokens[k] + Refill(now - last[k]))
  ELSE Full

Allow(k) ==
  /\ live' = live \cup {k}
  /\ last' = [last EXCEPT ![k] = now]
  /\ IF Level(k) >= Token
     THEN /\ tokens' = [tokens EXCEPT ![k] = Level(k) - Token]
          /\ granted' = [granted EXCEPT ![k] = Append(@, now)]
     ELSE /\ tokens' = [tokens EXCEPT ![k] = Level(k)]
          /\ UNCHANGED granted
  /\ UNCHANGED now

\* Faulty variant: a bucket idle for any time at all is dropped.
Recent(k) == last[k] >= now

Used(k) == last[k] >= now - IdleTtl

Cleanup ==
  /\ live' = {k \in live : Used(k)}
  /\ UNCHANGED <<now, tokens, last, granted>>

Tick(d) ==
  /\ now + d <= MaxNow
  /\ now' = now + d
  /\ UNCHANGED <<live, tokens, last, granted>>

Next == (\E k \in Keys : Allow(k)) \/ Cleanup \/ (\E d \in Delays : Tick(d))

Spec == Init /\ [][Next]_vars

-----------------------------------------------------------------------------
(* Properties.                                                               *)

\* In no stretch of time, however it lies across refills, refusals and cleanups,
\* are more calls of one key allowed than a full bucket plus what the rate adds in
\* that stretch: the i-th to the j-th allowed call are j - i + 1 of them.
RateBound ==
  \A k \in Keys : \A j \in DOMAIN granted[k] : \A i \in 1..j :
    Token * (j - i + 1) <= Full + Refill(granted[k][j] - granted[k][i])

Bucket == INSTANCE TokenBucket WITH level <- [k \in Keys |-> Level(k)]

\* Refilling lazily and forgetting idle keys cannot be noticed: every decision is
\* that of a bucket filling all the time that is never forgotten.
ImplementsTokenBucket == Bucket!Spec
=============================================================================
