----------------------------- MODULE TokenBucket -----------------------------
(* What rate limiting promises for each key: a bucket that holds at most     *)
(* MaxPerSecond tokens, fills up at that rate all the time and forgets       *)
(* nothing; a call is allowed if it finds a whole token, and takes it.       *)
(*                                                                           *)
(* RateLimiter, which fills a bucket only when its key calls and drops idle  *)
(* buckets, is shown to implement it.  Levels are in thousandths of a token, *)
(* so that a millisecond adds MaxPerSecond of them.                          *)
EXTENDS Integers, Sequences

CONSTANTS
  Keys,          \* connection ids
  MaxPerSecond   \* DB_RATE_LIMIT_PER_SECOND, positive: 0 turns the limiter off

VARIABLES
  now,      \* milliseconds
  level,    \* current level of each bucket
  granted   \* history: when the allowed calls of each key were made

vars == <<now, level, granted>>

Token == 1000
Full == Token * MaxPerSecond
Capped(n) == IF n > Full THEN Full ELSE n

Init ==
  /\ now \in Nat
  /\ level = [k \in Keys |-> Full]
  /\ granted = [k \in Keys |-> << >>]

\* Time passes.
Pass ==
  /\ now' \in Nat /\ now' >= now
  /\ level' = [k \in Keys |-> Capped(level[k] + (now' - now) * MaxPerSecond)]
  /\ UNCHANGED granted

Grant(k) ==
  /\ level[k] >= Token
  /\ level' = [level EXCEPT ![k] = @ - Token]
  /\ granted' = [granted EXCEPT ![k] = Append(@, now)]
  /\ UNCHANGED now

Next == Pass \/ \E k \in Keys : Grant(k)

Spec == Init /\ [][Next]_vars
=============================================================================
