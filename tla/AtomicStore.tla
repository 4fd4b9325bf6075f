----------------------------- MODULE AtomicStore -----------------------------
(* What explicit transactions promise, whatever the engine: a handle's       *)
(* statements are invisible until one step makes all of them permanent, or   *)
(* none; and nothing happens through a handle after that step.               *)
(*                                                                           *)
(* PooledTransactions and SqliteTransactions are shown to implement it.      *)
CONSTANTS
  Txs,    \* transaction handles
  Stmts   \* numbers of the statements sent through one handle

VARIABLES
  store,  \* permanent writes, as pairs of a handle and a statement number
  local,  \* for each handle, its statements that are neither permanent nor undone
  ended   \* handles that were committed or rolled back

vars == <<store, local, ended>>

Init == store = {} /\ local = [t \in Txs |-> {}] /\ ended = {}

Write(t, n) ==
  /\ t \notin ended
  /\ local' = [local EXCEPT ![t] = @ \cup {n}]
  /\ UNCHANGED <<store, ended>>

\* All of the handle's statements become permanent at once.
Publish(t) ==
  /\ t \notin ended
  /\ store' = store \cup ({t} \X local[t])
  /\ local' = [local EXCEPT ![t] = {}]
  /\ ended' = ended \cup {t}

\* None of them does.
Discard(t) ==
  /\ t \notin ended
  /\ local' = [local EXCEPT ![t] = {}]
  /\ ended' = ended \cup {t}
  /\ UNCHANGED store

Next == \E t \in Txs : Publish(t) \/ Discard(t) \/ \E n \in Stmts : Write(t, n)

Spec == Init /\ [][Next]_vars
=============================================================================
