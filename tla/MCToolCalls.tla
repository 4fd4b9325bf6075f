---------------------------- MODULE MCToolCalls ----------------------------
(* ToolCalls for TLC: calls differ in nothing but their names.               *)
EXTENDS ToolCalls, TLC

CONSTANTS pg, my, mongo

\* A query, of which the rows may be in the cache, and a MongoDB operation, on other
\* connections than the default one.
SomeOperations ==
  {[tool |-> "sql_query", names |-> "one", conn |-> my, audited |-> "outcome"],
   [tool |-> "mongo_find", names |-> "one", conn |-> mongo, audited |-> "success"]}

CallSymmetry == Permutations(Calls)
=============================================================================
