------------------------ MODULE MCPooledTransactions ------------------------
(* Small instances of PooledTransactions.                                    *)
EXTENDS PooledTransactions, TLC

Interchangeable ==
  Permutations(ToolTxs) \cup Permutations(BatchTxs) \cup Permutations(Conns)
=============================================================================
