--------------------------- MODULE MCTransaction ---------------------------
(* Constants of the model-checking runs of TransactionService.             *)
EXTENDS TransactionInvariant, SagaRefinement, LedgerRefinement, TLC

OneKey == {"k1"}
OneTx == {"t1"}
TwoKeys == {"k1", "k2"}
TwoTxs == {"t1", "t2"}
None == {}

(* Requests of one kind are interchangeable.  Used without liveness only.  *)
AlikeRequests == Permutations(Executions) \cup Permutations(Recoveries)
=============================================================================
