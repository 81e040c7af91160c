----------------------------- MODULE MCBaseline -----------------------------
(* Constants of the model-checking runs of BaselineFlow.                   *)
EXTENDS BaselineFlow, TLC

TwoKeys == {"k1", "k2"}
TwoTxs == {"t1", "t2"}

AlikeRequests == Permutations(Requests)
=============================================================================
