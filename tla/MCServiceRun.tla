---------------------------- MODULE MCServiceRun ----------------------------
(* Constants of the model-checking run of ServiceRun: a request and its    *)
(* duplicate, concurrently (f8), with and without runner reconciliation.   *)
EXTENDS ServiceRunProperties

OneKey == {"k1"}
Duplicates == [workload |-> <<"k1", "k1">>, workers |-> 2, v2 |-> FALSE,
               reconciles |-> TRUE, f9 |-> TRUE]
ChosenRuns == {Duplicates, [Duplicates EXCEPT !.v2 = TRUE, !.reconciles = FALSE]}
=============================================================================
