--------------------------- MODULE SagaRefinement ---------------------------
(***************************************************************************)
(* TransactionService implements PurchaseSaga when threads do not overlap  *)
(* and only the injected failures disturb the calls.                       *)
(***************************************************************************)
EXTENDS TransactionProperties

Phase(k) == CASE db[k].state = "NONE" -> "none"
              [] db[k].state \in Terminals -> db[k].state
              [] OTHER -> "open"

Saga == INSTANCE PurchaseSaga WITH
    phase <- [k \in Keys |-> Phase(k)],
    cart <- [k \in Keys |-> HasCart(k)],
    order <- [k \in Keys |-> OrderStatus(k)],
    paid <- [k \in Keys |-> HasPayment(k)]

(* Under every scenario, with repeated executions, recoveries and a crash  *)
(* anywhere, what a client and the inspection endpoints can see of a       *)
(* purchase is a behaviour of the abstract saga: effects in order, one     *)
(* outcome, agreeing with the effects, and nothing after it (README        *)
(* "Invariants" 2, 4, 6; I2, I4, I6).                                      *)
ImplementsSaga == Saga!Spec
=============================================================================
