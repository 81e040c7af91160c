-------------------------- MODULE LedgerRefinement --------------------------
(***************************************************************************)
(* TransactionService implements EffectLedger in every run.  The record of *)
(* a key is its durable row, its order and payment the rows the inspection *)
(* endpoints would select by that key.                                     *)
(***************************************************************************)
EXTENDS TransactionProperties

StateTable == [k \in Keys |-> db[k].state]
OrderTable == [k \in Keys |-> OrderStatus(k)]
PaidTable == [k \in Keys |-> HasPayment(k)]

Ledger == INSTANCE EffectLedger WITH
    OpenStates <- States \ Terminals,
    record <- StateTable, order <- OrderTable, paid <- PaidTable

(* What the inspection endpoints show of a key is a behaviour of the       *)
(* ledger: one order and one payment at most, the payment after the order, *)
(* no effect taken back, and a record, however often overlapping threads   *)
(* rewrite it, claiming no more than exists (README "Invariants" 1-5).     *)
ImplementsLedger == Ledger!LedgerSpec
=============================================================================
