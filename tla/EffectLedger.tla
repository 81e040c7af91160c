---------------------------- MODULE EffectLedger ----------------------------
(***************************************************************************)
(* What the orchestrator and its services promise about one purchase per   *)
(* idempotency key when nothing at all is excluded: threads overlap, calls *)
(* are lost, arrive late or twice, the process is killed.  A record may be *)
(* rewritten by anyone to anything the effects justify; effects appear in  *)
(* order and are never taken back, but for the cancellation of an order.   *)
(* This is what a client of the inspection endpoints may rely on.          *)
(***************************************************************************)
CONSTANTS
    Keys,
    OpenStates   \* the states of a record that is not closed

VARIABLES
    record,  \* record[k]: the state of the durable record, "NONE" without one
    order,   \* order[k]: "NONE", "ACTIVE" or "CANCELLED"
    paid     \* paid[k]: is there a successful payment?

ledger == <<record, order, paid>>

ClosedStates == {"COMPLETED", "COMPENSATED", "FAILED"}

(* the states a record may be in while the effects are o and p             *)
Justified(s, o, p) ==
    /\ s \notin {"STARTED", "CART_CREATED", "FAILED"} => o # "NONE"
    /\ s \in {"PAYMENT_COMPLETED", "COMPLETED"} => p
    /\ s = "COMPENSATED" => o = "CANCELLED"

LedgerInit ==
    /\ record = [k \in Keys |-> "NONE"]
    /\ order = [k \in Keys |-> "NONE"]
    /\ paid = [k \in Keys |-> FALSE]

Open(k) ==
    /\ record[k] = "NONE"
    /\ record' = [record EXCEPT ![k] = "STARTED"]
    /\ UNCHANGED <<order, paid>>

Rewrite(k) ==
    /\ record[k] # "NONE"
    /\ \E s \in OpenStates \cup ClosedStates :
          /\ Justified(s, order[k], paid[k])
          /\ record' = [record EXCEPT ![k] = s]
    /\ UNCHANGED <<order, paid>>

Place(k) ==
    /\ record[k] # "NONE" /\ order[k] = "NONE"
    /\ order' = [order EXCEPT ![k] = "ACTIVE"]
    /\ UNCHANGED <<record, paid>>

Cancel(k) ==
    /\ order[k] = "ACTIVE"
    /\ order' = [order EXCEPT ![k] = "CANCELLED"]
    /\ UNCHANGED <<record, paid>>

Pay(k) ==
    /\ record[k] # "NONE" /\ order[k] # "NONE"
    /\ paid' = [paid EXCEPT ![k] = TRUE]
    /\ UNCHANGED <<record, order>>

LedgerStep(k) == Open(k) \/ Rewrite(k) \/ Place(k) \/ Cancel(k) \/ Pay(k)

LedgerNext == \E k \in Keys : LedgerStep(k)

LedgerSpec == LedgerInit /\ [][LedgerNext]_ledger
=============================================================================
