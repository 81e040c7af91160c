---------------------------- MODULE Evaluators ----------------------------
(***************************************************************************)
(* The three judges of a simulated run: evaluate_invariants, which the     *)
(* runner asks for every record it reports, evaluate_v2_invariants and     *)
(* terminal_state_consistent of an observation.  Each reads the record of  *)
(* a key and the services, without a lock.  A key has one transaction      *)
(* here, so the counts are 0 or 1 and the identity checks compare a        *)
(* transaction with itself: those clauses cannot fire and are left out.    *)
(***************************************************************************)
EXTENDS SimulatedOrchestrator

Completed(k) == records[k].state = "COMPLETED"
Compensated(k) == records[k].state = "COMPENSATED"
ActiveOrder(k) == orders[k] = "ACTIVE"
HasOrder(k) == orders[k] # "NONE"

(* evaluate_invariants *)
InvariantViolation(k) ==
    \/ Completed(k) /\ ~ (records[k].order /\ records[k].payment)
    \/ Compensated(k) /\ ActiveOrder(k)
    \/ Completed(k) /\ ~ (k \in carts /\ HasOrder(k) /\ k \in payments)

(* A faulty variant: a cancelled order counts as an effect of a failed or  *)
(* compensated transaction.                                                *)
V2ViolationOfAnyOrder(k) ==
    \/ Completed(k) /\ ~ (records[k].order /\ HasOrder(k) /\ records[k].payment /\ k \in payments)
    \/ Compensated(k) /\ (HasOrder(k) \/ k \in payments)
    \/ records[k].state = "FAILED" /\ (HasOrder(k) \/ k \in payments)
    \/ records[k] = NoRecord /\ (HasOrder(k) \/ k \in payments)

(* evaluate_v2_invariants *)
V2Violation(k) ==
    \/ Completed(k) /\ ~ (records[k].order /\ HasOrder(k) /\ records[k].payment /\ k \in payments)
    \/ Compensated(k) /\ (ActiveOrder(k) \/ k \in payments)
    \/ records[k].state = "FAILED" /\ (ActiveOrder(k) \/ k \in payments)
    \/ records[k] = NoRecord /\ (HasOrder(k) \/ k \in payments)

(* of an observation whose coordinator is the record *)
TerminalStateConsistent(k) ==
    CASE Completed(k) -> HasOrder(k) /\ k \in payments
      [] Compensated(k) -> ~ ActiveOrder(k)
      [] records[k].state = "FAILED" -> ~ ActiveOrder(k) /\ k \notin payments
      [] records[k] = NoRecord -> k \notin carts /\ ~ HasOrder(k) /\ k \notin payments
      [] OTHER -> TRUE
=============================================================================
