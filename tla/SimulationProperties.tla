------------------------ MODULE SimulationProperties ------------------------
(***************************************************************************)
(* What the simulation backend promises: the README's "Invariants" and     *)
(* what its recovery owes the requests of a run.                           *)
(***************************************************************************)
EXTENDS Evaluators

(* A record never claims an effect the services do not hold, though the    *)
(* executing thread and recovering ones write it without a common lock:    *)
(* README "Invariants" 2.                                                  *)
RecordsBacked ==
    \A k \in Keys :
        LET r == records[k]
        IN  /\ r.order => orders[k] # "NONE"
            /\ r.payment => k \in payments
            /\ r.state \in {"ORDER_CREATED", "PAYMENT_PENDING", "COMPENSATED"} => r.order
            /\ r.state \in {"PAYMENT_COMPLETED", "COMPLETED"} => r.order /\ r.payment

(* When every worker of the runner is done no record is left in an         *)
(* intermediate state, and record and services agree, with one item at     *)
(* most in a cart: README "Invariants" 4 and 6, "deterministic recovery of *)
(* intermediate transaction states".                                       *)
Agrees(k) ==
    /\ items[k] <= 1
    /\ CASE records[k].state = "COMPLETED" -> orders[k] = "ACTIVE" /\ k \in payments
         [] records[k].state = "COMPENSATED" -> orders[k] = "CANCELLED" /\ k \notin payments
         [] records[k].state = "FAILED" -> orders[k] = "NONE" /\ k \notin payments
         [] OTHER -> records[k] = NoRecord
Settled ==
    crash = CrashBoundary(scenario) /\ (\A w \in Requests : pc[w] = "done") =>
        \A k \in Keys : Agrees(k)

(* A request reports the final state of its own transaction: the record    *)
(* handed back after a recovery is the one that was interrupted (README    *)
(* "Invariants" 5, "Recovery must preserve transaction identity").         *)
ReportsOwnRecord ==
    \A w \in Requests :
        pc[w] = "done" => answer[w] = KeyOf(w) /\ outcome[w] \in Terminals

(* A run without a pool keeps that promise: a recovery that follows an     *)
(* interruption at once finds one record only, its own.                    *)
ReportsOwnRecordAlone ==
    concurrency = 1 /\ crash = CrashBoundary(scenario) => ReportsOwnRecord

(* A finished transaction is never touched again, by a duplicate or by a   *)
(* recovery, as long as workers do not overlap, at whatever boundary an    *)
(* execution is interrupted and whatever fails.                            *)
TerminalsAreFinal ==
    [][\A k \in Keys : concurrency = 1 /\ records[k].state \in Terminals =>
          /\ records'[k] = records[k]
          /\ orders'[k] = orders[k] /\ items'[k] = items[k]
          /\ k \in payments' <=> k \in payments]_vars

(* Every worker comes to an end, whoever holds the lock when it is         *)
(* interrupted.                                                            *)
WorkersEnd == \A w \in Requests : <>(pc[w] = "done")

(* The three evaluators agree, on every key and at any moment of a run,    *)
(* that nothing is wrong, though they judge by different clauses and read  *)
(* record and services while workers and unlocked recoveries are writing   *)
(* them (README "Invariants").  Only for a boundary the scenario does not  *)
(* imply does one of them object: a payment whose answer is lost is made   *)
(* outside RetryPolicy before the interruption, and then compensated.      *)
NoViolationReported ==
    \A k \in Keys :
        /\ ~ InvariantViolation(k) /\ TerminalStateConsistent(k)
        /\ crash = CrashBoundary(scenario) => ~ V2Violation(k)
=============================================================================
