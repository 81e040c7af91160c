------------------------ MODULE ServiceRunProperties ------------------------
(***************************************************************************)
(* What the numbers of a run are worth although the runner reads record,   *)
(* orders and payments at different moments, while the orchestrator may    *)
(* still be at work.                                                       *)
(***************************************************************************)
EXTENDS ServiceRun

(* A result that was answered and inspected never reports a violation: the *)
(* record is read before the orders and these before the payments, effects *)
(* are not taken back, so what the record claims is still there to see.    *)
(* The violations a run counts thus come from requests without an answer   *)
(* or from inspections that failed.                                        *)
NoFalseAlarm ==
    \A i \in Attempts :
        LET r == results[i]
        IN  r.stage = "done" /\ r.inspected /\ r.answer # "NONE" => Violation(r) = "none"

(* No result counts an order or a payment that does not exist, now or      *)
(* later, however its two reads fell.                                      *)
CountsNeverOverstate ==
    \A i \in Attempts :
        /\ results[i].counts.orders = 1 => order[KeyOf(i)] # "NONE"
        /\ results[i].counts.payments = 1 => paid[KeyOf(i)]

(* A key the summary counts as completed has an order and a payment, and   *)
(* one it counts as compensated has a cancelled order, although the state  *)
(* may be the best of several answers, the record found afterwards or the  *)
(* answer of a recovery, and although the record may have moved on since.  *)
(* Its columns fit together: no attempt's recovery both completed and      *)
(* failed, a key left open after a recovery is none of the settled ones,   *)
(* and a violation counted is an attempt without answer or inspection.     *)
OutcomesBacked ==
    phase \in {"summary", "done"} =>
        /\ \A k \in KeysRun :
              /\ k \in CompletedKeys => order[k] # "NONE" /\ paid[k]
              /\ LogicalState(k) = "COMPENSATED" => order[k] = "CANCELLED"
        /\ Summary.recoveryCompleted + Summary.recoveryFailed <= Summary.recoveryAttempted
        /\ Summary.completedLogical + Summary.terminalFailedLogical
              + Summary.nonTerminalAfterRecovery <= Cardinality(KeysRun)
        /\ Summary.violations <=
              Cardinality({i \in Attempts : results[i].answer = "NONE" \/ ~ results[i].inspected})

(* The run comes to its summary: the poll of recover_one without a pause   *)
(* ends at the deadline even if the orchestrator never settles a record.   *)
RunEnds == <>(phase = "done")
=============================================================================
