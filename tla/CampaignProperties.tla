------------------------- MODULE CampaignProperties -------------------------
(* What the campaign drivers promise about the runs they record.           *)
EXTENDS Campaign

(* Before a run begins, nothing of another run is left that its            *)
(* transactions could meet: the tables hold only its own transactions, no  *)
(* payment of a transaction still to come has been attempted (a phase only *)
(* truncates), and the orchestrator is there.  Otherwise an aborted crash  *)
(* run would leave the next cells without an orchestrator, and their       *)
(* unanswered requests would count as results (run_ordinary_cell completes *)
(* without any answer).                                                    *)
RunsIsolated ==
    pc = "execute" =>
        /\ up
        /\ rows = executed
        /\ driver # "phase" => \A t \in TxsOf(slot) \ executed : payAttempts[t] = 0

(* Every payment and response-loss failure a run schedules is injected,    *)
(* and no other: a selected payment of F11 is refused twice, or as often   *)
(* as the configuration tries it, whatever ran before with the same ids.   *)
Scheduled(s, t) ==
    IF ~ Selected(s, t) THEN 0
    ELSE CASE s.cell.family = "F11" -> Least(2, PaymentAttempts(s))
           [] s.cell.family = "F12" -> IF Compensates(s) THEN 1 ELSE 0
           [] s.cell.family = "F5" -> 1
           [] OTHER -> 0

RetrySchedules ==
    pc = "mark" /\ driver # "phase" /\ slot.cell.family \in {"F11", "F5"} =>
        \A t \in TxsOf(slot) : injected[t] = Scheduled(slot, t)

(* "F5/F11/F12 deterministic configs C1-C8 pair exact logical failure      *)
(* schedules because transaction IDs are deterministic"                    *)
(* (docs/V2_FINAL_CAMPAIGN_PROPOSAL.md:85): each recorded run met exactly  *)
(* the failures its schedule names.  The order service is not restarted by *)
(* reset_database, so a cancellation already attempted in an earlier run   *)
(* no longer fails.                                                        *)
ExactSchedules ==
    pc = "mark" => \A t \in TxsOf(slot) : injected[t] = Scheduled(slot, t)

(* A run that has left its artifacts is never executed again, whatever the *)
(* driver died on between the artifacts and the ledger.                    *)
RunsOnce == pc \in Running \ {"create"} => slot \notin recorded

(* A slot the ledger calls COMPLETED has all its artifacts, after any      *)
(* number of failures and restarts of the driver.                          *)
CompletedIsComplete == \A s \in Slots : ledger[s] = "COMPLETED" => s \in recorded

(* The execution order is respected over all starts: a slot is taken up    *)
(* only when the earlier ones have been, and, by the robustness campaign,  *)
(* which stops at a failure, only when they are completed.  The pilot has  *)
(* recorded them or their failure.                                         *)
LedgerOrder ==
    pc = "create" =>
        \A s \in Planned :
            Earlier(s, slot) =>
                CASE driver = "primary" -> ledger[s] # "PLANNED"
                  [] driver = "robustness" -> ledger[s] = "COMPLETED"
                  [] OTHER -> s \in recorded \cup failed

(* A recorded crash run killed the orchestrator while the order of its     *)
(* transaction was persisted, and another process recovered it: the check  *)
(* audit makes afterwards (crash_instance_not_distinct) and the one it     *)
(* does not make, that the crash point reached was the run's own.          *)
GenuineTrials ==
    pc = "mark" /\ IsCrash(slot) => trial.before < trial.after /\ trial.persisted

(* A driver that comes to its end has decided every slot of its plan, also *)
(* those a killed driver left RUNNING or without a summary: the ledger     *)
(* says how it ended, or it is among the reported runs or the failed ones. *)
(* "Future analysis must include failed-run records rather than silently   *)
(* dropping them" (docs/V2_TECHNICAL_INFRASTRUCTURE.md:128).               *)
EverySlotDecided ==
    pc = "ended" => \A s \in Planned :
        CASE driver = "primary" -> ledger[s] \in {"COMPLETED", "FAILED_INFRASTRUCTURE"}
          [] driver = "robustness" -> ledger[s] = "COMPLETED"
          [] OTHER -> s \in report \cup failed

(* The verdict PASS on disk is deserved, at any later time: every planned  *)
(* run has all its artifacts and its mechanism events.  The tables of a    *)
(* campaign that passed hold the whole plan, those of the robustness       *)
(* campaign never less, so that every run has its comparator.  A campaign  *)
(* that met no fault and was not amended in between passes.                *)
AuditSound ==
    /\ verdict = "PASS" => Planned \subseteq recorded \ uncollected
    /\ driver = "primary" /\ verdict = "PASS" => Planned \subseteq report
    /\ driver = "robustness" => report \in {{}, Planned}
    /\ driver = "primary" /\ pc = "ended" /\ faults = 0 /\ ~ amended => verdict = "PASS"

(* "campaign requires clean working tree at frozen commit"                 *)
(* (v2_final.py:214): what the ledger calls COMPLETED was run with the     *)
(* code the effective manifest names, however often the campaign was       *)
(* interrupted and the repository or the manifest changed in between.      *)
CompletedAtFrozenCommit ==
    \A s \in Slots : ledger[s] = "COMPLETED" => code[s] = frozen.commit

(* "Completion criteria: configurations C0-C8 are executable and           *)
(* auditable" (docs/V2_EXPERIMENT_DESIGN.md:494): the audit of a completed *)
(* robustness campaign comes to a verdict.                                 *)
RobustnessAuditable ==
    driver = "robustness" /\ {s \in Planned : ledger[s] = "COMPLETED"} = Planned =>
        ~ AuditRaises
=============================================================================
