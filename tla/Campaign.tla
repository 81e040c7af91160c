------------------------------ MODULE Campaign ------------------------------
(***************************************************************************)
(* The drivers of the harness that run a plan on the Compose services:     *)
(* v2_final.run_primary, v2_robustness.run_campaign, v2_pilot and the      *)
(* phase drivers, with the crash controller that resets, kills and         *)
(* restarts the services, and the services as far as they carry state from *)
(* one run to the next: the tables, the attempt counters of failure        *)
(* injection, the orchestrator process and its crash points.               *)
(* TransactionService models what one transaction does; here a transaction *)
(* is one step.                                                            *)
(*                                                                         *)
(* A driver runs the slots of its plan in order and may be started again   *)
(* after it stopped.  Every step between create_run and the last artifact  *)
(* may raise; the drivers differ in what they then keep and whether they   *)
(* go on.  One command runs at a time.                                     *)
(***************************************************************************)
EXTENDS CampaignPlan

CONSTANTS
    Transactions,     \* transactions of an ordinary run
    MaxStarts,        \* bound: starts of the driver
    MaxFaults         \* bound: failing steps and deaths of the driver

ASSUME CampaignAssumption ==
    Transactions \in Nat \ {0} /\ MaxStarts \in Nat /\ MaxFaults \in Nat

Txs == 0 .. Repetitions * Transactions

(* attempts after which a counter no longer decides anything               *)
AttemptsCap == 3

VARIABLES
    draw,       \* draw[t]: the least rate that selects t for a failure, fixed
    dirs,       \* runs with a directory under runs/
    summarised, \* runs with transactions.jsonl and summary.csv
    recorded,   \* runs whose artifacts are all there
    uncollected,\* runs whose mechanism events could not be read
    failed,     \* failed-run.json of the pilot, failed_runs.jsonl of a phase
    code,       \* code[s]: the commit s was run with, 0 before
    report,     \* runs in the tables the driver writes at its end
    verdict,    \* campaign-completeness-audit.json
    pc,         \* the driver's next step
    slot,       \* the slot under way
    todo,       \* slots the loop has still to visit
    starts,     \* starts of the driver so far
    faults,     \* failing steps and deaths so far
    executed,   \* transactions of the run that are over
    injected,   \* injected[t]: failures the run met with t
    rows,       \* transactions with rows in the tables
    payAttempts,    \* attemptsByKey of the payment simulator
    cancelAttempts, \* attemptsByKey of the order service
    up,         \* the orchestrator runs
    instance,   \* its instance id
    reached,    \* tokens of the crash points it has reached
    trial       \* what a crash cell noted down

campaign == <<driver, draw>>
manifest == <<frozen, amended, head, dirty>>
plan == <<campaign, manifest>>
results == <<summarised, recorded, uncollected, code>>
outcome == <<report, verdict>>
disk == <<ledger, dirs, failed, results, outcome>>
loop == <<todo, starts, faults>>
run == <<slot, executed, injected, trial>>
memory == <<payAttempts, cancelAttempts>>
orchestrator == <<up, instance, reached>>
services == <<rows, memory, orchestrator>>
vars == <<plan, disk, pc, loop, run, services>>

Running == {"create", "truncate", "restart_payment", "probe", "execute", "arm",
            "wait", "kill", "restart", "recover", "summarise", "record"}

(* global_index of _build_workload; run_crash_cell builds request number   *)
(* "repetition".  The ids of a transaction depend on this number alone.    *)
TxsOf(s) ==
    IF IsCrash(s) THEN {s.rep}
    ELSE {(s.rep - 1) * Transactions + i : i \in 0 .. Transactions - 1}

(* A faulty variant: all crash runs share one token.                       *)
TokenOfCampaign(s) == NoSlot

(* shouldFail: a failure rate selects what a smaller rate selects          *)
Selected(s, t) == draw[t] <= s.cell.rate

(* X-V2-Crash-Token                                                        *)
TokenOf(s) == s

Trial == [before : Nat, after : Nat, persisted : BOOLEAN]
NoTrial == [before |-> 0, after |-> 0, persisted |-> FALSE]

TypeOK ==
    /\ PlanTypeOK
    /\ draw \in [Txs -> 1 .. 3]
    /\ dirs \subseteq Slots /\ failed \subseteq Slots /\ report \subseteq Slots
    /\ recorded \subseteq summarised /\ summarised \subseteq Slots /\ uncollected \subseteq Slots
    /\ code \in [Slots -> 0 .. MaxCommits] /\ verdict \in {"NONE", "PASS", "FAIL"}
    /\ pc \in Running \cup {"off", "pick", "mark", "report", "audit", "ended"}
    /\ slot \in Slots \cup {NoSlot} /\ todo \subseteq Slots
    /\ starts \in 0 .. MaxStarts /\ faults \in 0 .. MaxFaults
    /\ executed \subseteq Txs
    /\ injected \in [Txs -> 0 .. 2]
    /\ rows \subseteq Txs
    /\ payAttempts \in [Txs -> 0 .. AttemptsCap]
    /\ cancelAttempts \in [Txs -> 0 .. AttemptsCap]
    /\ up \in BOOLEAN /\ instance \in Nat /\ trial \in Trial

(* the rates at which the draw of a transaction can make a difference      *)
PlannedRates == {s.cell.rate : s \in Planned} \ {0}

Init ==
    /\ PlanInit
    /\ draw \in {d \in [Txs -> 1 .. 3] :
                   \A t \in Txs : d[t] \in PlannedRates \cup {3} /\ (t = Repetitions * Transactions => d[t] = 3)}
    /\ dirs = {} /\ summarised = {} /\ recorded = {} /\ uncollected = {} /\ failed = {}
    /\ code = [s \in Slots |-> 0] /\ report = {} /\ verdict = "NONE"
    /\ pc = "off" /\ slot = NoSlot /\ todo = {} /\ starts = 0 /\ faults = 0
    /\ executed = {} /\ injected = [t \in Txs |-> 0]
    /\ rows = {}
    /\ payAttempts = [t \in Txs |-> 0] /\ cancelAttempts = [t \in Txs |-> 0]
    /\ up = FALSE /\ instance = 0 /\ reached = {}
    /\ trial = NoTrial

-----------------------------------------------------------------------------
(* Between the commands.                                                   *)

AtRest == pc \in {"off", "ended"}

(* CreateManifest, Amend and the work on the repository.  The code of a    *)
(* running driver is loaded.                                               *)
Prepare ==
    /\ AtRest /\ Ledgered
    /\ PlanNext
    /\ pc' = "off"
    /\ UNCHANGED <<draw, dirs, failed, results, outcome, loop, run, services>>

-----------------------------------------------------------------------------
(* The loop over the plan.                                                 *)

(* The guards on the manifest; controller.start(), which brings up what is *)
(* down, where a phase finds the services started by hand.  A phase keeps  *)
(* the paths of its summaries in memory.                                   *)
Start ==
    /\ AtRest /\ starts < MaxStarts
    /\ MayRun
    /\ starts' = starts + 1
    /\ up' = TRUE
    /\ instance' = IF up THEN instance ELSE instance + 1
    /\ pc' = "pick"
    /\ todo' = Planned
    /\ summarised' = IF driver = "phase" THEN {} ELSE summarised
    /\ recorded' = IF driver = "phase" THEN {} ELSE recorded
    /\ UNCHANGED <<plan, ledger, dirs, failed, uncollected, code, outcome, faults, run,
                   rows, memory, reached>>

Open == {s \in todo : ledger[s] # "COMPLETED"}

Pick ==
    /\ pc = "pick"
    /\ \/ /\ Open = {}
          /\ pc' = IF driver = "robustness" THEN "ended" ELSE "report"
          /\ UNCHANGED <<ledger, slot, todo>>
       \/ \E s \in Open :
             /\ \A u \in Open \ {s} : Earlier(s, u)
             /\ slot' = s
             /\ todo' = Open \ {s}
             /\ ledger' = IF Ledgered THEN [ledger EXCEPT ![s] = "RUNNING"] ELSE ledger
             /\ pc' = IF driver = "phase" THEN "truncate" ELSE "create"
    /\ UNCHANGED <<plan, dirs, failed, results, outcome, starts, faults, executed, injected,
                   trial, services>>

(* The run is over, one way or the other: its local variables are gone.    *)
Forget ==
    /\ slot' = NoSlot /\ executed' = {}
    /\ injected' = [t \in Txs |-> 0] /\ trial' = NoTrial

(* The process is gone with all its variables.                             *)
Stop == pc' = "off" /\ todo' = {} /\ Forget

(* Steps outside the try of the loop: create_run of the pilot, the reset   *)
(* of a phase.                                                             *)
Unguarded == \/ driver = "pilot" /\ pc = "create"
             \/ driver = "phase" /\ pc = "truncate"

(* What is written down of a failed run: the ledger, failed-run.json or a  *)
(* line of failed_runs.jsonl.                                              *)
RecordFailure ==
    /\ ledger' = IF Ledgered THEN [ledger EXCEPT ![slot] = "FAILED_INFRASTRUCTURE"] ELSE ledger
    /\ failed' = IF Ledgered \/ Unguarded THEN failed ELSE failed \cup {slot}

(* A faulty variant: the robustness campaign goes on as the primary does.  *)
RaiseSwallowed ==
    /\ RecordFailure
    /\ IF Unguarded THEN Stop ELSE pc' = "pick" /\ UNCHANGED todo /\ Forget

(* A faulty variant: the except branch of the pilot keeps no record.       *)
RaiseSilently ==
    /\ ledger' = IF Ledgered THEN [ledger EXCEPT ![slot] = "FAILED_INFRASTRUCTURE"] ELSE ledger
    /\ UNCHANGED failed
    /\ IF Unguarded \/ driver = "robustness" THEN Stop ELSE pc' = "pick" /\ UNCHANGED todo /\ Forget

(* The except branch of the loop; robustness raises again.                 *)
Raise ==
    /\ RecordFailure
    /\ IF Unguarded \/ driver = "robustness" THEN Stop
       ELSE pc' = "pick" /\ UNCHANGED todo /\ Forget

(* A command, a request or a write of the run fails.                       *)
Abort ==
    /\ pc \in Running /\ faults < MaxFaults
    /\ faults' = faults + 1
    /\ Raise
    /\ UNCHANGED <<plan, dirs, results, outcome, starts, services>>

(* The driver process dies, or raises outside its loop.                    *)
Die ==
    /\ ~ AtRest /\ faults < MaxFaults
    /\ faults' = faults + 1
    /\ Stop
    /\ UNCHANGED <<plan, disk, starts, services>>

(* transactions.jsonl and summary.csv                                      *)
Summarise ==
    /\ pc = "summarise"
    /\ summarised' = summarised \cup {slot}
    /\ pc' = "record"
    /\ UNCHANGED <<plan, ledger, dirs, failed, recorded, uncollected, code, outcome, loop, run,
                   services>>

(* the artifacts that follow: logs, crash-metrics.json, classification or  *)
(* audit of the run; a phase notes the path of the summary                 *)
Record ==
    /\ pc = "record"
    /\ recorded' = recorded \cup {slot}
    /\ code' = IF Ledgered THEN [code EXCEPT ![slot] = head] ELSE code
    /\ pc' = "mark"
    /\ UNCHANGED <<plan, ledger, dirs, failed, summarised, uncollected, outcome, loop, run,
                   services>>

Mark ==
    /\ pc = "mark"
    /\ ledger' = IF Ledgered THEN [ledger EXCEPT ![slot] = "COMPLETED"] ELSE ledger
    /\ pc' = "pick"
    /\ Forget
    /\ UNCHANGED <<plan, dirs, failed, results, outcome, loop, services>>

-----------------------------------------------------------------------------
(* The tables and the audit.                                               *)

(* v2_final and the pilot read every directory with a summary, a phase the *)
(* summaries of this start, v2_robustness what the ledger calls COMPLETED. *)
Reported ==
    CASE driver = "phase" -> recorded
      [] driver = "robustness" -> {s \in Planned : ledger[s] = "COMPLETED"}
      [] OTHER -> summarised

(* aggregate, analyze or the final tables end the driver; the analysis of  *)
(* the robustness campaign is a command and needs the verdict PASS.        *)
Report ==
    /\ \/ pc = "report" /\ pc' = IF driver = "primary" THEN "audit" ELSE "ended"
       \/ driver = "robustness" /\ AtRest /\ verdict = "PASS" /\ UNCHANGED pc
    /\ report' = Reported
    /\ UNCHANGED <<plan, ledger, dirs, failed, results, verdict, loop, run, services>>

(* A faulty variant: the audit asks the ledger alone.                      *)
PassesByLedger == {s \in Planned : ledger[s] = "COMPLETED"} = Planned

(* No issue is found: the ledger completes the plan, the artifacts exist,  *)
(* and no event says MECHANISM_EVENT_COLLECTION_FAILED.                    *)
Passes ==
    /\ {s \in Planned : ledger[s] = "COMPLETED"} = Planned
    /\ Planned \subseteq summarised
    /\ Planned \cap uncollected = {}

(* RETRY_ATTEMPT, RECONCILIATION_STARTED or COMPENSATION_STARTED is among  *)
(* the events of the run: its policy has the mechanism, its rate a use.    *)
Activated(s) ==
    /\ <<s.cell.family, s.cell.config>> \in {<<"F11", "C3">>, <<"F5", "C5">>, <<"F12", "C6">>}
    /\ \E t \in TxsOf(s) : Selected(s, t)

(* Where the audit of the robustness campaign misses the event, it looks   *)
(* for actualInjectedFailureRate in the row of the ledger, which has none. *)
AuditRaises ==
    \E s \in Planned :
        /\ ledger[s] = "COMPLETED" /\ ~ Activated(s)
        /\ s.cell.family = "F11" \/ <<s.cell.family, s.cell.config>> \in {<<"F5", "C5">>, <<"F12", "C6">>}

(* audit: the last call of run_primary, a command of the robustness driver *)
Audit ==
    /\ \/ driver = "primary" /\ pc = "audit" /\ pc' = "ended"
       \/ /\ driver = "robustness" /\ AtRest /\ UNCHANGED pc
          /\ frozen # NoManifest /\ ~ AuditRaises
    /\ verdict' = IF Passes THEN "PASS" ELSE "FAIL"
    /\ UNCHANGED <<plan, ledger, dirs, failed, results, report, loop, run, services>>

-----------------------------------------------------------------------------
(* create_run and reset_database                                           *)

(* A faulty variant: the directory may exist (exist_ok=True).              *)
CreateAnyway ==
    /\ pc = "create"
    /\ dirs' = dirs \cup {slot}
    /\ pc' = "truncate"
    /\ UNCHANGED <<plan, ledger, failed, results, outcome, loop, run, services>>

(* A faulty variant: a run that has a directory counts as done.            *)
CreateOrSkip ==
    /\ pc = "create"
    /\ dirs' = dirs \cup {slot}
    /\ pc' = IF slot \in dirs THEN "mark" ELSE "truncate"
    /\ UNCHANGED <<plan, ledger, failed, results, outcome, loop, run, services>>

(* mkdir(exist_ok=False)                                                   *)
Create ==
    /\ pc = "create"
    /\ \/ /\ slot \notin dirs
          /\ dirs' = dirs \cup {slot}
          /\ pc' = "truncate"
          /\ UNCHANGED <<ledger, failed, todo, run>>
       \/ slot \in dirs /\ Raise /\ UNCHANGED dirs
    /\ UNCHANGED <<plan, results, outcome, starts, faults, services>>

(* reset_database, which a phase leaves at that                            *)
Truncate ==
    /\ pc = "truncate"
    /\ rows' = {}
    /\ pc' = IF driver = "phase" THEN "execute" ELSE "restart_payment"
    /\ UNCHANGED <<plan, disk, loop, run, memory, orchestrator>>

AfterReset ==
    IF driver = "robustness" THEN "probe" ELSE IF IsCrash(slot) THEN "arm" ELSE "execute"

(* A faulty variant: the reset clears the tables only.                     *)
RestartPaymentNot ==
    /\ pc = "restart_payment"
    /\ pc' = AfterReset
    /\ UNCHANGED <<plan, disk, loop, run, services>>

(* restart payment-simulator: its counters start anew, those of the order  *)
(* service live on                                                         *)
RestartPayment ==
    /\ pc = "restart_payment"
    /\ payAttempts' = [t \in Txs |-> 0]
    /\ pc' = AfterReset
    /\ UNCHANGED <<plan, disk, loop, run, rows, cancelAttempts, orchestrator>>

(* assert_reset_integrity: the probe has a transaction of its own, whose   *)
(* first attempt after the restart is unavailable                          *)
Probe ==
    /\ pc = "probe"
    /\ pc' = "execute"
    /\ UNCHANGED <<plan, disk, loop, run, services>>

-----------------------------------------------------------------------------
(* An ordinary run: run_experiment                                         *)

(* retry.maxAttempts where the policy retries                              *)
PaymentAttempts(s) == IF s.cell.config \in {"C3", "C8", "RESILIENT"} THEN 3 ELSE 1
Compensates(s) == s.cell.config \in {"C6", "C8", "RESILIENT"}

Least(a, b) == IF a < b THEN a ELSE b

(* A faulty variant: the first three attempts fail.                        *)
RefusedThrice(s, t) == Least(PaymentAttempts(s), 3 - Least(3, payAttempts[t]))

(* failures of a payment: the first two attempts counted                   *)
Refused(s, t) == Least(PaymentAttempts(s), 2 - Least(2, payAttempts[t]))
(* failures of a cancellation: the first attempt counted                   *)
Uncancelled(t) == IF cancelAttempts[t] = 0 THEN 1 ELSE 0

(* A run without an orchestrator still ends, its requests without answer.  *)
RunTransaction(t) ==
    LET hit == up /\ Selected(slot, t)
        paid == hit /\ slot.cell.family = "F11"
        cancelled == hit /\ slot.cell.family = "F12" /\ Compensates(slot)
    IN  /\ pc = "execute"
        /\ t \in TxsOf(slot) \ executed
        /\ executed' = executed \cup {t}
        /\ rows' = IF up THEN rows \cup {t} ELSE rows
        /\ injected' = [injected EXCEPT ![t] =
               IF paid THEN Refused(slot, t)
               ELSE IF cancelled THEN Uncancelled(t)
               ELSE IF hit /\ slot.cell.family = "F5" THEN 1 ELSE 0]
        /\ payAttempts' = IF paid
               THEN [payAttempts EXCEPT ![t] =
                        Least(AttemptsCap, @ + Least(PaymentAttempts(slot), Refused(slot, t) + 1))]
               ELSE payAttempts
        /\ cancelAttempts' = IF cancelled
               THEN [cancelAttempts EXCEPT ![t] = Least(AttemptsCap, @ + Uncancelled(t) + 1)]
               ELSE cancelAttempts
        /\ UNCHANGED <<plan, disk, pc, loop, slot, orchestrator, trial>>

(* _record_service_mechanism_events swallows its own failure and leaves an *)
(* event that says so; phases collect no events.                           *)
EndRun ==
    /\ pc = "execute"
    /\ TxsOf(slot) \subseteq executed
    /\ \/ UNCHANGED <<uncollected, faults>>
       \/ /\ driver # "phase" /\ faults < MaxFaults
          /\ faults' = faults + 1
          /\ uncollected' = uncollected \cup {slot}
    /\ pc' = "summarise"
    /\ UNCHANGED <<plan, ledger, dirs, failed, summarised, recorded, code, outcome, todo, starts,
                   run, services>>

-----------------------------------------------------------------------------
(* A crash run: run_crash_cell                                             *)

(* the instance is read and the request sent; without an orchestrator the  *)
(* read raises                                                             *)
Arm ==
    /\ pc = "arm"
    /\ \/ /\ up
          /\ trial' = [trial EXCEPT !.before = instance]
          /\ pc' = "wait"
          /\ UNCHANGED <<ledger, failed, todo, slot, executed, injected>>
       \/ ~ up /\ Raise
    /\ UNCHANGED <<plan, dirs, results, outcome, starts, faults, services>>

(* the execution saves ORDER_CREATED and is held at its crash point        *)
Reach ==
    /\ pc = "wait" /\ up
    /\ rows' = rows \cup TxsOf(slot)
    /\ reached' = reached \cup {TokenOf(slot)}
    /\ UNCHANGED <<plan, disk, pc, loop, run, memory, up, instance>>

(* wait_crash_point, and the inspection before the kill                    *)
Wait ==
    /\ pc = "wait"
    /\ TokenOf(slot) \in reached
    /\ trial' = [trial EXCEPT !.persisted = TxsOf(slot) \subseteq rows]
    /\ pc' = "kill"
    /\ UNCHANGED <<plan, disk, loop, slot, executed, injected, services>>

Kill ==
    /\ pc = "kill"
    /\ up' = FALSE
    /\ reached' = {}
    /\ pc' = "restart"
    /\ UNCHANGED <<plan, disk, loop, run, rows, memory, instance>>

Restart ==
    /\ pc = "restart"
    /\ up' = TRUE
    /\ instance' = instance + 1
    /\ trial' = [trial EXCEPT !.after = instance']
    /\ pc' = "recover"
    /\ UNCHANGED <<plan, disk, loop, slot, executed, injected, rows, memory, reached>>

(* recover_one, whose refusal or silence is a result like any other        *)
Recover ==
    /\ pc = "recover"
    /\ executed' = TxsOf(slot)
    /\ pc' = "summarise"
    /\ UNCHANGED <<plan, disk, loop, slot, injected, trial, services>>

Next ==
    \/ Prepare \/ Start \/ Pick \/ Abort \/ Die \/ Summarise \/ Record \/ Mark
    \/ Report \/ Audit
    \/ Create \/ Truncate \/ RestartPayment \/ Probe
    \/ (\E t \in Txs : RunTransaction(t)) \/ EndRun
    \/ Arm \/ Reach \/ Wait \/ Kill \/ Restart \/ Recover

Spec == Init /\ [][Next]_vars
=============================================================================
