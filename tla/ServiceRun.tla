----------------------------- MODULE ServiceRun -----------------------------
(***************************************************************************)
(* One run of run_experiment against the deployed services, in the         *)
(* resilient mode: the thread pool that sends the workload, what           *)
(* ServiceBackendClient makes of the answers, the inspection of every      *)
(* attempt, the reconciliation of every key under one shared deadline, the *)
(* collection of the mechanism events and the summary.                     *)
(*                                                                         *)
(* The orchestrator behind it is EffectLedger, which TransactionService    *)
(* implements: its steps interleave with those of the runner, because a    *)
(* client that stopped waiting after 3 s has stopped nothing.              *)
(***************************************************************************)
EXTENDS EffectLedger, Naturals, FiniteSets, Sequences

CONSTANTS
    Runs  \* the runs considered

Run == [workload : Seq(Keys),   \* the requests; f7 and f8 repeat each key
        workers : Nat \ {0},    \* concurrency
        v2 : BOOLEAN,           \* with a v2 configuration and an event writer?
        reconciles : BOOLEAN,   \* _runner_reconciliation_enabled
        f9 : BOOLEAN]           \* does the scenario interrupt the orchestrator?

ASSUME RunAssumption ==
    /\ Runs \subseteq Run
    /\ \A r \in Runs : r.workload # <<>> /\ (r.v2 \/ r.reconciles)
    /\ "STARTED" \in OpenStates
    /\ OpenStates \subseteq {"STARTED", "CART_CREATED", "ORDER_CREATED", "PAYMENT_PENDING",
                              "PAYMENT_COMPLETED", "COMPENSATING"}

VARIABLES
    run,        \* of Runs
    results,    \* results[i]: what is known of attempt i
    phase,      \* where run_experiment is
    todo,       \* keys the phase has not dealt with, in order of appearance
    polling,    \* the key under recovery, as far as the loop knows
    expired,    \* has the reconciliation deadline passed?
    logical,    \* logical[k]: what reconciliation wrote into the results of k
    uncollected \* keys with a MECHANISM_EVENT_COLLECTION_FAILED event

runner == <<run, results, phase, todo, polling, expired, logical, uncollected>>
vars == <<ledger, runner>>

Attempts == DOMAIN run.workload
KeyOf(i) == run.workload[i]
States == OpenStates \cup ClosedStates
Counts == [orders : 0 .. 1, active : 0 .. 1, payments : 0 .. 1]
Nothing == [orders |-> 0, active |-> 0, payments |-> 0]

(* answer: the state of the record the client got, "NONE" without one      *)
Result == [stage : {"queued", "sent", "recovering", "answered", "half", "done"},
           answer : States \cup {"NONE"}, recovered : BOOLEAN,
           inspected : BOOLEAN, counts : Counts]
Fresh == [stage |-> "queued", answer |-> "NONE", recovered |-> FALSE,
          inspected |-> FALSE, counts |-> Nothing]

Verdict == [final : States, attempted : BOOLEAN, completed : BOOLEAN, failed : BOOLEAN]
Poll == [final : States, attempted : BOOLEAN, asked : BOOLEAN]
NotPolling == [final |-> "UNSETTLED", attempted |-> FALSE, asked |-> FALSE]
Unsettled == [final |-> "UNSETTLED", attempted |-> FALSE, completed |-> FALSE, failed |-> FALSE]

TypeOK ==
    /\ record \in [Keys -> States \cup {"NONE"}]
    /\ order \in [Keys -> {"NONE", "ACTIVE", "CANCELLED"}]
    /\ paid \in [Keys -> BOOLEAN]
    /\ run \in Runs
    /\ results \in [Attempts -> Result]
    /\ phase \in {"pool", "reconcile", "events", "summary", "done"}
    /\ todo \in Seq(Keys)
    /\ polling \in Poll \cup {NotPolling}
    /\ expired \in BOOLEAN
    /\ logical \in [Keys -> Verdict \cup {Unsettled}]
    /\ uncollected \subseteq Keys

Init ==
    /\ LedgerInit
    /\ run \in Runs
    /\ results = [i \in Attempts |-> Fresh]
    /\ phase = "pool"
    /\ todo = <<>>
    /\ polling = NotPolling
    /\ expired = FALSE
    /\ logical = [k \in Keys |-> Unsettled]
    /\ uncollected = {}

-----------------------------------------------------------------------------
(* execute_one, in the threads of the pool                                 *)

InHand == {i \in Attempts : results[i].stage \notin {"queued", "done"}}

Update(i, r) ==
    /\ results' = [results EXCEPT ![i] = r]
    /\ UNCHANGED <<ledger, run, phase, todo, polling, expired, logical, uncollected>>

(* executor.map hands out the requests in their order                      *)
Send(i) ==
    /\ results[i].stage = "queued"
    /\ \A j \in Attempts : j < i => results[j].stage # "queued"
    /\ Cardinality(InHand) < run.workers
    /\ Update(i, [results[i] EXCEPT !.stage = "sent"])

(* POST /transactions, or the recover_one that follows an F9 interruption, *)
(* returns the record                                                      *)
Answered(i) ==
    /\ results[i].stage \in {"sent", "recovering"}
    /\ record[KeyOf(i)] # "NONE"
    /\ \E recovered \in BOOLEAN :
          /\ results[i].stage = "recovering" => recovered
          /\ Update(i, [results[i] EXCEPT !.stage = "answered", !.recovered = recovered,
                                          !.answer = record[KeyOf(i)]])

(* an error status or no answer within timeout_seconds: (None, reason)     *)
Unanswered(i) ==
    /\ results[i].stage \in {"sent", "recovering"}
    /\ Update(i, [results[i] EXCEPT !.stage = "answered"])

(* An HTTPError of the interrupting scenario: the client asks for recovery *)
Interrupted(i) ==
    /\ results[i].stage = "sent" /\ run.f9 /\ run.reconciles
    /\ Update(i, [results[i] EXCEPT !.stage = "recovering"])

(* inspect: two GETs, one after the other                                  *)
InspectOrders(i) ==
    /\ results[i].stage = "answered"
    /\ Update(i, [results[i] EXCEPT
                     !.stage = "half",
                     !.counts.orders = IF order[KeyOf(i)] # "NONE" THEN 1 ELSE 0,
                     !.counts.active = IF order[KeyOf(i)] = "ACTIVE" THEN 1 ELSE 0])

(* A faulty variant: the orders are taken for the payments.                *)
CountsOrdersAsPayments(i) ==
    /\ results[i].stage = "half"
    /\ Update(i, [results[i] EXCEPT
                     !.stage = "done", !.inspected = TRUE,
                     !.counts.payments = IF order[KeyOf(i)] # "NONE" THEN 1 ELSE 0])

InspectPayments(i) ==
    /\ results[i].stage = "half"
    /\ Update(i, [results[i] EXCEPT
                     !.stage = "done", !.inspected = TRUE,
                     !.counts.payments = IF paid[KeyOf(i)] THEN 1 ELSE 0])

(* A GET raised: _result_from_record falls back on the in-memory services  *)
(* of the simulation, which are empty.                                     *)
InspectionLost(i) ==
    /\ results[i].stage \in {"answered", "half"}
    /\ Update(i, [results[i] EXCEPT !.stage = "done", !.counts = Nothing])

(* A faulty variant: a completed purchase must have an active order.       *)
ViolationWithoutActiveOrder(r) ==
    IF r.inspected /\ r.answer = "COMPLETED" /\ r.counts.active = 0
    THEN "COMPLETED_TRANSACTION_MISSING_ORDER" ELSE "none"

(* The violation a result reports: inspect(), or, without inspection,      *)
(* evaluate_invariants over the empty services, where the identifiers of a *)
(* completed record are set but name nothing.                              *)
Violation(r) ==
    IF ~ r.inspected THEN IF r.answer = "COMPLETED" /\ ~ r.recovered
                          THEN "CROSS_SERVICE_STATE_CONSISTENCY" ELSE "none"
    ELSE IF r.counts.payments > 1 THEN "AT_MOST_ONCE_PAYMENT"
    ELSE IF r.answer = "COMPLETED" /\ r.counts.orders = 0
         THEN "COMPLETED_TRANSACTION_MISSING_ORDER"
    ELSE IF r.answer = "COMPLETED" /\ r.counts.payments = 0
         THEN "COMPLETED_TRANSACTION_MISSING_PAYMENT"
    ELSE IF r.counts.orders > 1 THEN "NO_DUPLICATE_ORDER"
    ELSE IF r.answer = "COMPENSATED" /\ r.counts.active > 0
         THEN "NO_ORPHANED_ACTIVE_ORDER_AFTER_COMPENSATION"
    ELSE IF r.answer = "NONE" /\ (r.counts.active > 0 \/ r.counts.payments > 0)
         THEN "CROSS_SERVICE_STATE_CONSISTENCY"
    ELSE "none"

-----------------------------------------------------------------------------
(* After the pool, the main thread alone.                                  *)

(* by_key: the keys in the order of their first attempt                    *)
FirstOf(i) == \A j \in Attempts : j < i => KeyOf(j) # KeyOf(i)
KeysInOrder ==
    LET firsts == {i \in Attempts : FirstOf(i)}
    IN  [n \in 1 .. Cardinality(firsts) |->
            KeyOf(CHOOSE i \in firsts : Cardinality({j \in firsts : j <= i}) = n)]

AttemptsOf(k) == {i \in Attempts : KeyOf(i) = k}

(* a result without a record is reported as FAILED                         *)
Status(r) == IF r.answer = "NONE" THEN "FAILED" ELSE r.answer

(* _best_observed_state: COMPENSATING is not in its list, so it only       *)
(* remains when every attempt says so                                      *)
Preference == <<"COMPLETED", "COMPENSATED", "FAILED", "PAYMENT_COMPLETED", "PAYMENT_PENDING",
                "ORDER_CREATED", "CART_CREATED", "STARTED", "COMPENSATING">>
BestObserved(k) ==
    LET seen == {Status(results[i]) : i \in AttemptsOf(k)}
        best == CHOOSE n \in DOMAIN Preference :
                    /\ Preference[n] \in seen
                    /\ \A m \in DOMAIN Preference : Preference[m] \in seen => n <= m
    IN  Preference[best]

Terminal(s) == s \in ClosedStates

GoTo(p) == /\ phase' = p
           /\ todo' = IF p \in {"reconcile", "events"} THEN KeysInOrder ELSE <<>>

PoolEnds ==
    /\ phase = "pool"
    /\ \A i \in Attempts : results[i].stage = "done"
    /\ GoTo(IF run.reconciles THEN "reconcile" ELSE IF run.v2 THEN "events" ELSE "summary")
    /\ UNCHANGED <<ledger, run, results, polling, expired, logical, uncollected>>

(* The verdict on the key at hand is written into all its results.         *)
Settle(final, attempted, gaveUp) ==
    /\ logical' = [logical EXCEPT ![Head(todo)] =
                      [final |-> final, attempted |-> attempted,
                       completed |-> attempted /\ Terminal(final), failed |-> gaveUp]]
    /\ todo' = Tail(todo)
    /\ polling' = NotPolling
    /\ UNCHANGED <<ledger, run, results, phase, expired, uncollected>>

Reconciling == phase = "reconcile" /\ todo # <<>>

RecoveredOf(k) == \E i \in AttemptsOf(k) : results[i].recovered

(* A faulty variant: an empty answer is taken for a record.                *)
FindsAnything ==
    /\ Reconciling /\ polling = NotPolling
    /\ polling' = [final |-> record[Head(todo)], attempted |-> RecoveredOf(Head(todo)),
                   asked |-> FALSE]
    /\ UNCHANGED <<ledger, run, results, phase, todo, expired, logical, uncollected>>

(* find_transaction returns the record ...                                 *)
Find ==
    /\ Reconciling /\ polling = NotPolling
    /\ record[Head(todo)] # "NONE"
    /\ polling' = [final |-> record[Head(todo)], attempted |-> RecoveredOf(Head(todo)),
                   asked |-> FALSE]
    /\ UNCHANGED <<ledger, run, results, phase, todo, expired, logical, uncollected>>

(* ... or None, for want of a record or of an answer                       *)
FindNothing ==
    /\ Reconciling /\ polling = NotPolling
    /\ Settle(BestObserved(Head(todo)), RecoveredOf(Head(todo)), FALSE)

(* A faulty variant: the loop has no deadline.                             *)
PollsForEver == ~ Terminal(polling.final)

(* the condition of the while loop                                         *)
PollsOn == ~ Terminal(polling.final) /\ ~ expired

Looping == Reconciling /\ polling # NotPolling /\ ~ polling.asked

(* POST /recovery/idempotency/{key} ...                                    *)
Recover ==
    /\ Looping /\ PollsOn
    /\ polling' = [polling EXCEPT !.attempted = TRUE, !.asked = TRUE]
    /\ UNCHANGED <<ledger, run, results, phase, todo, expired, logical, uncollected>>

(* A faulty variant: an answer to recover_one is taken for a completion.   *)
RecoverAssumesCompletion ==
    /\ Reconciling /\ polling.asked
    /\ polling' = [polling EXCEPT !.final = "COMPLETED", !.asked = FALSE]
    /\ UNCHANGED <<ledger, run, results, phase, todo, expired, logical, uncollected>>

(* ... returns the record                                                  *)
RecoverAnswered ==
    /\ Reconciling /\ polling.asked
    /\ polling' = [polling EXCEPT !.final = record[Head(todo)], !.asked = FALSE]
    /\ UNCHANGED <<ledger, run, results, phase, todo, expired, logical, uncollected>>

(* ... or None: the endpoint refuses, fails or does not answer             *)
RecoverFails ==
    /\ Reconciling /\ polling.asked
    /\ Settle(polling.final, TRUE, TRUE)

LoopEnds ==
    /\ Looping /\ ~ PollsOn
    /\ Settle(polling.final, polling.attempted,
              polling.attempted /\ ~ Terminal(polling.final))

(* perf_counter() reaches the deadline, which all keys share               *)
DeadlinePasses ==
    /\ phase = "reconcile" /\ ~ expired
    /\ expired' = TRUE
    /\ UNCHANGED <<ledger, run, results, phase, todo, polling, logical, uncollected>>

Reconciled ==
    /\ phase = "reconcile" /\ todo = <<>>
    /\ GoTo(IF run.v2 THEN "events" ELSE "summary")
    /\ UNCHANGED <<ledger, run, results, polling, expired, logical, uncollected>>

(* _record_service_mechanism_events: a key whose events cannot be read is  *)
(* noted and passed over                                                   *)
CollectEvents ==
    /\ phase = "events" /\ todo # <<>>
    /\ \/ UNCHANGED uncollected
       \/ uncollected' = uncollected \cup {Head(todo)}
    /\ todo' = Tail(todo)
    /\ UNCHANGED <<ledger, run, results, phase, polling, expired, logical>>

EventsCollected ==
    /\ phase = "events" /\ todo = <<>>
    /\ GoTo("summary")
    /\ UNCHANGED <<ledger, run, results, polling, expired, logical, uncollected>>

(* write_results, write_summary                                            *)
WriteSummary ==
    /\ phase = "summary"
    /\ GoTo("done")
    /\ UNCHANGED <<ledger, run, results, polling, expired, logical, uncollected>>

-----------------------------------------------------------------------------
(* What the summary says of a key: _logical_metrics                        *)

LogicalState(k) ==
    IF logical[k] = Unsettled THEN BestObserved(k) ELSE logical[k].final

KeysRun == {KeyOf(i) : i \in Attempts}
CompletedKeys == {k \in KeysRun : LogicalState(k) = "COMPLETED"}
TerminalFailedKeys == {k \in KeysRun : LogicalState(k) \in {"FAILED", "COMPENSATED"}}
NonTerminalAfterRecovery ==
    {k \in KeysRun : logical[k].attempted /\ ~ Terminal(LogicalState(k))}

(* The columns of summary.csv that count something.  The rates divide      *)
(* them, and times, retries and duplicates (below 2 here) are left out.    *)
Summary ==
    [attempts |-> Cardinality(Attempts),
     successful |-> Cardinality({i \in Attempts : Status(results[i]) = "COMPLETED"}),
     failed |-> Cardinality({i \in Attempts : Status(results[i]) = "FAILED"}),
     violations |-> Cardinality({i \in Attempts : Violation(results[i]) # "none"}),
     recoveryAttempted |-> Cardinality({i \in Attempts : logical[KeyOf(i)].attempted}),
     recoveryCompleted |-> Cardinality({i \in Attempts : logical[KeyOf(i)].completed}),
     recoveryFailed |-> Cardinality({i \in Attempts : logical[KeyOf(i)].failed}),
     completedLogical |-> Cardinality(CompletedKeys),
     terminalFailedLogical |-> Cardinality(TerminalFailedKeys),
     nonTerminalAfterRecovery |-> Cardinality(NonTerminalAfterRecovery)]

-----------------------------------------------------------------------------

(* The orchestrator works on the keys it was asked for.                    *)
Orchestrator ==
    /\ \E i \in Attempts : results[i].stage # "queued" /\ LedgerStep(KeyOf(i))
    /\ UNCHANGED runner

Thread(i) ==
    \/ Send(i) \/ Answered(i) \/ Unanswered(i) \/ Interrupted(i)
    \/ InspectOrders(i) \/ InspectPayments(i) \/ InspectionLost(i)

Pool == \E i \in Attempts : Thread(i)

Main ==
    \/ PoolEnds \/ Find \/ FindNothing \/ Recover \/ RecoverAnswered \/ RecoverFails
    \/ LoopEnds \/ Reconciled \/ CollectEvents \/ EventsCollected \/ WriteSummary

Next == Orchestrator \/ Pool \/ Main \/ DeadlinePasses

Spec == Init /\ [][Next]_vars

(* Every call of the client ends, by its timeout if need be, and time      *)
(* passes.  The orchestrator owes nothing.                                 *)
FairSpec ==
    /\ Spec
    /\ WF_vars(Pool)
    /\ WF_vars(Main)
    /\ WF_vars(DeadlinePasses)
=============================================================================
