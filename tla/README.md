# A verification project for agentic-commerce-research

TLA+ modules, TLC configurations and TLAPS proofs for the commerce workflow of
this repository: a purchase (cart, item, order, payment) driven by an
orchestrator over three services that fail on purpose, in a *baseline* flow that
just calls them and a *resilient* flow with durable records, deterministic
identity, retries, lookups, reconciliation, compensation and recovery. The
modules follow the code of `src/`; the names of states, operations, scenarios
and configurations are the code's own.

- `PROJECT.json` lists the components, runs, mutants, findings, hazards and
  theorems, and maps every definition to the lines it models.
- To check a run: `tlc -workers 2 -config sequential.cfg MCTransaction`.
- To check the proofs: `tlapm M.tla` for `ServicesProofs`, `TransactionProofs`, `SequentialProofs`,
  `BaselineProofs`, `SimulationProofs`, `SimulationRunProofs`, `ServiceRunProofs`, `CampaignProofs`.

## 1. Inventory

| Component (source) | State | Operations | Talks to | What is hard |
| --- | --- | --- | --- | --- |
| cart, order, payment services (Java) | one table each; `attemptsByKey` in memory | create cart, create order, cancel order, execute payment, inspect by key; failure injection before and after the SQL statement | called by the orchestrator and the harness | a call is handled after its client gave up (500 ms); calls repeat, overtake one another and come after a cancellation |
| orchestrator, resilient flow (`TransactionService`, `TransactionRepository`, `CommerceClient`, `V2MechanismPolicy`) | `orchestrator_transactions`; locals of each HTTP thread; crash points in memory | execute, recover one key, recovery sweep; continue, retry, reconcile, fail or compensate | calls the services, is called by clients and by the harness | `save()` overwrites the whole row without a version; threads overlap on one key; a crash between an effect and its record; failing inspections |
| orchestrator, baseline flows (BASELINE, C0, C1) | none beyond the services | three calls in a row | calls the services | duplicates and late calls with nothing but the transaction identity in between |
| simulation backend (`services.py`, `failures.py`, `retry.py`, `orchestrators.py`) | dicts, mutable records, `execution_lock` | execute under the lock, recover without it | threads of the runner | recovery changes record objects another thread holds; exceptions leave the lock |
| experiment runner and client of the services backend (`runner.py`, `service_backend.py`, `metrics.py`) | results of a run, one per attempt | workload, worker pool, `execute_one` with its inspection in two reads, reconciliation of service results under one deadline, event collection, summary | both backends | the client gives up after three seconds on work that goes on; record, orders and payments are read at different moments; which record a recovered request reports |
| crash controller (`v2_crash.py`) | none of its own | start, reset, kill, restart | Compose | a reset does not reset the memory of every service |
| campaign drivers (`v2_final.py`, `v2_robustness.py`, `v2_artifacts.py`) | manifest and amendment, ledger, run directories, tables, verdict | freeze, amend, run the slots in order, resume, aggregate, audit, analyze | Git, the crash controller, the runner | failures half-way through a run, a driver that dies and is started again, a commit or an amendment between two starts |
| pilot and phase drivers (`v2_pilot.py`, `phase_a.py`, `phase_b1.py`, `phase_b2.py`) | run directories and failed-run records, or lists in memory | run the cells once in order, analyze | the same | no ledger; a phase truncates the tables and resets nothing else |
| invariant evaluators (`invariants.py`, `v2_invariants.py`, `v2_service_observation.py`, `service_backend.inspect`) | none | judge an observation | runner | they disagree in places |
| configurations (`v2_config.py`) | none | presets and their validation | all | must equal the Java table |
| statistics, `v2_manifest.py`, create-cart flow, health endpoints | none or files | aggregation, file output, one forwarded call | | nothing concurrent |

Properties that make each part correct: *services*: an effect is permanent, has
one owner and a cancelled order stays cancelled. *Resilient flow*: one order and
one payment per idempotency key; no record claims what does not exist; no payment without
its order; the terminal record, the order and the payment agree and are final;
recovery settles what a crash left; every request ends. *Baseline*: a
deterministic identity alone bounds duplicates. *Simulation*: the same promises, a request
reports its own record, and the evaluators have nothing to report. *Service runs*: what a
summary counts is backed by the services, an inspected answer raises no false alarm, the run
ends. *Campaign*: runs do not influence each other, are
recorded once, in order and with the frozen code, none is lost, and the verdict of the audit is deserved.

## 2. Modules

| Module | Models | Lines of thought |
| --- | --- | --- |
| `CommerceServices` | the controllers, schemas and `FailureInjection` of the three services | one action per handler; `Reply` is what a client sees |
| `TransactionService` | `TransactionService`, `TransactionRepository`, `CommerceClient`, `TransactionController`, the policies, the crash point | one step per SQL statement and per remote call |
| `TransactionProperties` | README "Invariants" and I1-I6 of `docs/V2_EXPERIMENT_DESIGN.md` | |
| `TransactionInvariant` | the inductive invariants | `IdentityInv`, `EvidenceInv`; `DuplicatesInv` where nothing fails; `AloneInv`, `SequentialInv` where requests do not overlap |
| `ServicesProofs` | theorems about the services, whoever calls them | TLAPS; used by the next three and by `BaselineProofs` |
| `TransactionProofs`, `SequentialProofs` | theorems about the resilient flow, however threads overlap, and when they do not | TLAPS |
| `PurchaseSaga`, `SagaRefinement` | abstract specification of a purchase that meets no overlap, and the refinement mapping (proof in `SequentialProofs`) | |
| `EffectLedger`, `LedgerRefinement` | abstract specification of what holds under every interleaving: effects in order and permanent, a record rewritten at will but never past the effects; the mapping (proof in `TransactionProofs`) | the rows the inspection endpoints select |
| `BaselineFlow`, `BaselineProofs` | BASELINE, C0, C1; its theorems | shares `CommerceServices` |
| `SimulatedServices`, `SimulatedOrchestrator`, `SimulationProperties` | the Python simulation backend under the runner's pool | one step per shared read, service call and group of assignments |
| `SimulationInvariant` | its inductive invariants | what the place of a worker means for its record and the effects of its key |
| `SimulationProofs`, `SimulationRunProofs` | types, records and what each action changes; whole runs, the evaluators included | TLAPS |
| `Evaluators` | the three Python evaluators on the state of the simulation | predicates over `records`, `orders`, `payments` |
| `ServiceRun`, `ServiceRunProperties` | `run_experiment` on the services backend, with `EffectLedger` as the orchestrator behind it | one step per request and per answer |
| `ServiceRunProofs` | its inductive invariants and theorems | TLAPS |
| `CampaignPlan` | cells, slots, execution orders, manifest, amendment, Git | |
| `Campaign`, `CampaignProperties` | all drivers, the crash controller, the state that lives from run to run, tables and audits | one transaction is one step |
| `CampaignProofs` | its inductive invariants and theorems | TLAPS |
| `MCTransaction`, `MCBaseline`, `MCSimulation`, `MCServiceRun`, `MCCampaign` | constants of the runs | |

`ServiceRun` composes with the orchestrator through the abstraction: it runs
`EffectLedger` as its environment, and `LedgerImplemented` proves that `TransactionService`
is an implementation of it. What the runner may rely on is thus what holds
under every overlap, loss and crash.

### The resilient flow and the code

A *thread* of `TransactionService` is one HTTP request. `pc[w]` says what it does
next; `rec[w]` is the local `record`, `comp[w]` the `compensating` record of
`failOrCompensate`, `to[w]` the state about to be saved, `tries[w]` the attempt
counter, `prev[w]` and `rounds[w]` the loop of `recoverOne`, `queue[w]` the snapshot of
a sweep. `db` is the table by its unique key, `net` the requests whose sender
gave up. The actions:

| Action | Code |
| --- | --- |
| `Execute`, `Insert`, `ReadCreated` | `executeResilient` 264-304, `create` |
| `RecoverOne`, `Loop` | `recoverOne` 154-197 |
| `Sweep`, `NextRecord` | `recover` 141-152, `intermediateRecords` |
| `Enter`, `Lookup`, `Call`, `Save`, `Reread` | the blocks of `continueResilient` 340-451; `save()` is an update and a separate select |
| `LookupLost`, `CallLost`, `ReconcileLost`, `CancelLost`, `Deliver` | a call that times out, and its late handling |
| `Reconcile` | the catch blocks 382-398, 408-439 |
| `GiveUp`, `Cancel`, `CancelFails` | `failOrCompensate` 453-504 |
| `Release`, `Crash` | the held crash point; the orchestrator process dies, its requests under way may still arrive |

Abstractions. The identifiers `cart_id`, `order_id`, `payment_id` are functions of the
transaction, so a record keeps whether they are set. Retry counters, reasons,
the flags `recovered`, `compensated` and `duplicateDetected`, mechanism events, customer, amount
and currency decide nothing. `selected` is the deterministic CRC32 choice of
`shouldFail`, per transaction. Attempt counters saturate at 3, above which they
decide nothing. `updated_at` order of a sweep becomes any order. Identical requests in flight
are merged, the handlers being idempotent. Recovery is called with the default headers (no
scenario) as the harness does, and the sweep runs under the historical policy.
Cancelling an order whose id is null always fails. The 400 answers for missing
identifiers are not modelled because `CallsIdentified` shows that no such call
is made. Failures of the database and restarts of a single service are outside
the model.

### The simulation backend and the code

`pc[w]` walks `_execute_locked` and `recover` of `ResilientOrchestrator`, whose tails share
steps. `records` are the mutable objects, `created` the order of the dict,
`lock` is `execution_lock`. `save()` publishes a record that is already shared;
after its first call it has no effect within the process. A seeded random draw
is a free choice. The pool takes requests in order. A worker waiting for the lock has not
begun yet. `RunnerCells` derives the interruption from the scenario as
`_crash_boundary` does; `DirectCells` lets one caller combine them freely, as the
tests do.

### A run on the services backend and the code

`results[i]` is attempt *i*, `stage` its place in `execute_one`: `sent`, `recovering` (the
`recover_one` that `execute` starts after the HTTP error of f9), `answered`, `half` (orders are
read, payments not yet), `done`. `Answered` returns the record as it is at that
moment; `Unanswered` is a timeout, an error or a refused connection, after which
the orchestrator goes on. `phase` is the place in `run_experiment`: pool, reconciliation, event
collection, summary. `polling` is the local state of the `while` of
`_reconcile_service_results`, `expired` its deadline, which a step of its own passes at any
time. `Violation` is `inspect`, or `evaluate_invariants` on the empty in-memory services when the
inspection failed. `Summary` has the counting columns of `summary.csv`. The states between STARTED and
a terminal state are told apart by nothing here, so `OpenStates` is one value in the run.

### The campaigns and the code

`driver` chooses among the primary campaign, the robustness campaign, the pilot and a phase.
`pc` is its place: `create` (create_run), `truncate` and
`restart_payment` (the two commands of `reset_database`), `probe` (`assert_reset_integrity`), `execute`,
`arm`/`wait`/`kill`/`restart`/`recover` (crash cells), `summarise` (transactions and summary), `record` (the
artifacts after it), `mark`, `report` and `audit`. Any of
the steps may raise (`Abort`), the driver may die anywhere (`Die`) and be started
again (`Start`, which brings up an orchestrator that is down). The drivers differ in what a
failure leaves behind (ledger, `failed-run.json`, a line of the phase's log) and
whether the loop goes on (`Raise`, `Unguarded`). `ledger`, `dirs`, `summarised`, `recorded`, `failed`, `report` and `verdict`
are on disk; `payAttempts` and `cancelAttempts` are the `attemptsByKey` maps of
the services. Transaction ids depend on repetition and index only
(`build_request`, `transactionIdFor`), hence `TxsOf`. `draw[t]` is the hash of
`shouldFail`: a larger rate selects what a smaller one selects. A phase has a seed of its
own for each scenario and rate, so one draw can stand for one such pair at a time
(`PlanAssumption`).

Between two commands the manifest may be created or amended, the tree edited, cleaned and
committed; `code[s]` remembers the commit a slot was recorded with. Commits are counted
from the first manifest on. One command runs at a time, and a running driver has its code loaded. The
hash of the manifest is taken as consistent; executions left held by an aborted crash run stay held
(the latch opens after an hour); calls are not lost within a campaign run, that is
the subject of `TransactionService` and `ServiceRun`.

## 3. Runs

Bounds: `MaxActive` threads at a time, `MaxCrashes`, `MaxAttempts` (`retry.maxAttempts` is 3 in
`application.properties`; 2 keeps one retry and one exhaustion), `MaxStarts`, `MaxFaults`. Two executions of one key are
enough for every pair of conflicting saves, a recovery adds the third role. Where only one key is used, keys do not
interact: `identity` is the run about two keys.

| Run | Question | Bounds |
| --- | --- | --- |
| `sequential` | Does the orchestrator implement the abstract saga, with terminal records that agree and stay, when requests do not overlap? | all 12 scenarios, HISTORICAL and C8, two executions, a recover-one and a sweep, one crash anywhere with its late call, the held crash point, 3 attempts |
| `concurrent` | What survives overlapping executions, lost and late calls, lost inspections and a crash? | two executions, no failure and permanent payment failure, HISTORICAL and C8, 2 attempts |
| `identity` | Do two keys and two transactions stay apart? | two executions choosing keys and transactions, lost calls, 1 attempt |
| `liveness` | Does every request end, do duplicates settle on COMPLETED? | two executions and a recovery, six configurations, scenarios f0 and f12, held crash point, 2 attempts |
| `recovery_stuck` | *finding* | one execution, one recovery, one crash |
| `overlap_terminal` | *finding* | two executions, no crash, no lost calls |
| `baseline` | What does identity alone guarantee? | 3 requests, 2 keys, 2 transactions, all scenarios, lossy |
| `simulation` | The promises of the simulation backend, on a pool of 2 and alone; do its evaluators agree that nothing is wrong? | 3 requests, 18 scenarios, 3 attempts |
| `service_run` | What are the numbers of a run worth? Does it end? | one key, a request and its duplicate on two workers, with f9 and runner reconciliation, or with a v2 configuration and event collection; any number of steps of the orchestrator |
| `campaign` | Are runs isolated, recorded once, in order, at the frozen commit, none lost? Is PASS deserved? | four drivers, 3 or 4 cells x 2 repetitions each, 2 faults, 3 starts, 2 commits, one amendment |
| `campaign_schedules` | *finding* | 2 compensation cells per campaign, no fault |
| `campaign_audit` | *finding* | robustness cells with the comparator R01, no fault |

`concurrent` visits about 856 000 distinct states, `service_run` 752 000, `campaign` 1 290 000, `simulation` 135 000;
`campaign` keeps a cell of every family, the order of cells within a family and two repetitions, which
is what the memory of the services and the order of slots can tell apart; a third start adds the
restart of a restart. In `service_run` a second key would only share the
deadline and the pool with the first, and is out of TLC's reach; a duplicate is what two attempts of one
verdict need.

`TerminalAgreement`, `TerminalsAreFinal` and `ImplementsSaga` are claimed for requests that
do not overlap and calls that only the injection disturbs: with overlapping
executions they are false (finding `overlap_terminal`), and with a lost inspection
inside a catch block (`TransactionService.java` 387 and 427) a record may end FAILED beside an active
order, or COMPENSATED beside a payment, a limit of reconciliation the code does
not address. What survives everything is in `concurrent`. `DuplicatesComplete` is about f0 only.
`NoViolationReported` asks `evaluate_v2_invariants` only where the interruption is the one the
scenario implies (`_crash_boundary`), as the runner does: executed directly with
the interruption during_payment and a lost payment response, the simulation reaches a
COMPENSATED record with a payment, to which this evaluator objects and the other two do not.
With a second crash they are false as well: a recovery meets no injected failure, so the request it leaves
behind at that crash still succeeds after a repeated execution, which meets the failure, has ended FAILED
or COMPENSATED. `OneEffectPerKey` excludes C0, which draws a fresh identity on purpose; the baseline flow
takes the identity of distinct keys to be distinct.

Deadlock is not checked where requests end, workers return and the driver
stops: then nothing is left to do. The run `liveness` shows that nobody waits for ever.

**Fairness.** `TransactionService!FairSpec` has weak fairness for every thread's own step: the JVM
schedules its threads, each remote call is bounded by the client's 500 ms, and
the held crash point by a latch of an hour. Arrivals, late deliveries and
crashes are not fair. `SimulatedOrchestrator!FairSpec` has weak fairness for every
worker, which the pool's threads give; the lock is requested with the first
step, and the last request in line finds it free. `ServiceRun!FairSpec` has weak fairness for the
runner's threads, whose calls the client's own timeout ends, and for the deadline, because
time passes; the orchestrator owes nothing, so `RunEnds` holds even if no record is ever settled.

### Findings

1. `recovery_stuck`: a crash after COMPENSATING was saved leaves a record that no
   recovery ever moves, with its order active.
2. `overlap_terminal`: a stale save between the two statements of `save()` makes the
   compensation cancel order "null"; the record ends FAILED, the order ACTIVE.
3. `campaign_schedules`: the order service keeps its count of cancellations over
   `reset_database`, so the second compensation cell of a repetition (P15 after P14, R12
   after R10) meets no transient cancellation failure, though the schedules are
   documented as equal. The same leak for payments was closed by restarting the payment
   simulator, and `RetrySchedules` shows that this closes it.
4. `campaign_audit`: the audit of the robustness campaign looks for
   `actualInjectedFailureRate` in a row of the ledger, which has no such column. A run of C1 never
   retries, so with R01 completed the audit ends in a `KeyError`, writes no verdict, and
   `analyze` cannot be run. `AuditSound` therefore says nothing of a PASS of that campaign as
   planned, only as the excerpt of `campaign` without its comparator.

Known limits met while modelling, which no run is about:

- With two workers an interrupted request of the simulation takes `recovered_records[-1]` (`runner.py` 114) as
  its own: another one's record, or none (FAILED) when another worker recovered its own first.
  `ReportsOwnRecordAlone` is about a request handled alone.
- The interruption after_cart (`orchestrators.py` 216) comes before `add_item`, and recovery (294)
  goes on with the order: the purchase completes with an empty cart.
- A phase resets the tables only (`phase_a.py` 147): with one draw per scenario and rate, its
  RESILIENT runs may find the counters its BASELINE runs left. `RetrySchedules` excludes phases for that reason.
- `v2_pilot.py` 113 passes its seed, already shifted by the repetition, together with
  `repetition_start`: the runner shifts it again, and the seed used is not the one in `config.json`.
- `v2_pilot.py` 225 lists a run that failed after its summary both among the summaries and among the failed runs.

## 4. Proofs

Assumptions: `ServicesAssumption` and `OrchestratorAssumption` (the sets of threads are disjoint, the
absent key and transaction are not real ones, the bounds are natural numbers); for the runner
`RunAssumption` (a workload is a non-empty finite sequence of keys with at least one worker; a record that is not closed is
in a state `TransactionState` names); for the flows without a record
`BaselineAssumption` (an absent transaction is not a real one, the modes and scenarios are the code's), for the campaign
`PlanAssumption` and `CampaignAssumption` (which failures and configurations the cells of each driver can have, at least one
repetition, one commit and one transaction, natural numbers as bounds on starts and faults), for the
simulation `SimulationAssumption` (requests are keys, at least one attempt, cells of the code's kind). Some theorems have
hypotheses of their own, stated with them. Three of the simulation: `MaxAttempts > 1`, where the code has 3 (`retry.py`; with a single attempt
an order whose answer is lost is never found again), and for one of them `Driven`, the interruptions the
programs use: the runner derives them from the scenario, the tests pass any to a single worker. Five of the resilient flow, whose properties are false in general: `DuplicatesSettle` (`Faults = {}`,
`MaxCrashes = 0`: a thread that is gone leaves its record where it is), `RecoverySettlesHolds` (`MaxActive = 1`) and the three
theorems from `SequentialRuns`, the conditions of the run `sequential`: one request at a time, no call lost but by injection, at most one
crash, `MaxAttempts >= 3` (`retry.maxAttempts` is 3, and the payment service of f11 answers the third attempt only) and the configurations
with every mechanism. TLC refutes the properties when any one of these is dropped. Nothing else is assumed
about the number of keys, transactions, threads, attempts, crashes, slots or starts.

`ServicesProofs`. The type of the services, and `ServicesPermanent`: no handler takes an effect back, whoever calls
it with whatever arguments. Both families of flows rest on it.

`TransactionProofs`. `IInv == TypeOK /\ IdentityInv` is inductive. `IdentityPreserved` alone is not:
a thread between the read of a row and the save of it could write any transaction.
`IdentityInv` adds that what every thread holds in its locals, and every request in
flight, is *pinned* to the row of its key, whose transaction never changes. One
lemma per action; the lemmas `World`, `ThreadStep` and `MovePreserves` say once what a
step of one thread leaves to all others. Theorems: `TypeCorrect`, `IdentityHolds`, `Identity`.

In the same module, `EInv == IInv /\ EvidenceInv`: the evidence of a claim exists before the claim is recorded,
in the row, in the locals of each thread and in what it is about to save. The
argument is that effects are permanent (`ServicesPermanent`, and `PermanentEffects` under the orchestrator), so that a stale record remains true:
a save can send a row back to an earlier state, never to a false one. Theorems:
`Backing`, `Ordering`, `Compensation`, `CompleteCalls`.

`LedgerImplemented` is the refinement of `EffectLedger`: `Spec => Ledger!LedgerSpec`, for any number of
keys, threads and crashes. `Shown` says what the inspected status of a key is, given that
`EInv` leaves it at most one order; then each step is classified: it saves one row (`Rewrite`
or `Open`, justified because `EInv'` holds), or it handles one request (`Place`, `Cancel`
or `Pay`), or it leaves the ledger alone. The theorem is what entitles `ServiceRun` to use the
ledger for the orchestrator.

`DuplicatesSettle` is about overlapping saves that send a record back. `Undisturbed`: without an injected failure nobody leaves the
way to COMPLETED. `Attended`: a record that is not COMPLETED is in the hands of a thread that will save it once more
(`SavesAgain`), not necessarily the one that inserted it. A thread that re-reads an earlier state than the one it saved returns;
then another thread has saved in between and is still under way, and when a save overwrites the record, the saver takes it over.
When no thread is left, nothing is open; `EInv` supplies the effects.

`SequentialProofs`. `AloneInv`: with one thread at a time, what it holds is what the table says (`Current`), so the loop of `recoverOne`
passes the blocks in one go (`LoopsOnce`); theorem `RecoverySettlesHolds`, with any losses and crashes. `SequentialInv` adds what the agreement
of a terminal record needs. `EffectsFollow`: the effects a state can have, and no others. `Deserved`: a call is given up only when the
injection keeps it from ever succeeding; that counts the transient failures against the attempts, and needs reconciliation
to find an effect whose answer was lost. `Harmless`: a request that outlived the crash is blocked as its sender was, or comes while its effect
is still expected. For this the sender must have been an execution when the scenario blocks the call, because a recovery meets no failure: `Attentive` says that
before the crash every open purchase is in the hands of its execution, hence no recovery has anything to do. `Unspoiled`: after it, a
recovery whose call succeeds against the scenario is about to record that. `Serve...`, `QuietStep` and `ServiceStep` say once what a step of the
services and a step inside the orchestrator leave alone. Theorems: `TerminalsAgreeHolds`, `TerminalsStayFinal`. For `SagaImplemented`, `StepKinds` sorts
the steps into those that do nothing visible, a request handled in time (`Timely`), an insert and a save; `View` says what is seen of a
key, and a save into a terminal state is a `Close` with the outcome that `TerminalsAgree` justifies. The run `sequential` has one key and four
threads; the theorems hold for any number of each.

`ServiceRunProofs`. `RInv` says that every row of the ledger is justified by its effects and that every
attempt is *supported*: its answer is backed by the ledger, and what each read after the answer saw is
still so. Neither the verdict on an answer nor the counts are inductive without it. Since effects
are permanent (`LedgerKeeps`), a step of the orchestrator can take no support away
(`OrchestratorStep`), and a thread of the runner writes one result (`UpdateKeeps`); theorems `SupportHolds`,
`FalseAlarmNever`, `CountsSound`. `MInv` adds the main thread: the poll loop knows a backed state of its key, and a verdict
written into the results is backed and says one thing of a recovery. With `BestBacked` (the best
of several answers is one of them) this gives the states `OutcomesBacked` is about, and cardinality
lemmas (`PartsCount`, `ColumnsFit`) that the columns fit together: theorem `OutcomesSound`. `TInv` adds what types
need: a key that is polled has a record, which is never taken away, and `by_key` lists keys of the workload,
which takes a counting argument (`Ranking`: the members of a finite set of numbers, numbered by how many are no greater, take
every number up to its size); theorem `RunTyped`. The run
`service_run` has one key and two attempts; the theorems hold for every workload, pool and deadline.

`BaselineProofs`. `BInv` says that a transaction is run for one key (`Identities`), that effects and late calls belong to a
request (`Effects`), and that a call is only made, and an effect only there, after those before it
(`Sequence`). A call of the flow, in time or late, is `Allowed`; `CallHolds` says once what the services hold after
it, so that `Call` and `Deliver` share the argument. No row is looked up: `IdentityBounds` shows that the derived
transaction alone carries README "Invariants" 1 and 3.

`SimulationProofs`. `RecordsBacked` is not inductive: a worker about to write knows something the records do not
show. `Knows` says what each place of a worker means for its record, as long as it is there: since orders, payments
and the flags of a record are never withdrawn (`Grows`), no other worker, locked or recovering, can make it
false. `ServicesStep` and `RecordStep` are the two kinds of step. `Typed` adds the types (`TypeCorrect`), one
`...Effect` lemma per action says what it changes at its worker and at its record, and `Ground` joins types, backing
and `Discipline`: who is inside the lock, which places belong to an execution, where attempts are counted, and which
records have a cart, an item and an order. It holds for every pool, and the module below starts from it.

`SimulationRunProofs`. Which worker can disturb which is the question. `Serial`: with one worker, or without
interruptions, nobody writes a record between the check of a worker and what follows it (`Undisturbed`); that is
`TerminalsStayFinal`. `OrdersFollow`: the order is where the record says, which needs that
a lost answer is found by the lookup of the next attempt. `PaymentsFollow`: a call whose answer can be lost is not the last
one, so a payment made is never compensated. `Faultless`: in the scenarios that imply an interruption nothing
fails. With these every evaluator is silent (`NoViolation`). `Owed`: a record that is not final is in the hands of a worker whose
place carries on from its state, or in the snapshot of one that recovers; when all are done nothing is owed
(`SettledHolds`). `OwnRecord` follows the one record of a worker that is alone (`ReportsOwnRecordAloneHolds`). The
snapshot of a recovery is modelled as the set of its keys, taken in the order of the dict (`First`).

`CampaignProofs`. `CInv` has one part per question. `RecordInv`: the directory of a run is made once, and artifacts lie in a
directory, so a slot that is taken up again has none (`RunsOnce`). `LedgerInv`: a slot is marked COMPLETED by the driver
that has just summarised it, and code and manifest stand still while a driver runs (`CompletedIsComplete`,
`CompletedAtFrozenCommit`). `TrialInv`: the crash point is reached by the run's own transaction, and instances only grow
(`GenuineTrials`). `DecisionInv`: every planned slot is decided, still to do or under way (`EverySlotDecided`); `OrderInv`: what is
still to do comes after the slot taken up, in an order shown to be asymmetric (`LedgerOrder`).
`AuditInv` and `CleanInv`: what an audit has seen stays so, because no run is done twice, and a campaign without a fault
collects everything (`AuditSound`). `IsolationInv`: an orchestrator is missing only when nothing but crash runs, which notice it, is left (`CrashLast`), and rows and
payment attempts are those of the run (`RunsIsolated`), from which `ScheduleInv` derives the failures it meets
(`RetrySchedules`). `Classify` sorts the steps into those that change the disk and those of a run.

Only model-checked: liveness (`RequestsEnd`, `WorkersEnd`, `RunEnds`), which is out of the prover's reach.
Every other property the passing runs check is proved.

## 5. Not modelled

- Statistics and tables over finished runs (percentiles, confidence intervals, paired
  effects, comparison and mechanism tables), file layout, argument parsing, environment metadata:
  sequential functions of finished results.
- `BaselineOrchestrator` and `V2BaselineOrchestrator` of the simulation keep no record and share
  nothing; `BaselineFlow` models the same flow where calls overlap and are late. The runner's BASELINE runs
  on the services backend, which never reconcile a record.
- `v2_manifest.py` and the validation rules of `v2_config.py`: checks of constant data.
- Mechanism events: an append-only log nobody reads while a transaction runs; the campaign
  models whether they could be collected. The create-cart flow and health endpoints: no state.
- `save_ledger` writes in place; a half-written ledger is below the steps of the model.

## 6. Plan

Done: services, resilient flow, abstract saga and effect ledger, both refinements proved; baseline; simulation with the
evaluators; runs on the services backend; campaigns, pilot and phases with manifests and audits; every safety property,
action property and refinement the runs check is a theorem. What remains, in this order:

1. **Two crashes**: what of `TerminalAgreement` survives any number of crashes, with the requests of recoveries told apart.
2. **BASELINE runs** on the services backend, with `BaselineFlow` behind the same runner.
3. **Configurations**: equality of the Java and the Python tables and the validation rules.
