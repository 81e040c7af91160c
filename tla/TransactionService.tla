------------------------- MODULE TransactionService -------------------------
(***************************************************************************)
(* The orchestrator: TransactionService driving a purchase through cart,   *)
(* order and payment, TransactionRepository holding its durable record,    *)
(* CommerceClient calling the services, and the three HTTP entry points    *)
(* of TransactionController that start a thread: execute, recover-one and  *)
(* the recovery sweep.                                                     *)
(*                                                                         *)
(* A thread is one HTTP request served by the orchestrator.  Its steps are *)
(* the points where another thread, a late request or a crash can come in  *)
(* between: each SQL statement and each remote call is one step, the code  *)
(* between two of them is part of the step before.  A record keeps whether *)
(* cart_id, order_id and payment_id are set; their values are functions of *)
(* transaction_id.  Retry counters, reasons, flags and mechanism events    *)
(* decide nothing and are left out.                                        *)
(***************************************************************************)
EXTENDS CommerceServices

CONSTANTS
    NoTx,            \* transaction of a row that does not exist
    Executions,      \* POST /transactions requests, in the resilient flow
    Recoveries,      \* POST /recovery/idempotency/{key} requests
    Sweeps,          \* POST /recovery/run requests
    Configurations,  \* X-V2-Configuration of a run, "HISTORICAL" when absent
    ScenarioChoices, \* X-Failure-Scenario of a run
    CrashPoints,     \* may an execution carry X-V2-Crash-Point, and may it not
    Faults,          \* calls the network may lose, of {"call", "inspection"}
    MaxAttempts,     \* retry.maxAttempts
    MaxActive,       \* bound: threads alive at the same time
    MaxCrashes       \* bound: orchestrator crashes

Threads == Executions \cup Recoveries \cup Sweeps
AllConfigurations == {"HISTORICAL", "C2", "C3", "C4", "C5", "C6", "C7", "C8"}

ASSUME OrchestratorAssumption ==
    /\ NoTx \notin Txs
    /\ Executions \cap Recoveries = {}
    /\ Sweeps \cap (Executions \cup Recoveries) = {}
    /\ Configurations \subseteq AllConfigurations
    /\ ScenarioChoices \subseteq Scenarios
    /\ CrashPoints \subseteq BOOLEAN
    /\ Faults \subseteq {"call", "inspection"}
    /\ MaxAttempts \in Nat \ {0}
    /\ MaxActive \in Nat
    /\ MaxCrashes \in Nat

VARIABLES
    db,             \* orchestrator_transactions, by its unique idempotency_key
    net,            \* requests their sender no longer waits for
    configuration,  \* of the experiment cell, fixed
    scenario,       \* of the experiment cell, fixed
    crashes,        \* orchestrator crashes so far
    pc,             \* pc[w]: what thread w does next
    rec,            \* rec[w]: the local variable "record"
    comp,           \* comp[w]: "compensating" of failOrCompensate
    to,             \* to[w]: state of the record about to be saved
    tries,          \* tries[w]: failed attempts of the operation under way
    armed,          \* armed[w]: the execution stops at after-order-persisted
    prev,           \* prev[w]: "previous" of recoverOne
    rounds,         \* rounds[w]: "attempts" of recoverOne
    queue           \* queue[w]: records of a sweep still to be continued

cell == <<configuration, scenario, crashes>>
loop == <<prev, rounds, queue>>
vars == <<services, db, net, cell, pc, rec, comp, to, tries, armed, loop>>

Terminals == {"COMPLETED", "COMPENSATED", "FAILED"}
States == {"STARTED", "CART_CREATED", "ORDER_CREATED", "PAYMENT_PENDING",
           "PAYMENT_COMPLETED", "COMPENSATING"} \cup Terminals

Row == [key : Keys, tx : Txs, state : States,
        cart : BOOLEAN, order : BOOLEAN, payment : BOOLEAN]
Unsaved(k, t) == [key |-> k, tx |-> t, state |-> "NONE",
                  cart |-> FALSE, order |-> FALSE, payment |-> FALSE]
NoRow == Unsaved(NoKey, NoTx)
Blank == {NoRow} \cup {Unsaved(k, t) : k \in Keys, t \in Txs}

Message == [op : Operations, key : Keys, tx : Txs, sc : Scenarios]

Waiting == {"insert", "created", "lookup", "call", "reconcile", "save",
            "reread", "held", "cancel", "returned"}
Ended == {"done", "error", "lost"}

TypeOK ==
    /\ ServicesTypeOK
    /\ db \in [Keys -> Row \cup {NoRow}]
    /\ net \subseteq Message
    /\ configuration \in AllConfigurations
    /\ scenario \in Scenarios
    /\ crashes \in 0 .. MaxCrashes
    /\ pc \in [Threads -> {"idle"} \cup Waiting \cup Ended]
    /\ rec \in [Threads -> Row \cup Blank]
    /\ comp \in [Threads -> Row \cup {NoRow}]
    /\ to \in [Threads -> States \cup {"NONE"}]
    /\ tries \in [Threads -> 0 .. MaxAttempts - 1]
    /\ armed \in [Threads -> BOOLEAN]
    /\ prev \in [Threads -> States \cup {"NONE"}]
    /\ rounds \in [Threads -> 0 .. MaxAttempts]
    /\ queue \in [Threads -> SUBSET Row]

Init ==
    /\ ServicesInit
    /\ db = [k \in Keys |-> NoRow]
    /\ net = {}
    /\ configuration \in Configurations
    /\ scenario \in ScenarioChoices
    /\ crashes = 0
    /\ pc = [w \in Threads |-> "idle"]
    /\ rec = [w \in Threads |-> NoRow]
    /\ comp = [w \in Threads |-> NoRow]
    /\ to = [w \in Threads |-> "NONE"]
    /\ tries = [w \in Threads |-> 0]
    /\ armed = [w \in Threads |-> FALSE]
    /\ prev = [w \in Threads |-> "NONE"]
    /\ rounds = [w \in Threads |-> 0]
    /\ queue = [w \in Threads |-> {}]

-----------------------------------------------------------------------------
(* V2MechanismPolicy: the mechanisms a configuration switches on.  A sweep *)
(* always runs under the historical policy.  idempotentSideEffectLookup    *)
(* only guards calls when policy.v2() holds too.                           *)

PolicyOf(w) == IF w \in Sweeps THEN "HISTORICAL" ELSE configuration

LooksUp(w) == PolicyOf(w) \in {"C4", "C5", "C7", "C8"}
Retries(w) == PolicyOf(w) \in {"HISTORICAL", "C3", "C8"}
Reconciles(w) == PolicyOf(w) \in {"HISTORICAL", "C5", "C8"}
Compensates(w) == PolicyOf(w) \in {"HISTORICAL", "C6", "C8"}
RestartRecovery(c) == c \in {"HISTORICAL", "C7", "C8"}

(* The recovery endpoints are called with the default headers: scenario f0 *)
ScenarioOf(w) == IF w \in Executions THEN scenario ELSE NoFailure

(* A faulty variant: no block picks up a record whose payment is recorded. *)
StageOfStopsAtPayment(s) == CASE s = "STARTED" -> 1
                              [] s = "CART_CREATED" -> 2
                              [] s = "ORDER_CREATED" -> 3
                              [] s = "PAYMENT_PENDING" -> 4
                              [] OTHER -> 0

(* continueResilient is a sequence of "if (record.state() == ...)": a      *)
(* record enters the block of its state unless that block is behind it.    *)
(* COMPENSATING and the terminal states have no block.                     *)
StageOf(s) == CASE s = "STARTED" -> 1
                [] s = "CART_CREATED" -> 2
                [] s = "ORDER_CREATED" -> 3
                [] s = "PAYMENT_PENDING" -> 4
                [] s = "PAYMENT_COMPLETED" -> 5
                [] OTHER -> 0

(* A faulty variant: the order is placed before the cart.                  *)
OperationOfOrderFirst(s) == CASE s = "STARTED" -> "create_order"
                              [] s = "CART_CREATED" -> "create_cart"
                              [] OTHER -> "execute_payment"

OperationOf(s) == CASE s = "STARTED" -> "create_cart"
                    [] s = "CART_CREATED" -> "create_order"
                    [] OTHER -> "execute_payment"

StateAfter(op) == CASE op = "create_cart" -> "CART_CREATED"
                    [] op = "create_order" -> "ORDER_CREATED"
                    [] OTHER -> "PAYMENT_COMPLETED"

Operation(w) == OperationOf(rec[w].state)

Active == {w \in Threads : pc[w] \in Waiting}
MayStart(w) == pc[w] = "idle" /\ Cardinality(Active) < MaxActive

-----------------------------------------------------------------------------
(* Control inside a thread.  These formulas set pc, rec, to and tries.     *)

(* lookup (when the policy has it) and remote call form one attempt        *)
Attempt(w) == IF LooksUp(w) THEN "lookup" ELSE "call"

(* continueResilient returns r: an execution answers its client, the       *)
(* recovery endpoints go on with their loop                                *)
Return(w, r) ==
    /\ rec' = [rec EXCEPT ![w] = r]
    /\ pc' = [pc EXCEPT ![w] = IF w \in Executions THEN "done" ELSE "returned"]
    /\ UNCHANGED <<to, tries>>

(* continueResilient from its block number "from" on, with record = r      *)
Enter(w, r, from) ==
    \/ /\ StageOf(r.state) < from
       /\ Return(w, r)
    \/ /\ StageOf(r.state) >= from
       /\ r.state \in {"STARTED", "CART_CREATED", "PAYMENT_PENDING"}
       /\ rec' = [rec EXCEPT ![w] = r]
       /\ tries' = [tries EXCEPT ![w] = 0]
       /\ pc' = [pc EXCEPT ![w] = Attempt(w)]
       /\ UNCHANGED to
    \/ /\ StageOf(r.state) >= from
       /\ r.state \in {"ORDER_CREATED", "PAYMENT_COMPLETED"}
       /\ rec' = [rec EXCEPT ![w] = r]
       /\ to' = [to EXCEPT ![w] = IF r.state = "ORDER_CREATED" THEN "PAYMENT_PENDING"
                                                              ELSE "COMPLETED"]
       /\ pc' = [pc EXCEPT ![w] = "save"]
       /\ UNCHANGED tries

SaveAs(w, s) ==
    /\ to' = [to EXCEPT ![w] = s]
    /\ pc' = [pc EXCEPT ![w] = "save"]
    /\ UNCHANGED <<rec, tries>>

(* A faulty variant: the saga forgets that an order must be cancelled.     *)
GiveUpWithoutCompensation(w) == SaveAs(w, "FAILED")

(* failOrCompensate                                                        *)
GiveUp(w) ==
    SaveAs(w, IF rec[w].order /\ Compensates(w) THEN "COMPENSATING" ELSE "FAILED")

(* isTransient: a 503 or a ResourceAccessException                         *)
Transient(reply) == reply \in {"http503", "timeout"}

(* A faulty variant: one attempt more than retry.maxAttempts.              *)
RetriesOnceTooOften(w, reply) ==
    Retries(w) /\ Transient(reply) /\ tries[w] + 1 <= MaxAttempts

RetriesAfter(w, reply) == Retries(w) /\ Transient(reply) /\ tries[w] + 1 < MaxAttempts

(* Only the order and the payment block catch ResourceAccessException.     *)
ReconcilesAfter(w, reply) ==
    reply = "timeout" /\ Operation(w) # "create_cart" /\ Reconciles(w)

(* The attempt of thread w ended with an exception.                        *)
AttemptFails(w, reply) ==
    \/ /\ RetriesAfter(w, reply)
       /\ tries' = [tries EXCEPT ![w] = @ + 1]
       /\ pc' = [pc EXCEPT ![w] = Attempt(w)]
       /\ UNCHANGED <<rec, to>>
    \/ /\ ~ RetriesAfter(w, reply)
       /\ ReconcilesAfter(w, reply)
       /\ pc' = [pc EXCEPT ![w] = "reconcile"]
       /\ UNCHANGED <<rec, to, tries>>
    \/ /\ ~ RetriesAfter(w, reply)
       /\ ~ ReconcilesAfter(w, reply)
       /\ GiveUp(w)

-----------------------------------------------------------------------------
(* Entry points.                                                           *)

(* executeResilient: find the record; without one, the request (its key    *)
(* and transactionIdFor) waits in rec for the insert.                      *)
Execute(w) ==
    /\ w \in Executions
    /\ MayStart(w)
    /\ \E k \in Keys, t \in Txs, crashPoint \in CrashPoints :
          /\ armed' = [armed EXCEPT ![w] = crashPoint]
          /\ \/ /\ db[k] # NoRow
                /\ Enter(w, db[k], 1)
             \/ /\ db[k] = NoRow
                /\ rec' = [rec EXCEPT ![w] = Unsaved(k, t)]
                /\ pc' = [pc EXCEPT ![w] = "insert"]
                /\ UNCHANGED <<to, tries>>
    /\ UNCHANGED <<services, db, net, cell, comp, loop>>

(* A faulty variant: only the idempotency key is unique.                   *)
InsertChecksKeyOnly(w) ==
    /\ pc[w] = "insert"
    /\ db' = IF db[rec[w].key] = NoRow
             THEN [db EXCEPT ![rec[w].key] = [rec[w] EXCEPT !.state = "STARTED"]]
             ELSE db
    /\ pc' = [pc EXCEPT ![w] = "created"]
    /\ UNCHANGED <<services, net, cell, rec, comp, to, tries, armed, loop>>

(* repository.create: insert ... on conflict do nothing, a conflict being  *)
(* a row with the same transaction_id or the same idempotency_key          *)
Insert(w) ==
    /\ pc[w] = "insert"
    /\ db' = IF db[rec[w].key] = NoRow /\ \A k \in Keys : db[k].tx # rec[w].tx
             THEN [db EXCEPT ![rec[w].key] = [rec[w] EXCEPT !.state = "STARTED"]]
             ELSE db
    /\ pc' = [pc EXCEPT ![w] = "created"]
    /\ UNCHANGED <<services, net, cell, rec, comp, to, tries, armed, loop>>

(* ... then findByIdempotencyKey(key).orElseThrow()                        *)
ReadCreated(w) ==
    /\ pc[w] = "created"
    /\ LET r == db[rec[w].key]
       IN  \/ /\ r = NoRow
              /\ pc' = [pc EXCEPT ![w] = "error"]
              /\ UNCHANGED <<rec, to, tries>>
           \/ /\ r # NoRow
              /\ Enter(w, r, 1)
    /\ UNCHANGED <<services, db, net, cell, comp, armed, loop>>

(* recoverOne: refuse under a policy without restart recovery, fail        *)
(* without a record, else start the loop                                   *)
RecoverOne(w) ==
    /\ w \in Recoveries
    /\ MayStart(w)
    /\ \E k \in Keys :
          \/ /\ ~ RestartRecovery(configuration) \/ db[k] = NoRow
             /\ pc' = [pc EXCEPT ![w] = "error"]
             /\ UNCHANGED rec
          \/ /\ RestartRecovery(configuration) /\ db[k] # NoRow
             /\ rec' = [rec EXCEPT ![w] = db[k]]
             /\ pc' = [pc EXCEPT ![w] = "returned"]
    /\ UNCHANGED <<services, db, net, cell, comp, to, tries, armed, loop>>

(* The loop's condition.  A COMPENSATING record passes it once in the code *)
(* and comes back unchanged, which ends the loop with the same record.     *)
ContinuesLoop(w) ==
    /\ StageOf(rec[w].state) > 0
    /\ rec[w].state # prev[w]
    /\ rounds[w] < MaxAttempts

(* one iteration of recoverOne's loop, or its end                          *)
Loop(w) ==
    /\ w \in Recoveries /\ pc[w] = "returned"
    /\ \/ /\ ContinuesLoop(w)
          /\ prev' = [prev EXCEPT ![w] = rec[w].state]
          /\ rounds' = [rounds EXCEPT ![w] = @ + 1]
          /\ Enter(w, rec[w], 1)
       \/ /\ ~ ContinuesLoop(w)
          /\ pc' = [pc EXCEPT ![w] = "done"]
          /\ UNCHANGED <<rec, to, tries, prev, rounds>>
    /\ UNCHANGED <<services, db, net, cell, comp, armed, queue>>

(* recover: intermediateRecords() is read once, its records are continued  *)
(* one after the other from that snapshot                                  *)
Sweep(w) ==
    /\ w \in Sweeps
    /\ MayStart(w)
    /\ queue' = [queue EXCEPT ![w] =
                    {db[k] : k \in {j \in Keys : db[j].state \notin Terminals \cup {"NONE"}}}]
    /\ pc' = [pc EXCEPT ![w] = "returned"]
    /\ UNCHANGED <<services, db, net, cell, rec, comp, to, tries, armed, prev, rounds>>

NextRecord(w) ==
    /\ w \in Sweeps /\ pc[w] = "returned"
    /\ \/ \E r \in queue[w] :
             /\ queue' = [queue EXCEPT ![w] = @ \ {r}]
             /\ Enter(w, r, 1)
       \/ /\ queue[w] = {}
          /\ pc' = [pc EXCEPT ![w] = "done"]
          /\ UNCHANGED <<rec, to, tries, queue>>
    /\ UNCHANGED <<services, db, net, cell, comp, armed, prev, rounds>>

-----------------------------------------------------------------------------
(* Remote calls.                                                           *)

(* create*WithPolicy: inspect first; an effect already recorded under the  *)
(* key stands for the reply of the call                                    *)
Lookup(w) ==
    /\ pc[w] = "lookup"
    /\ \/ /\ Inspect(Operation(w), rec[w].key)
          /\ SaveAs(w, StateAfter(Operation(w)))
       \/ /\ ~ Inspect(Operation(w), rec[w].key)
          /\ pc' = [pc EXCEPT ![w] = "call"]
          /\ UNCHANGED <<rec, to, tries>>
    /\ UNCHANGED <<services, db, net, cell, comp, armed, loop>>

(* one of the three GETs of inspect gets no answer: the attempt fails      *)
LookupLost(w) ==
    /\ pc[w] = "lookup" /\ "inspection" \in Faults
    /\ AttemptFails(w, "timeout")
    /\ UNCHANGED <<services, db, net, cell, comp, armed, loop>>

(* the service handles the call and the client sees its reply              *)
Call(w) ==
    /\ pc[w] = "call"
    /\ LET op == Operation(w)
           reply == Reply(op, rec[w].tx, ScenarioOf(w))
       IN  /\ Serve(op, rec[w].key, rec[w].tx, ScenarioOf(w))
           /\ \/ reply = "ok" /\ SaveAs(w, StateAfter(op))
              \/ reply # "ok" /\ AttemptFails(w, reply)
    /\ UNCHANGED <<db, net, cell, comp, armed, loop>>

(* the call of thread w that is on its way                                 *)
OutgoingCall(w) ==
    IF pc[w] = "cancel"
    THEN [op |-> "cancel_order", key |-> comp[w].key, tx |-> comp[w].tx, sc |-> ScenarioOf(w)]
    ELSE [op |-> Operation(w), key |-> rec[w].key, tx |-> rec[w].tx, sc |-> ScenarioOf(w)]

(* 500 ms pass before the service has answered: the client gives up, the   *)
(* request may still be handled later, or never                            *)
CallLost(w) ==
    /\ pc[w] = "call" /\ "call" \in Faults
    /\ net' = net \cup {OutgoingCall(w)}
    /\ AttemptFails(w, "timeout")
    /\ UNCHANGED <<services, db, cell, comp, armed, loop>>

(* A faulty variant: the lost response is taken for a success.             *)
ReconcileBlindly(w) ==
    /\ pc[w] = "reconcile"
    /\ SaveAs(w, StateAfter(Operation(w)))
    /\ armed' = [armed EXCEPT ![w] = FALSE]
    /\ UNCHANGED <<services, db, net, cell, comp, loop>>

(* The catch blocks of the order and of the payment stage: an effect found *)
(* by inspect is recorded (past the crash point), else the exception goes  *)
(* on to failOrCompensate.                                                 *)
Reconcile(w) ==
    /\ pc[w] = "reconcile"
    /\ \/ /\ Inspect(Operation(w), rec[w].key)
          /\ SaveAs(w, StateAfter(Operation(w)))
          /\ armed' = [armed EXCEPT ![w] = FALSE]
       \/ /\ ~ Inspect(Operation(w), rec[w].key)
          /\ GiveUp(w)
          /\ UNCHANGED armed
    /\ UNCHANGED <<services, db, net, cell, comp, loop>>

(* inspect throws inside the catch block: straight to failOrCompensate     *)
ReconcileLost(w) ==
    /\ pc[w] = "reconcile" /\ "inspection" \in Faults
    /\ GiveUp(w)
    /\ UNCHANGED <<services, db, net, cell, comp, armed, loop>>

-----------------------------------------------------------------------------
(* repository.save: an unconditional update by transaction_id, then a      *)
(* separate select by key that becomes the new local record.               *)

(* withCart, withOrder, withPayment, withState and the records             *)
(* failOrCompensate builds                                                 *)
Outgoing(w) ==
    CASE to[w] = "CART_CREATED" -> [rec[w] EXCEPT !.state = to[w], !.cart = TRUE]
      [] to[w] = "ORDER_CREATED" -> [rec[w] EXCEPT !.state = to[w], !.order = TRUE]
      [] to[w] = "PAYMENT_COMPLETED" -> [rec[w] EXCEPT !.state = to[w], !.payment = TRUE]
      [] to[w] = "COMPENSATED" -> [comp[w] EXCEPT !.state = to[w]]
      [] OTHER -> [rec[w] EXCEPT !.state = to[w]]

Save(w) ==
    /\ pc[w] = "save"
    /\ LET r == Outgoing(w)
       IN  db' = [k \in Keys |-> IF db[k].tx = r.tx THEN [r EXCEPT !.key = k] ELSE db[k]]
    /\ pc' = [pc EXCEPT ![w] = "reread"]
    /\ UNCHANGED <<services, net, cell, rec, comp, to, tries, armed, loop>>

(* SIMULATED_ORCHESTRATOR_INTERRUPTION_AFTER_ORDER leaves the flow without *)
(* touching the record; recovery does not raise it                         *)
AfterOrder(w, r) ==
    \/ /\ ScenarioOf(w) = "f9-orchestrator-interruption-after-order"
       /\ pc' = [pc EXCEPT ![w] = "error"]
       /\ UNCHANGED <<rec, to, tries>>
    \/ /\ ScenarioOf(w) # "f9-orchestrator-interruption-after-order"
       /\ Enter(w, r, 3)

Reread(w) ==
    /\ pc[w] = "reread"
    /\ LET r == db[rec[w].key]
       IN  \/ /\ to[w] \in {"CART_CREATED", "PAYMENT_PENDING", "PAYMENT_COMPLETED"}
              /\ Enter(w, r, StageOf(to[w]))
              /\ UNCHANGED comp
           \/ /\ to[w] = "ORDER_CREATED" /\ ~ armed[w]
              /\ AfterOrder(w, r)
              /\ UNCHANGED comp
           \/ /\ to[w] = "ORDER_CREATED" /\ armed[w]
              /\ rec' = [rec EXCEPT ![w] = r]
              /\ pc' = [pc EXCEPT ![w] = "held"]
              /\ UNCHANGED <<to, tries, comp>>
           \/ /\ to[w] = "COMPENSATING"
              /\ comp' = [comp EXCEPT ![w] = r]
              /\ tries' = [tries EXCEPT ![w] = 0]
              /\ pc' = [pc EXCEPT ![w] = "cancel"]
              /\ UNCHANGED <<rec, to>>
           \/ /\ to[w] \in Terminals
              /\ Return(w, r)
              /\ UNCHANGED comp
    /\ UNCHANGED <<services, db, net, cell, armed, loop>>

(* awaitExternalCrashIfRequested: the latch nobody counts down opens after *)
(* an hour, unless the process is killed first                             *)
Release(w) ==
    /\ pc[w] = "held"
    /\ AfterOrder(w, rec[w])
    /\ UNCHANGED <<services, db, net, cell, comp, armed, loop>>

-----------------------------------------------------------------------------
(* The compensation loop of failOrCompensate.                              *)

(* A faulty variant: the loop never gives up.                              *)
CancelRetriesForEver(w) ==
    /\ pc' = [pc EXCEPT ![w] = "cancel"]
    /\ UNCHANGED <<rec, to, tries>>

CancelFails(w) ==
    \/ /\ tries[w] + 1 < MaxAttempts
       /\ tries' = [tries EXCEPT ![w] = @ + 1]
       /\ UNCHANGED <<pc, rec, to>>
    \/ /\ tries[w] + 1 >= MaxAttempts
       /\ SaveAs(w, "FAILED")

(* cancelOrder(compensating.orderId()); an order_id that is null names no  *)
(* order and the service answers with an error                             *)
Cancel(w) ==
    /\ pc[w] = "cancel"
    /\ \/ /\ comp[w].order
          /\ CancelOrder(comp[w].tx, ScenarioOf(w))
          /\ IF Reply("cancel_order", comp[w].tx, ScenarioOf(w)) = "ok"
             THEN SaveAs(w, "COMPENSATED")
             ELSE CancelFails(w)
       \/ /\ ~ comp[w].order
          /\ CancelFails(w)
          /\ UNCHANGED services
    /\ UNCHANGED <<db, net, cell, comp, armed, loop>>

CancelLost(w) ==
    /\ pc[w] = "cancel" /\ "call" \in Faults
    /\ net' = IF comp[w].order THEN net \cup {OutgoingCall(w)} ELSE net
    /\ CancelFails(w)
    /\ UNCHANGED <<services, db, cell, comp, armed, loop>>

-----------------------------------------------------------------------------
(* The environment.                                                        *)

(* A request its sender gave up on is handled after all.  Two identical    *)
(* ones are merged in net: the handlers are idempotent.                    *)
Deliver(m) ==
    /\ m \in net
    /\ net' = net \ {m}
    /\ Serve(m.op, m.key, m.tx, m.sc)
    /\ UNCHANGED <<db, cell, pc, rec, comp, to, tries, armed, loop>>

(* The orchestrator is killed: its threads and their locals are gone, the  *)
(* rows stay, the calls it had under way may still reach the services.     *)
UnderWay == {w \in Active : pc[w] = "call" \/ (pc[w] = "cancel" /\ comp[w].order)}
Forget(local, blank) == [w \in Threads |-> IF w \in Active THEN blank ELSE local[w]]
Crash ==
    /\ crashes < MaxCrashes
    /\ Active # {}
    /\ crashes' = crashes + 1
    /\ \E sent \in SUBSET UnderWay : net' = net \cup {OutgoingCall(w) : w \in sent}
    /\ pc' = Forget(pc, "lost")
    /\ rec' = Forget(rec, NoRow)
    /\ comp' = Forget(comp, NoRow)
    /\ to' = Forget(to, "NONE")
    /\ tries' = Forget(tries, 0)
    /\ armed' = Forget(armed, FALSE)
    /\ prev' = Forget(prev, "NONE")
    /\ rounds' = Forget(rounds, 0)
    /\ queue' = Forget(queue, {})
    /\ UNCHANGED <<services, db, configuration, scenario>>

Step(w) ==
    \/ Insert(w) \/ ReadCreated(w) \/ Loop(w) \/ NextRecord(w)
    \/ Lookup(w) \/ LookupLost(w) \/ Call(w) \/ CallLost(w)
    \/ Reconcile(w) \/ ReconcileLost(w) \/ Save(w) \/ Reread(w) \/ Release(w)
    \/ Cancel(w) \/ CancelLost(w)

Next ==
    \/ \E w \in Threads : Execute(w) \/ RecoverOne(w) \/ Sweep(w) \/ Step(w)
    \/ \E m \in net : Deliver(m)
    \/ Crash

Spec == Init /\ [][Next]_vars

(* A started thread runs on (JVM threads, client timeouts, the latch's     *)
(* hour); arrivals, late deliveries and crashes are owed to nobody.        *)
FairSpec == Spec /\ \A w \in Threads : WF_vars(Step(w))
=============================================================================
