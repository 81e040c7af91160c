----------------------- MODULE SimulatedOrchestrator -----------------------
(***************************************************************************)
(* The resilient mode of the simulation backend: ResilientOrchestrator,    *)
(* StateStore and RetryPolicy, driven by execute_one of runner.py on a     *)
(* pool of worker threads.  Executions hold execution_lock; recovery,      *)
(* which every interrupted worker runs over all intermediate records,      *)
(* holds no lock and works on the same mutable record objects.             *)
(*                                                                         *)
(* A step is a read of shared data with the branch it decides, one call of *)
(* a service, or one group of assignments to a record.  save() publishes a *)
(* record that is shared already, after its first call it changes nothing  *)
(* here: nobody reads the log it appends to.                               *)
(***************************************************************************)
EXTENDS SimulatedServices, Sequences, FiniteSets, Functions

CONSTANTS
    NoKey,        \* an absent record
    Size,         \* requests of the workload, each run by one worker
    Cells,        \* [scenario, crash, concurrency] of a run
    MaxAttempts   \* RetryPolicy.max_attempts

Requests == 1 .. Size

VARIABLES
    crash,     \* crash_at of every execution of the run, fixed
    concurrency, \* max_workers of the pool, fixed
    records,   \* records[k]: the record object of key k
    created,   \* keys in the order of the dict StateStore.records
    lock,      \* requests inside execution_lock, at most one
    pc,        \* pc[w]: what the worker of request w does next
    on,        \* on[w]: key of the record under work
    phase,     \* phase[w]: "execute" or "recover"
    attempts,  \* attempts[w]: of RetryPolicy.run
    queue,     \* queue[w]: keys of intermediate_records still to recover
    answer,    \* answer[w]: key of the record execute_one reports
    outcome    \* outcome[w]: the state it reports

run == <<crash, concurrency>>
vars == <<simulated, run, records, created, lock, pc, on, phase, attempts, queue,
          answer, outcome>>

Terminals == {"COMPLETED", "COMPENSATED", "FAILED"}
States == {"STARTED", "CART_CREATED", "ORDER_CREATED", "PAYMENT_PENDING",
           "PAYMENT_COMPLETED", "COMPENSATING"} \cup Terminals
Record == [state : States \cup {"NONE"}, order : BOOLEAN, payment : BOOLEAN]
NoRecord == [state |-> "NONE", order |-> FALSE, payment |-> FALSE]

Boundaries == {"none", "after_cart", "after_order", "during_payment"}

ASSUME SimulationAssumption ==
    /\ Size \in Nat /\ Requests \subseteq Keys
    /\ NoKey \notin Keys
    /\ MaxAttempts \in Nat \ {0}
    /\ Cells \subseteq [scenario : Scenarios, crash : Boundaries, concurrency : Nat]

(* _crash_boundary: the runner derives crash_at from the scenario          *)
CrashBoundary(sc) ==
    CASE sc = "interruption-after-cart" -> "after_cart"
      [] sc = "f9-interruption-after-order" -> "after_order"
      [] sc = "interruption-during-payment" -> "during_payment"
      [] OTHER -> "none"
RunnerCells(workers) ==
    {[scenario |-> sc, crash |-> CrashBoundary(sc), concurrency |-> workers] : sc \in Scenarios}

(* _build_workload: a key per request, the same for two successive ones in *)
(* the duplicate scenarios                                                 *)
KeyOf(w) ==
    IF scenario \in {"f7-duplicate", "f8-concurrent-duplicate"} THEN (w + 1) \div 2 ELSE w

Working == {"cart", "cart_set", "item", "order", "order_lookup", "order_call",
            "order_set", "pending", "pending_set", "pay", "pay_lookup", "pay_call",
            "pay_set", "complete", "complete_set", "failed", "cancel", "cancel_set",
            "recover", "next", "report", "escaped"}

TypeOK ==
    /\ ServicesTypeOK
    /\ crash \in Boundaries
    /\ concurrency \in Nat
    /\ records \in [Keys -> Record]
    /\ created \in Seq(Keys) /\ queue \in [Requests -> SUBSET Keys]
    /\ lock \subseteq Requests /\ Cardinality(lock) <= 1
    /\ pc \in [Requests -> Working \cup {"idle", "done"}]
    /\ on \in [Requests -> Keys \cup {NoKey}]
    /\ phase \in [Requests -> {"execute", "recover"}]
    /\ attempts \in [Requests -> 0 .. MaxAttempts - 1]
    /\ answer \in [Requests -> Keys \cup {NoKey}]
    /\ outcome \in [Requests -> States \cup {"NONE"}]

Init ==
    /\ \E c \in Cells :
          scenario = c.scenario /\ crash = c.crash /\ concurrency = c.concurrency
    /\ ServicesInit
    /\ records = [k \in Keys |-> NoRecord]
    /\ created = <<>>
    /\ lock = {}
    /\ pc = [w \in Requests |-> "idle"]
    /\ on = [w \in Requests |-> NoKey]
    /\ phase = [w \in Requests |-> "execute"]
    /\ attempts = [w \in Requests |-> 0]
    /\ queue = [w \in Requests |-> {}]
    /\ answer = [w \in Requests |-> NoKey]
    /\ outcome = [w \in Requests |-> "NONE"]

-----------------------------------------------------------------------------
State(w) == records[on[w]].state
Executing(w) == phase[w] = "execute"

Goto(w, next) == pc' = [pc EXCEPT ![w] = next]
Branch(w, condition, yes, no) == Goto(w, IF condition THEN yes ELSE no)

Steady == UNCHANGED <<run, created, on, phase, queue, answer, outcome>>

(* assignments to the record object                                        *)
SetState(w, s) == records' = [records EXCEPT ![on[w]].state = s]

(* A faulty variant: a transient failure is always tried again.            *)
RetriedForEver(w, reply, again, raised) ==
    /\ attempts' = [attempts EXCEPT ![w] = 0]
    /\ Branch(w, reply = "transient", again, raised)

(* A faulty variant: one attempt more than max_attempts.                   *)
RetriedOnceMore(w, reply, again, raised) ==
    LET more == reply = "transient" /\ attempts[w] + 1 <= MaxAttempts
    IN  /\ attempts' = [attempts EXCEPT ![w] = IF more THEN @ + 1 ELSE 0]
        /\ Branch(w, more, again, raised)

(* RetryPolicy.run: the next attempt, or the exception leaves it           *)
Retried(w, reply, again, raised) ==
    LET more == reply = "transient" /\ attempts[w] + 1 < MaxAttempts
    IN  /\ attempts' = [attempts EXCEPT ![w] = IF more THEN @ + 1 ELSE 0]
        /\ Branch(w, more, again, raised)

Succeeded(w, next) == attempts' = [attempts EXCEPT ![w] = 0] /\ Goto(w, next)

(* A call under RetryPolicy: the operation starts over from "again".       *)
Settle(w, reply, next, again, raised) ==
    \/ reply = "ok" /\ Succeeded(w, next)
    \/ reply # "ok" /\ Retried(w, reply, again, raised)

(* execute() returns or raises: the lock is released                       *)
Leave(w, next) == lock' = lock \ {w} /\ Goto(w, next)

-----------------------------------------------------------------------------
(* _execute_locked; the steps of orders and payments serve recover() too.  *)

(* A faulty variant: the key is not looked up, every request starts anew.  *)
BeginAnew(w) ==
    /\ pc[w] = "idle" /\ lock = {}
    /\ on' = [on EXCEPT ![w] = KeyOf(w)]
    /\ lock' = {w}
    /\ records' = [records EXCEPT ![KeyOf(w)] = [NoRecord EXCEPT !.state = "STARTED"]]
    /\ created' = IF records[KeyOf(w)] = NoRecord THEN Append(created, KeyOf(w)) ELSE created
    /\ Goto(w, "cart")
    /\ UNCHANGED <<simulated, run, phase, attempts, queue, answer, outcome>>

(* The pool takes the requests in their order, one per idle worker.        *)
Taken(w) == Cardinality({v \in 1 .. w - 1 : pc[v] # "done"}) < concurrency

(* A finished record is returned, else the record is registered.           *)
Begin(w) ==
    /\ pc[w] = "idle" /\ lock = {}
    /\ Taken(w)
    /\ on' = [on EXCEPT ![w] = KeyOf(w)]
    /\ LET k == KeyOf(w)
       IN  \/ /\ records[k].state \in Terminals
              /\ answer' = [answer EXCEPT ![w] = k]
              /\ Goto(w, "report")
              /\ UNCHANGED <<lock, records, created>>
           \/ /\ records[k].state \notin Terminals
              /\ lock' = {w}
              /\ IF records[k] = NoRecord
                 THEN /\ records' = [records EXCEPT ![k].state = "STARTED"]
                      /\ created' = Append(created, k)
                 ELSE UNCHANGED <<records, created>>
              /\ Goto(w, "cart")
              /\ UNCHANGED answer
    /\ UNCHANGED <<simulated, run, phase, attempts, queue, outcome>>

(* _create_cart_idempotently; nobody else creates the cart of this key     *)
Cart(w) ==
    /\ pc[w] = "cart"
    /\ \/ /\ State(w) # "STARTED"
          /\ Goto(w, "order")
          /\ UNCHANGED <<simulated, attempts>>
       \/ /\ State(w) = "STARTED" /\ on[w] \in carts
          /\ Succeeded(w, "cart_set")
          /\ UNCHANGED simulated
       \/ /\ State(w) = "STARTED" /\ on[w] \notin carts
          /\ \E reply \in Replies : CreateCart(on[w], reply)
                                    /\ Settle(w, reply, "cart_set", "cart", "failed")
    /\ UNCHANGED <<records, lock>> /\ Steady

SetCart(w) ==
    /\ pc[w] = "cart_set"
    /\ SetState(w, "CART_CREATED")
    /\ IF crash = "after_cart" THEN Leave(w, "recover") ELSE Goto(w, "item") /\ UNCHANGED lock
    /\ UNCHANGED <<simulated, attempts>> /\ Steady

Item(w) ==
    /\ pc[w] = "item"
    /\ AddItem(on[w])
    /\ Goto(w, "order")
    /\ UNCHANGED <<records, lock, attempts>> /\ Steady

(* the block of CART_CREATED                                               *)
CheckOrder(w) ==
    /\ pc[w] = "order"
    /\ Branch(w, State(w) = "CART_CREATED", "order_lookup", "pending")
    /\ UNCHANGED <<simulated, records, lock, attempts>> /\ Steady

(* A faulty variant: the cart of the transaction stands for its order.     *)
LookupOrderFindsCart(w) ==
    /\ pc[w] = "order_lookup"
    /\ Branch(w, on[w] \in carts, "order_set", "order_call")
    /\ UNCHANGED <<simulated, records, lock, attempts>> /\ Steady

LookupOrder(w) ==
    /\ pc[w] = "order_lookup"
    /\ \/ orders[on[w]] # "NONE" /\ Succeeded(w, "order_set")
       \/ orders[on[w]] = "NONE" /\ Goto(w, "order_call") /\ UNCHANGED attempts
    /\ UNCHANGED <<simulated, records, lock>> /\ Steady

(* recover() creates the order outside RetryPolicy and outside its try     *)
CallOrder(w) ==
    /\ pc[w] = "order_call"
    /\ \E reply \in Replies :
          /\ CreateOrder(on[w], reply)
          /\ \/ Executing(w) /\ Settle(w, reply, "order_set", "order_lookup", "failed")
             \/ ~ Executing(w) /\ reply = "ok" /\ Succeeded(w, "order_set")
             \/ ~ Executing(w) /\ reply # "ok" /\ Succeeded(w, "escaped")
    /\ UNCHANGED <<records, lock>> /\ Steady

SetOrder(w) ==
    /\ pc[w] = "order_set"
    /\ records' = [records EXCEPT ![on[w]].order = TRUE, ![on[w]].state = "ORDER_CREATED"]
    /\ IF Executing(w) /\ crash = "after_order"
       THEN Leave(w, "recover") ELSE Goto(w, "pending") /\ UNCHANGED lock
    /\ UNCHANGED <<simulated, attempts>> /\ Steady

CheckPending(w) ==
    /\ pc[w] = "pending"
    /\ Branch(w, State(w) = "ORDER_CREATED" \/ (~ Executing(w) /\ State(w) = "PAYMENT_PENDING"),
              "pending_set", IF Executing(w) THEN "pay" ELSE "next")
    /\ UNCHANGED <<simulated, records, lock, attempts>> /\ Steady

SetPending(w) ==
    /\ pc[w] = "pending_set"
    /\ SetState(w, "PAYMENT_PENDING")
    /\ Goto(w, IF Executing(w) THEN "pay" ELSE "pay_lookup")
    /\ UNCHANGED <<simulated, lock, attempts>> /\ Steady

CheckPay(w) ==
    /\ pc[w] = "pay"
    /\ Branch(w, State(w) = "PAYMENT_PENDING",
              IF crash = "during_payment" THEN "pay_call" ELSE "pay_lookup", "complete")
    /\ UNCHANGED <<simulated, records, lock, attempts>> /\ Steady

LookupPay(w) ==
    /\ pc[w] = "pay_lookup"
    /\ \/ on[w] \in payments /\ Succeeded(w, "pay_set")
       \/ on[w] \notin payments /\ Goto(w, "pay_call") /\ UNCHANGED attempts
    /\ UNCHANGED <<simulated, records, lock>> /\ Steady

(* _execute_payment_idempotently, or the bare call before the interruption *)
CallPay(w) ==
    /\ pc[w] = "pay_call"
    /\ \E reply \in Replies :
          /\ ExecutePayment(on[w], reply)
          /\ IF Executing(w) /\ crash = "during_payment"
             THEN /\ IF reply = "ok" THEN Leave(w, "recover") ELSE Goto(w, "failed") /\ UNCHANGED lock
                  /\ UNCHANGED attempts
             ELSE /\ Settle(w, reply, "pay_set", "pay_lookup", "failed")
                  /\ UNCHANGED lock
    /\ UNCHANGED records /\ Steady

SetPay(w) ==
    /\ pc[w] = "pay_set"
    /\ records' = [records EXCEPT
           ![on[w]].payment = TRUE,
           ![on[w]].state = IF Executing(w) THEN "PAYMENT_COMPLETED" ELSE "COMPLETED"]
    /\ IF Executing(w)
       THEN Goto(w, "complete") /\ UNCHANGED answer
       ELSE Goto(w, "next") /\ answer' = [answer EXCEPT ![w] = on[w]]
    /\ UNCHANGED <<simulated, run, created, lock, on, phase, attempts, queue, outcome>>

(* execute() returns its record                                            *)
Finish(w) == Leave(w, "report") /\ answer' = [answer EXCEPT ![w] = on[w]]

CheckComplete(w) ==
    /\ pc[w] = "complete"
    /\ IF State(w) = "PAYMENT_COMPLETED"
       THEN Goto(w, "complete_set") /\ UNCHANGED <<lock, answer>>
       ELSE Finish(w)
    /\ UNCHANGED <<simulated, run, records, created, on, phase, attempts, queue, outcome>>

Complete(w) ==
    /\ pc[w] = "complete_set"
    /\ SetState(w, "COMPLETED")
    /\ Finish(w)
    /\ UNCHANGED <<simulated, run, created, on, phase, attempts, queue, outcome>>

-----------------------------------------------------------------------------
(* the except blocks: compensation                                         *)

(* A faulty variant: the order of the failed payment is left alone.        *)
FailedKeepsOrder(w) ==
    /\ pc[w] = "failed"
    /\ SetState(w, IF Executing(w) THEN "FAILED" ELSE "COMPENSATED")
    /\ IF Executing(w) THEN Finish(w)
       ELSE Goto(w, "next") /\ answer' = [answer EXCEPT ![w] = on[w]] /\ UNCHANGED lock
    /\ UNCHANGED <<simulated, run, created, on, phase, attempts, queue, outcome>>

(* without an order execute() gives up, recover() calls it compensated     *)
Failed(w) ==
    /\ pc[w] = "failed"
    /\ IF records[on[w]].order \/ ~ Executing(w)
       THEN /\ SetState(w, "COMPENSATING")
            /\ Branch(w, records[on[w]].order, "cancel", "cancel_set")
            /\ UNCHANGED <<lock, answer>>
       ELSE SetState(w, "FAILED") /\ Finish(w)
    /\ UNCHANGED <<simulated, run, created, on, phase, attempts, queue, outcome>>

(* InjectedFailure out of an except block is a RuntimeError to the runner: *)
(* an execution with a crash boundary is then recovered, else nothing is.  *)
Cancel(w) ==
    /\ pc[w] = "cancel"
    /\ \E reply \in Replies :
          /\ CancelOrder(on[w], reply)
          /\ Settle(w, reply, "cancel_set", "cancel",
                    IF Executing(w) /\ crash # "none" THEN "recover" ELSE "escaped")
    /\ lock' = IF pc'[w] \in {"recover", "escaped"} THEN lock \ {w} ELSE lock
    /\ UNCHANGED records /\ Steady

SetCancelled(w) ==
    /\ pc[w] = "cancel_set"
    /\ SetState(w, "COMPENSATED")
    /\ IF Executing(w) THEN Finish(w)
       ELSE Goto(w, "next") /\ answer' = [answer EXCEPT ![w] = on[w]] /\ UNCHANGED lock
    /\ UNCHANGED <<simulated, run, created, on, phase, attempts, queue, outcome>>

-----------------------------------------------------------------------------
(* recover() by an interrupted worker: a snapshot of the records that are  *)
(* not terminal, one after the other in the order of the dict; the last    *)
(* one it finished is answered.                                            *)

Intermediate == {k \in Range(created) : records[k].state \notin Terminals}

Recover(w) ==
    /\ pc[w] = "recover"
    /\ queue' = [queue EXCEPT ![w] = Intermediate]
    /\ phase' = [phase EXCEPT ![w] = "recover"]
    /\ Goto(w, "next")
    /\ UNCHANGED <<simulated, run, records, created, lock, on, attempts, answer, outcome>>

Registered(j, k) == \E m, n \in DOMAIN created : m < n /\ created[m] = j /\ created[n] = k
First(keys) == {k \in keys : \A j \in keys : ~ Registered(j, k)}

(* A faulty variant: the first record is skipped.                          *)
NextSkips(w) ==
    /\ pc[w] = "next"
    /\ \/ queue[w] \subseteq First(queue[w]) /\ Goto(w, "report") /\ UNCHANGED <<on, queue>>
       \/ \E k \in First(queue[w] \ First(queue[w])) :
             /\ on' = [on EXCEPT ![w] = k]
             /\ queue' = [queue EXCEPT ![w] = @ \ (First(@) \cup {k})]
             /\ Goto(w, "order")
    /\ UNCHANGED <<simulated, run, records, created, lock, phase, attempts, answer, outcome>>

NextRecord(w) ==
    /\ pc[w] = "next"
    /\ \/ queue[w] = {} /\ Goto(w, "report") /\ UNCHANGED <<on, queue>>
       \/ \E k \in First(queue[w]) :
             /\ on' = [on EXCEPT ![w] = k]
             /\ queue' = [queue EXCEPT ![w] = @ \ {k}]
             /\ Goto(w, "order")
    /\ UNCHANGED <<simulated, run, records, created, lock, phase, attempts, answer, outcome>>

(* _result_from_record reads the record when everything else is over; the  *)
(* result of a request without one says FAILED.  An exception out of       *)
(* recover() loses the records it had finished.                            *)
Report(w) ==
    /\ pc[w] \in {"report", "escaped"}
    /\ answer' = [answer EXCEPT ![w] = IF pc[w] = "escaped" THEN NoKey ELSE @]
    /\ outcome' = [outcome EXCEPT ![w] = IF answer'[w] = NoKey THEN "FAILED"
                                         ELSE records[answer[w]].state]
    /\ Goto(w, "done")
    /\ UNCHANGED <<simulated, run, records, created, lock, on, phase, attempts, queue>>

Step(w) ==
    \/ Cart(w) \/ SetCart(w) \/ Item(w) \/ CheckOrder(w) \/ LookupOrder(w)
    \/ CallOrder(w) \/ SetOrder(w) \/ CheckPending(w) \/ SetPending(w)
    \/ CheckPay(w) \/ LookupPay(w) \/ CallPay(w) \/ SetPay(w)
    \/ CheckComplete(w) \/ Complete(w) \/ Failed(w) \/ Cancel(w) \/ SetCancelled(w)
    \/ Recover(w) \/ NextRecord(w) \/ Report(w)

Next == \E w \in Requests : Begin(w) \/ Step(w)

Spec == Init /\ [][Next]_vars

(* The pool runs every request; a thread waiting for execution_lock gets   *)
(* it at the latest when the other requests are done.                      *)
FairSpec == Spec /\ \A w \in Requests : WF_vars(Begin(w) \/ Step(w))
=============================================================================
