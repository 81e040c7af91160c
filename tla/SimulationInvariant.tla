------------------------ MODULE SimulationInvariant ------------------------
(***************************************************************************)
(* The invariants the proofs of SimulationProperties rest on: what the     *)
(* place of a worker means for the record it works on and for the effects  *)
(* of its key.                                                             *)
(***************************************************************************)
EXTENDS SimulationProperties

(* Places of a worker that has a record in its hands                       *)
OnRecord ==
    {"cart", "cart_set", "item", "order", "order_lookup", "order_call", "order_set",
     "pending", "pending_set", "pay", "pay_lookup", "pay_call", "pay_set", "complete",
     "complete_set", "failed", "cancel", "cancel_set"}

(* Those it reaches only when the cart of the record is there              *)
Beyond ==
    {"item", "order_lookup", "order_call", "order_set", "pending_set", "pay_lookup",
     "pay_call", "pay_set", "complete_set", "cancel", "cancel_set"}

(* Those of an execution alone, and with a call under RetryPolicy          *)
Execution == {"idle", "cart", "cart_set", "item", "pay", "complete", "complete_set", "recover"}
Retrying == {"cart", "order_lookup", "order_call", "pay_lookup", "pay_call", "cancel"}

-----------------------------------------------------------------------------
(* What a worker is doing agrees with the lock, its phase and its record.  *)
Placed(w) ==
    /\ w \in lock <=> pc[w] \in OnRecord /\ Executing(w)
    /\ pc[w] \in Execution => Executing(w)
    /\ pc[w] = "next" => ~ Executing(w)
    /\ pc[w] # "idle" => on[w] \in Keys /\ State(w) # "NONE"
    /\ Executing(w) /\ pc[w] # "idle" => on[w] = KeyOf(w)
    /\ attempts[w] # 0 => pc[w] \in Retrying
    /\ Executing(w) /\ crash = "during_payment"
          => pc[w] # "pay_lookup" /\ (pc[w] = "pay_call" => attempts[w] = 0)
    /\ \A k \in queue[w] : records[k].state # "NONE"

(* A record that is started has no effect but its cart, one of each kind   *)
(* at most, and its order is on record when it is past them.               *)
Founded(k) ==
    LET s == records[k].state
    IN  /\ s = "NONE" => k \notin carts
        /\ s \in {"NONE", "STARTED"} => items[k] = 0 /\ orders[k] = "NONE"
        /\ s \notin {"NONE", "STARTED", "FAILED"} => k \in carts
        /\ records[k].order <=> s \notin {"NONE", "STARTED", "CART_CREATED", "FAILED"}
        /\ k \in payments => records[k].order
        /\ items[k] <= 1
        /\ s # "NONE" <=> k \in Range(created)

(* What the place of a worker says of the cart of its record               *)
CartKnown(w) ==
    /\ pc[w] \in Beyond => State(w) \notin {"NONE", "STARTED"} /\ on[w] \in carts
    /\ pc[w] = "cart_set" => State(w) = "STARTED" /\ on[w] \in carts
    /\ pc[w] = "cart" /\ attempts[w] # 0 => State(w) = "STARTED"
    /\ pc[w] = "item" => items[on[w]] = 0
    /\ pc[w] = "failed" => (State(w) = "STARTED" /\ Executing(w)) \/ on[w] \in carts

Discipline ==
    /\ \A w \in Requests : Placed(w) /\ CartKnown(w)
    /\ \A k \in Keys : Founded(k)

-----------------------------------------------------------------------------
(* Runs in which no two workers have a record in their hands               *)

Busy(w) == pc[w] \in OnRecord \cup {"recover", "next"}

InTurn ==
    /\ crash = "none" => \A w \in Requests : Executing(w) /\ pc[w] # "recover"
    /\ concurrency = 1 =>
          \A w \in Requests : pc[w] # "idle" => \A v \in 1 .. w - 1 : pc[v] = "done"

Sequential == crash = "none" \/ concurrency = 1

(* Nobody writes the record between a check of worker w and what follows.  *)
Undisturbed(w) ==
    /\ pc[w] = "cart" => State(w) \notin Terminals
    /\ pc[w] \in {"item", "order_lookup", "order_call", "order_set"} => State(w) = "CART_CREATED"
    /\ pc[w] = "pending_set" => State(w) \in {"ORDER_CREATED", "PAYMENT_PENDING"}
    /\ pc[w] \in {"pay_lookup", "pay_call", "pay_set"} => State(w) = "PAYMENT_PENDING"
    /\ pc[w] = "complete_set" => State(w) = "PAYMENT_COMPLETED"
    /\ pc[w] = "failed" => State(w) \in {"STARTED", "CART_CREATED", "PAYMENT_PENDING"}
    /\ pc[w] \in {"cancel", "cancel_set"} => State(w) = "COMPENSATING"

Serial == InTurn /\ (Sequential => \A w \in Requests : Undisturbed(w))

(* The order of a transaction is where its record says.                    *)
OrderOf(k) ==
    LET s == records[k].state
    IN  /\ s = "FAILED" => orders[k] = "NONE"
        /\ s = "COMPENSATED" => orders[k] = "CANCELLED"
        /\ s \in {"ORDER_CREATED", "PAYMENT_PENDING", "PAYMENT_COMPLETED", "COMPLETED"}
              => orders[k] = "ACTIVE"
        /\ s = "CART_CREATED" => orders[k] # "CANCELLED"

OrderKnown(w) ==
    /\ pc[w] = "order_set" => orders[on[w]] = "ACTIVE"
    /\ pc[w] = "order_call" => orders[on[w]] = "NONE" /\ attempts[w] = 0
    /\ pc[w] = "order_lookup" /\ orders[on[w]] = "NONE" => attempts[w] = 0
    /\ pc[w] = "failed" /\ ~ records[on[w]].order => orders[on[w]] = "NONE"
    /\ pc[w] = "cancel_set" => orders[on[w]] = "CANCELLED"

OrdersFollow ==
    Sequential => (\A k \in Keys : OrderOf(k)) /\ \A w \in Requests : OrderKnown(w)

(* A payment that is answered, sooner or later, is never compensated.      *)
PaymentKnown(w) ==
    /\ pc[w] \in {"pay_call", "failed"} => on[w] \notin payments
    /\ pc[w] \in {"pay_lookup", "pay_call"} /\ attempts[w] # 0 /\ on[w] \notin payments
          => <<"execute_payment", scenario>> \notin Lossy
    /\ pc[w] = "cancel" /\ attempts[w] # 0 => counts["cancel_order"][on[w]] # 0

PaymentsFollow ==
    crash = "none" =>
        /\ \A w \in Requests : PaymentKnown(w) /\ pc[w] # "escaped"
        /\ \A k \in Keys : records[k].state \in {"COMPENSATING", "COMPENSATED"} => k \notin payments

-----------------------------------------------------------------------------
(* The runs of the programs at hand: the runner derives the boundary of an *)
(* interruption from the scenario, the tests pass any to a single worker.  *)
Driven == \A c \in Cells : c.crash = CrashBoundary(c.scenario) \/ c.concurrency = 1

(* The runs with an interruption: nothing fails in their scenarios.        *)

Interrupted == crash = CrashBoundary(scenario) /\ crash # "none"

Faultless ==
    Interrupted =>
        /\ \A w \in Requests : pc[w] \notin {"failed", "cancel", "cancel_set", "escaped"}
        /\ \A k \in Keys : /\ records[k].state \notin {"FAILED", "COMPENSATING", "COMPENSATED"}
                           /\ orders[k] # "CANCELLED"

(* Where a worker is that will carry the record of k on from state s       *)
Ahead(s) ==
    CASE s = "STARTED" -> {"cart", "cart_set", "failed"}
      [] s = "CART_CREATED" ->
            {"item", "order", "order_lookup", "order_call", "order_set", "failed", "recover"}
      [] s = "ORDER_CREATED" -> {"order", "pending", "pending_set", "recover"}
      [] s = "PAYMENT_PENDING" ->
            {"order", "pending", "pending_set", "pay", "pay_lookup", "pay_call", "pay_set",
             "failed", "recover"}
      [] s = "PAYMENT_COMPLETED" -> {"complete", "complete_set"}
      [] s = "COMPENSATING" -> {"cancel", "cancel_set"}
      [] OTHER -> {}

Owes(w, k) ==
    \/ on[w] = k /\ pc[w] \in Ahead(records[k].state)
    \/ /\ k \in queue[w]
       /\ ~ Executing(w) /\ pc[w] \in OnRecord \cup {"next"}
       /\ records[k].state \in {"CART_CREATED", "ORDER_CREATED", "PAYMENT_PENDING"}

(* A record that is not final is in somebody's hands.                      *)
Owed ==
    crash = CrashBoundary(scenario) =>
        \A k \in Keys : records[k].state \notin Terminals \cup {"NONE"} =>
                            \E w \in Requests : Owes(w, k)

(* A worker that is alone carries the record of its own request to its end. *)
Recoverable == {"CART_CREATED", "ORDER_CREATED", "PAYMENT_PENDING"}
Own(w) ==
    LET k == KeyOf(w)
        s == records[k].state
    IN  /\ pc[w] # "escaped"
        /\ pc[w] # "idle" => on[w] = k
        /\ Executing(w) =>
              /\ pc[w] = "cart" => s = "STARTED"
              /\ pc[w] = "order" => s = "CART_CREATED"
              /\ pc[w] = "pending" => s = "ORDER_CREATED"
              /\ pc[w] = "pay" => s = "PAYMENT_PENDING"
              /\ pc[w] = "complete" => s = "PAYMENT_COMPLETED"
              /\ pc[w] = "recover" => s \in Recoverable
        /\ ~ Executing(w) =>
              /\ queue[w] \subseteq {k}
              /\ pc[w] \in OnRecord => queue[w] = {}
              /\ pc[w] = "next" => s \in (IF queue[w] = {} THEN Terminals ELSE Recoverable)
              /\ pc[w] = "next" /\ queue[w] = {} => answer[w] = k
              /\ pc[w] = "order" => s \in Recoverable
              /\ pc[w] = "pending" => s \in {"ORDER_CREATED", "PAYMENT_PENDING"}
        /\ pc[w] = "report" => answer[w] = k /\ s \in Terminals
        /\ pc[w] = "done" => answer[w] = k /\ outcome[w] \in Terminals

OwnRecord ==
    concurrency = 1 /\ crash = CrashBoundary(scenario) => \A w \in Requests : Own(w)
=============================================================================
