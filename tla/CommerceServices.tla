-------------------------- MODULE CommerceServices --------------------------
(***************************************************************************)
(* The three stateful services the orchestrator calls over HTTP: cart,     *)
(* order and payment (CartController, OrderController, PaymentController), *)
(* with the failure injection each of them carries (FailureInjection).     *)
(*                                                                         *)
(* Every identifier the services make is a function of the transaction     *)
(* identifier ("cart-" + tx, "order-" + tx, "payment-" + tx), so a table   *)
(* is a function from transactions to rows, its primary key.  A row keeps  *)
(* the idempotency key it was inserted with, because the inspection        *)
(* endpoints select by that key and not by the transaction.  Customer,     *)
(* amount and currency are not modelled: no decision depends on them.      *)
(***************************************************************************)
EXTENDS Naturals, FiniteSets

CONSTANTS
    Keys,      \* idempotency keys
    Txs,       \* transaction identifiers
    NoKey      \* the key of a row that does not exist

ASSUME ServicesAssumption == NoKey \notin Keys

VARIABLES
    carts,     \* carts[t]: the key of row "cart-t", NoKey when there is no such row
    orders,    \* orders[t]: row "order-t", its key and its status
    payments,  \* payments[t]: the key of row "payment-t"
    attempts,  \* attempts[op][t]: attemptsByKey of the service handling op, in memory
    selected   \* transactions for which shouldFail(rate, seed, tx, op) is true

services == <<carts, orders, payments, attempts, selected>>

Operations == {"create_cart", "create_order", "execute_payment", "cancel_order"}

(* The scenarios the services or the orchestrator react to.  The others    *)
(* (f7 ordering, f8 duplicates) are produced by the callers.               *)
NoFailure == "f0-no-failure"
Scenarios ==
    {NoFailure, "f1-cart-http-500", "f2-order-http-500", "f3-payment-http-500",
     "f4-payment-timeout-before-side-effect", "f5-payment-succeeds-response-lost",
     "f6-order-succeeds-response-lost", "f9-orchestrator-interruption-after-order",
     "f10-payment-permanently-fails", "f11-transient-payment-failure-recovery",
     "f12-compensation-failure-retry", "cart-persisted-response-lost"}

OrderRow == [key : Keys \cup {NoKey}, status : {"NONE", "ACTIVE", "CANCELLED"}]
NoOrder == [key |-> NoKey, status |-> "NONE"]

(* Attempt counters are compared with 1 and 2 only: they saturate here.    *)
AttemptsCap == 3
CountedOperations == {"execute_payment", "cancel_order"}

ServicesTypeOK ==
    /\ carts \in [Txs -> Keys \cup {NoKey}]
    /\ orders \in [Txs -> OrderRow]
    /\ payments \in [Txs -> Keys \cup {NoKey}]
    /\ attempts \in [CountedOperations -> [Txs -> 0 .. AttemptsCap]]
    /\ selected \subseteq Txs

ServicesInit ==
    /\ carts = [t \in Txs |-> NoKey]
    /\ orders = [t \in Txs |-> NoOrder]
    /\ payments = [t \in Txs |-> NoKey]
    /\ attempts = [op \in CountedOperations |-> [t \in Txs |-> 0]]
    /\ selected \in SUBSET Txs

-----------------------------------------------------------------------------
(* Failure injection.  "Before" faults abandon the request before its SQL  *)
(* statement, "after" faults sleep past the client's 500 ms once the       *)
(* statement has committed.                                                *)

InjectedError == {<<"create_cart", "f1-cart-http-500">>,
                  <<"create_order", "f2-order-http-500">>,
                  <<"execute_payment", "f3-payment-http-500">>,
                  <<"execute_payment", "f10-payment-permanently-fails">>,
                  <<"execute_payment", "f12-compensation-failure-retry">>}

InjectedLoss == {<<"create_cart", "cart-persisted-response-lost">>,
                 <<"create_order", "f6-order-succeeds-response-lost">>,
                 <<"execute_payment", "f5-payment-succeeds-response-lost">>}

(* ResponseStatusException(INTERNAL_SERVER_ERROR)                          *)
Rejects(op, t, sc) == t \in selected /\ <<op, sc>> \in InjectedError

(* sleepPastClientTimeout before the statement, then 504                   *)
Stalls(op, t, sc) ==
    /\ t \in selected
    /\ <<op, sc>> = <<"execute_payment", "f4-payment-timeout-before-side-effect">>

(* the branches that count the attempt in attemptsByKey; the one of        *)
(* cancel_order does not consult shouldFail                                *)
Counts(op, t, sc) ==
    \/ /\ t \in selected
       /\ <<op, sc>> = <<"execute_payment", "f11-transient-payment-failure-recovery">>
    \/ <<op, sc>> = <<"cancel_order", "f12-compensation-failure-retry">>

FailingAttempts(op) == IF op = "execute_payment" THEN 2 ELSE 1

(* 503 until the operation has been attempted more than FailingAttempts    *)
Unavailable(op, t, sc) ==
    Counts(op, t, sc) /\ attempts[op][t] + 1 <= FailingAttempts(op)

Count(op, t, sc) ==
    attempts' = IF Counts(op, t, sc) /\ attempts[op][t] < AttemptsCap
                THEN [attempts EXCEPT ![op][t] = @ + 1]
                ELSE attempts

(* FailureInjection.before returns normally                                *)
Passes(op, t, sc) ==
    ~ Rejects(op, t, sc) /\ ~ Stalls(op, t, sc) /\ ~ Unavailable(op, t, sc)

(* What the client of a handler sees when nothing but the injection        *)
(* disturbs the call: "timeout" is a ResourceAccessException, "http500"    *)
(* any status the client does not retry, "http503" SERVICE_UNAVAILABLE.    *)
(* A cancellation of an order without a row fails in queryForObject.       *)
Reply(op, t, sc) ==
    CASE Rejects(op, t, sc) -> "http500"
      [] Stalls(op, t, sc) -> "timeout"
      [] Unavailable(op, t, sc) -> "http503"
      [] op = "cancel_order" /\ Passes(op, t, sc) /\ orders[t].status = "NONE" -> "http500"
      [] t \in selected /\ <<op, sc>> \in InjectedLoss -> "timeout"
      [] OTHER -> "ok"

-----------------------------------------------------------------------------
(* The handlers.                                                           *)

(* insert into carts ... on conflict (cart_id) do nothing                  *)
CreateCart(k, t, sc) ==
    /\ carts' = IF Passes("create_cart", t, sc) /\ carts[t] = NoKey
                THEN [carts EXCEPT ![t] = k] ELSE carts
    /\ UNCHANGED <<orders, payments, attempts, selected>>

(* A faulty variant: "on conflict (order_id) do update set status".        *)
CreateOrderUpserts(k, t, sc) ==
    /\ orders' = IF Passes("create_order", t, sc)
                 THEN [orders EXCEPT ![t] = [key |-> k, status |-> "ACTIVE"]] ELSE orders
    /\ UNCHANGED <<carts, payments, attempts, selected>>

(* insert into orders ... 'ACTIVE' on conflict (order_id) do nothing       *)
CreateOrder(k, t, sc) ==
    /\ orders' = IF Passes("create_order", t, sc) /\ orders[t].status = "NONE"
                 THEN [orders EXCEPT ![t] = [key |-> k, status |-> "ACTIVE"]] ELSE orders
    /\ UNCHANGED <<carts, payments, attempts, selected>>

(* update orders set status = 'CANCELLED' where order_id = ?               *)
CancelOrder(t, sc) ==
    /\ Count("cancel_order", t, sc)
    /\ orders' = IF Passes("cancel_order", t, sc) /\ orders[t].status # "NONE"
                 THEN [orders EXCEPT ![t].status = "CANCELLED"] ELSE orders
    /\ UNCHANGED <<carts, payments, selected>>

(* insert into payments ... 'SUCCEEDED' on conflict (payment_id) do nothing; *)
(* the handler looks at no order row                                       *)
ExecutePayment(k, t, sc) ==
    /\ Count("execute_payment", t, sc)
    /\ payments' = IF Passes("execute_payment", t, sc) /\ payments[t] = NoKey
                   THEN [payments EXCEPT ![t] = k] ELSE payments
    /\ UNCHANGED <<carts, orders, selected>>

(* A request is handled: the handler of its operation runs to its end.     *)
Serve(op, k, t, sc) ==
    \/ op = "create_cart" /\ CreateCart(k, t, sc)
    \/ op = "create_order" /\ CreateOrder(k, t, sc)
    \/ op = "execute_payment" /\ ExecutePayment(k, t, sc)
    \/ op = "cancel_order" /\ CancelOrder(t, sc)

(* A faulty variant: the payment check reads the order count.              *)
InspectMiscounts(op, k) ==
    CASE op = "create_cart" -> \E t \in Txs : carts[t] = k
      [] OTHER -> \E t \in Txs : orders[t].key = k

(* GET /inspect/idempotency/{key} of the three services: does the count    *)
(* the caller reads exceed zero?                                           *)
Inspect(op, k) ==
    CASE op = "create_cart" -> \E t \in Txs : carts[t] = k
      [] op = "create_order" -> \E t \in Txs : orders[t].key = k
      [] op = "execute_payment" -> \E t \in Txs : payments[t] = k

-----------------------------------------------------------------------------
(* The services on their own: any client, any request, any order.          *)

ServicesNext ==
    \E op \in Operations, k \in Keys, t \in Txs, sc \in Scenarios : Serve(op, k, t, sc)

ServicesSpec == ServicesInit /\ [][ServicesNext]_services

(* A row keeps the key of the call that created it, no row disappears, and *)
(* a cancelled order stays cancelled.                                      *)
EffectsKept ==
    \A t \in Txs :
        /\ carts[t] # NoKey => carts'[t] = carts[t]
        /\ payments[t] # NoKey => payments'[t] = payments[t]
        /\ orders[t].status # "NONE" => /\ orders'[t].key = orders[t].key
                                        /\ orders'[t].status # "NONE"
        /\ orders[t].status = "CANCELLED" => orders'[t].status = "CANCELLED"

(* What a repeated, reordered or late call may never do: take an effect    *)
(* back, hand it to another key, or activate a cancelled order again,      *)
(* whatever is replayed at the services (the "on conflict do nothing" of   *)
(* the three inserts).                                                     *)
EffectsArePermanent == [][EffectsKept]_services
=============================================================================
