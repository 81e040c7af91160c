------------------------- MODULE SimulatedServices -------------------------
(***************************************************************************)
(* The in-process services of the simulation backend (services.py) with    *)
(* the failure injector every call passes through (failures.py).  Unlike   *)
(* the real services they overwrite: creating an order again replaces the  *)
(* object, whatever its status was.                                        *)
(*                                                                         *)
(* Identifiers are functions of the transaction, and the resilient         *)
(* orchestrator draws one fresh transaction per idempotency key, so an     *)
(* effect is named by its key.  The seeded random numbers of _maybe_raise  *)
(* are a free choice.                                                      *)
(***************************************************************************)
EXTENDS Naturals

CONSTANT Keys

VARIABLES
    carts,     \* keys with a cart
    items,     \* items[k]: items in the cart of k
    orders,    \* orders[k]: status of the order of k
    payments,  \* keys with a payment
    counts,    \* counts[op][k]: operation_counts, for the counted operations
    scenario   \* of the run, fixed

simulated == <<carts, items, orders, payments, counts, scenario>>

Scenarios ==
    {"f0", "f1-cart-http-500", "f2-order-http-500", "f3-payment-http-500",
     "f4-payment-timeout", "f5-payment-response-lost", "f6-order-response-lost",
     "f7-duplicate", "f8-concurrent-duplicate", "f9-interruption-after-order",
     "f10-payment-permanently-fails", "f11-transient-payment", "f12-compensation-retry",
     "cart-response-lost", "order-failure", "payment-response-lost",
     "interruption-after-cart", "interruption-during-payment"}

Replies == {"ok", "transient", "permanent"}
ItemsCap == 2
CountsCap == 3

ServicesInit ==
    /\ carts = {} /\ payments = {}
    /\ items = [k \in Keys |-> 0]
    /\ orders = [k \in Keys |-> "NONE"]
    /\ counts = [op \in {"execute_payment", "cancel_order"} |-> [k \in Keys |-> 0]]

ServicesTypeOK ==
    /\ carts \subseteq Keys /\ payments \subseteq Keys
    /\ items \in [Keys -> 0 .. ItemsCap]
    /\ orders \in [Keys -> {"NONE", "ACTIVE", "CANCELLED"}]
    /\ counts \in [{"execute_payment", "cancel_order"} -> [Keys -> 0 .. CountsCap]]
    /\ scenario \in Scenarios

-----------------------------------------------------------------------------
(* _maybe_raise of before_operation, not transient                         *)
Permanent == {<<"create_cart", "f1-cart-http-500">>,
              <<"create_order", "f2-order-http-500">>,
              <<"create_order", "order-failure">>,
              <<"execute_payment", "f3-payment-http-500">>,
              <<"execute_payment", "f10-payment-permanently-fails">>,
              <<"execute_payment", "f12-compensation-retry">>}

Lossy == {<<"create_cart", "cart-response-lost">>,
          <<"create_order", "f6-order-response-lost">>,
          <<"execute_payment", "f5-payment-response-lost">>,
          <<"execute_payment", "payment-response-lost">>}

(* before_operation: the first attempts of a counted operation fail        *)
Before(op, k) ==
    CASE <<op, scenario>> \in Permanent -> {"ok", "permanent"}
      [] <<op, scenario>> = <<"execute_payment", "f4-payment-timeout">> -> {"ok", "transient"}
      [] <<op, scenario>> = <<"execute_payment", "f11-transient-payment">> ->
            {IF counts[op][k] + 1 <= 2 THEN "transient" ELSE "ok"}
      [] <<op, scenario>> = <<"cancel_order", "f12-compensation-retry">> ->
            {IF counts[op][k] + 1 = 1 THEN "transient" ELSE "ok"}
      [] OTHER -> {"ok"}

(* after_operation: the effect is there, the response is lost              *)
After(op) == IF <<op, scenario>> \in Lossy THEN {"ok", "transient"} ELSE {"ok"}

(* One call of op for k answers reply; done tells if its effect took place *)
Answered(op, k, reply, done) ==
    \/ ~ done /\ reply \in Before(op, k) \ {"ok"}
    \/ done /\ "ok" \in Before(op, k) /\ reply \in After(op)

Count(op, k) ==
    counts' = IF counts[op][k] < CountsCap THEN [counts EXCEPT ![op][k] = @ + 1] ELSE counts

CreateCart(k, reply) == \E done \in BOOLEAN :
    /\ Answered("create_cart", k, reply, done)
    /\ carts' = IF done THEN carts \cup {k} ELSE carts
    /\ items' = IF done THEN [items EXCEPT ![k] = 0] ELSE items
    /\ UNCHANGED <<orders, payments, counts, scenario>>

AddItem(k) ==
    /\ items' = [items EXCEPT ![k] = IF @ < ItemsCap THEN @ + 1 ELSE @]
    /\ UNCHANGED <<carts, orders, payments, counts, scenario>>

CreateOrder(k, reply) == \E done \in BOOLEAN :
    /\ Answered("create_order", k, reply, done)
    /\ orders' = IF done THEN [orders EXCEPT ![k] = "ACTIVE"] ELSE orders
    /\ UNCHANGED <<carts, items, payments, counts, scenario>>

ExecutePayment(k, reply) == \E done \in BOOLEAN :
    /\ Answered("execute_payment", k, reply, done)
    /\ Count("execute_payment", k)
    /\ payments' = IF done THEN payments \cup {k} ELSE payments
    /\ UNCHANGED <<carts, items, orders, scenario>>

CancelOrder(k, reply) == \E done \in BOOLEAN :
    /\ Answered("cancel_order", k, reply, done)
    /\ Count("cancel_order", k)
    /\ orders' = IF done /\ orders[k] # "NONE" THEN [orders EXCEPT ![k] = "CANCELLED"] ELSE orders
    /\ UNCHANGED <<carts, items, payments, scenario>>
=============================================================================
