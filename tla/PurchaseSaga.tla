---------------------------- MODULE PurchaseSaga ----------------------------
(***************************************************************************)
(* What the orchestrator promises about one purchase per idempotency key,  *)
(* whatever goes on behind it: effects come into being in the order cart,  *)
(* order, payment, while the purchase is open; it is closed once, by an    *)
(* outcome that states exactly what exists, and nothing moves afterwards.  *)
(***************************************************************************)
CONSTANT Keys

VARIABLES
    phase,  \* phase[k]: "none", "open", or the outcome
    cart,   \* cart[k]: is there a cart?
    order,  \* order[k]: "NONE", "ACTIVE" or "CANCELLED"
    paid    \* paid[k]: is there a successful payment?

vars == <<phase, cart, order, paid>>

Init ==
    /\ phase = [k \in Keys |-> "none"]
    /\ cart = [k \in Keys |-> FALSE]
    /\ order = [k \in Keys |-> "NONE"]
    /\ paid = [k \in Keys |-> FALSE]

Open(k) ==
    /\ phase[k] = "none"
    /\ phase' = [phase EXCEPT ![k] = "open"]
    /\ UNCHANGED <<cart, order, paid>>

FillCart(k) ==
    /\ phase[k] = "open"
    /\ cart' = [cart EXCEPT ![k] = TRUE]
    /\ UNCHANGED <<phase, order, paid>>

PlaceOrder(k) ==
    /\ phase[k] = "open" /\ cart[k] /\ order[k] = "NONE"
    /\ order' = [order EXCEPT ![k] = "ACTIVE"]
    /\ UNCHANGED <<phase, cart, paid>>

Pay(k) ==
    /\ phase[k] = "open" /\ order[k] = "ACTIVE"
    /\ paid' = [paid EXCEPT ![k] = TRUE]
    /\ UNCHANGED <<phase, cart, order>>

CancelOrder(k) ==
    /\ phase[k] = "open" /\ order[k] = "ACTIVE" /\ ~ paid[k]
    /\ order' = [order EXCEPT ![k] = "CANCELLED"]
    /\ UNCHANGED <<phase, cart, paid>>

Outcome(k) ==
    CASE order[k] = "ACTIVE" /\ paid[k] -> {"COMPLETED"}
      [] order[k] = "CANCELLED" /\ ~ paid[k] -> {"COMPENSATED", "FAILED"}
      [] order[k] = "NONE" /\ ~ paid[k] -> {"FAILED"}
      [] OTHER -> {}

Close(k) ==
    /\ phase[k] = "open"
    /\ \E outcome \in Outcome(k) : phase' = [phase EXCEPT ![k] = outcome]
    /\ UNCHANGED <<cart, order, paid>>

Next == \E k \in Keys : Open(k) \/ FillCart(k) \/ PlaceOrder(k) \/ Pay(k)
                        \/ CancelOrder(k) \/ Close(k)

Spec == Init /\ [][Next]_vars
=============================================================================
