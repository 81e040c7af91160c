---------------------------- MODULE BaselineFlow ----------------------------
(***************************************************************************)
(* The flows of TransactionService without a durable record: BASELINE and  *)
(* the corrected baselines C0 and C1.  Three calls in a row; the first     *)
(* exception ends the request, nothing is undone and nobody recovers.      *)
(* They differ in the transaction they run under: C0 draws a fresh one per *)
(* execution, the others derive it from the request, as transactionIdFor.  *)
(***************************************************************************)
EXTENDS CommerceServices

CONSTANTS
    NoTx,            \* transaction of a request that has not begun
    Requests,        \* POST /transactions requests, duplicates included
    Modes,           \* of {"BASELINE", "C0", "C1"}
    ScenarioChoices, \* X-Failure-Scenario of a run
    Lossy            \* may the network lose calls

ASSUME BaselineAssumption ==
    /\ NoTx \notin Txs
    /\ Modes \subseteq {"BASELINE", "C0", "C1"}
    /\ ScenarioChoices \subseteq Scenarios
    /\ Lossy \in BOOLEAN

VARIABLES
    mode,      \* of the run, fixed
    scenario,  \* of the run, fixed
    identity,  \* identity[k]: "tx-" + logicalTransactionId of the requests of k, fixed
    pc,        \* pc[w]: the call request w makes next, or how it ended
    key,       \* key[w]: Idempotency-Key of request w
    tx,        \* tx[w]: transactionId of its record
    net        \* requests their sender no longer waits for

run == <<mode, scenario, identity>>
vars == <<services, run, pc, key, tx, net>>

Ended == {"completed", "failed"}

TypeOK ==
    /\ ServicesTypeOK
    /\ mode \in Modes
    /\ scenario \in ScenarioChoices
    /\ identity \in [Keys -> Txs]
    /\ pc \in [Requests -> {"idle", "create_cart", "create_order", "execute_payment"} \cup Ended]
    /\ key \in [Requests -> Keys \cup {NoKey}]
    /\ tx \in [Requests -> Txs \cup {NoTx}]
    /\ net \subseteq [op : Operations, key : Keys, tx : Txs]

Init ==
    /\ ServicesInit
    /\ mode \in Modes
    /\ scenario \in ScenarioChoices
    /\ identity \in [Keys -> Txs]
    /\ \A j, k \in Keys : identity[j] = identity[k] => j = k
    /\ pc = [w \in Requests |-> "idle"]
    /\ key = [w \in Requests |-> NoKey]
    /\ tx = [w \in Requests |-> NoTx]
    /\ net = {}

(* A faulty variant: every execution has a transaction of its own.         *)
DrawsAlways(k, t) == \A w \in Requests : tx[w] # t

(* t may serve an execution for key k                                      *)
Draws(k, t) == IF mode = "C0" THEN \A w \in Requests : tx[w] # t ELSE t = identity[k]

Begin(w) ==
    /\ pc[w] = "idle"
    /\ \E k \in Keys, t \in Txs :
          /\ Draws(k, t)
          /\ key' = [key EXCEPT ![w] = k]
          /\ tx' = [tx EXCEPT ![w] = t]
    /\ pc' = [pc EXCEPT ![w] = "create_cart"]
    /\ UNCHANGED <<services, run, net>>

(* A faulty variant: the payment comes before the order.                   *)
AfterPaysFirst(op) == CASE op = "create_cart" -> "execute_payment"
                        [] op = "execute_payment" -> "create_order"
                        [] OTHER -> "completed"

(* what follows a successful call; f9 stops the flow after the order       *)
After(op) == CASE op = "create_cart" -> "create_order"
               [] op = "create_order" ->
                     IF scenario = "f9-orchestrator-interruption-after-order"
                     THEN "failed" ELSE "execute_payment"
               [] OTHER -> "completed"

(* A faulty variant: whatever the service answers, the flow goes on.       *)
CallIgnoresReply(w) ==
    /\ pc[w] \in Operations
    /\ Serve(pc[w], key[w], tx[w], scenario)
    /\ pc' = [pc EXCEPT ![w] = After(pc[w])]
    /\ UNCHANGED <<run, key, tx, net>>

Call(w) ==
    /\ pc[w] \in Operations
    /\ Serve(pc[w], key[w], tx[w], scenario)
    /\ pc' = [pc EXCEPT ![w] =
                 IF Reply(pc[w], tx[w], scenario) = "ok" THEN After(pc[w]) ELSE "failed"]
    /\ UNCHANGED <<run, key, tx, net>>

(* A faulty variant: the request goes out without its key.                 *)
CallLostWithoutKey(w) ==
    /\ Lossy /\ pc[w] \in Operations
    /\ net' = net \cup {[op |-> pc[w], key |-> NoKey, tx |-> tx[w]]}
    /\ pc' = [pc EXCEPT ![w] = "failed"]
    /\ UNCHANGED <<services, run, key, tx>>

(* 500 ms pass without an answer: the request fails, the call is handled   *)
(* later or never                                                          *)
CallLost(w) ==
    /\ Lossy /\ pc[w] \in Operations
    /\ net' = net \cup {[op |-> pc[w], key |-> key[w], tx |-> tx[w]]}
    /\ pc' = [pc EXCEPT ![w] = "failed"]
    /\ UNCHANGED <<services, run, key, tx>>

Deliver(m) ==
    /\ m \in net
    /\ net' = net \ {m}
    /\ Serve(m.op, m.key, m.tx, scenario)
    /\ UNCHANGED <<run, pc, key, tx>>

Next == \/ \E w \in Requests : Begin(w) \/ Call(w) \/ CallLost(w)
        \/ \E m \in net : Deliver(m)

Spec == Init /\ [][Next]_vars

-----------------------------------------------------------------------------
(* A deterministic identity is all that keeps repeated and overlapping     *)
(* requests of one key at one order and one payment in a flow that looks   *)
(* nothing up, late calls included (README "Invariants" 1 and 3, I1 and    *)
(* I3).  C0 has none, on purpose.                                          *)
OneEffectPerKey ==
    mode # "C0" => \A s, t \in Txs :
        /\ orders[s].key = orders[t].key /\ orders[t].key # NoKey => s = t
        /\ payments[s] = payments[t] /\ payments[t] # NoKey => s = t

(* A request answered COMPLETED has an active order and its payment, for   *)
(* its own key, under every interleaving with its duplicates (README       *)
(* "Invariants" 2, I2).                                                    *)
CompletedIsBacked ==
    \A w \in Requests : pc[w] = "completed" =>
        /\ carts[tx[w]] = key[w]
        /\ orders[tx[w]] = [key |-> key[w], status |-> "ACTIVE"]
        /\ payments[tx[w]] = key[w]

(* What an interrupted flow leaves behind, late calls included, is a       *)
(* prefix of the purchase: no payment without its order, no order without  *)
(* its cart.                                                               *)
PrefixLeft ==
    \A t \in Txs : /\ payments[t] # NoKey => orders[t].key = payments[t]
                   /\ orders[t].status # "NONE" => carts[t] = orders[t].key
=============================================================================
