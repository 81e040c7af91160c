--------------------------- MODULE BaselineProofs ---------------------------
(***************************************************************************)
(* Proofs about the flows without a durable record: what a deterministic   *)
(* identity and the order of the calls guarantee on their own, for any     *)
(* number of requests, keys and transactions, on a network that loses and  *)
(* delays.                                                                 *)
(***************************************************************************)
EXTENDS BaselineFlow, ServicesProofs

(* Request w runs transaction t for key k.                                 *)
Runs(w, k, t) == pc[w] # "idle" /\ key[w] = k /\ tx[w] = t

(* t is run for k                                                          *)
Belongs(k, t) == \E w \in Requests : Runs(w, k, t)

(* A transaction is run for one key; unless each execution draws its own,  *)
(* a key has one transaction.                                              *)
Identities ==
    /\ \A j, k \in Keys : identity[j] = identity[k] => j = k
    /\ \A w \in Requests :
          IF pc[w] = "idle" THEN key[w] = NoKey /\ tx[w] = NoTx
          ELSE key[w] \in Keys /\ tx[w] \in Txs
    /\ \A w, v \in Requests : pc[w] # "idle" /\ tx[w] = tx[v] => key[w] = key[v]
    /\ mode # "C0" => \A w \in Requests : pc[w] # "idle" => tx[w] = identity[key[w]]

(* Effects and late calls are those of a request; nothing is cancelled.    *)
Effects ==
    /\ \A t \in Txs, k \in Keys :
          carts[t] = k \/ orders[t].key = k \/ payments[t] = k => Belongs(k, t)
    /\ \A t \in Txs :
          orders[t].status = IF orders[t].key = NoKey THEN "NONE" ELSE "ACTIVE"
    /\ \A m \in net : Belongs(m.key, m.tx)

Placed(t, k) == carts[t] = k
Ordered(t, k) == Placed(t, k) /\ orders[t] = [key |-> k, status |-> "ACTIVE"]

(* A call is only made, and an effect only there, after those before it.   *)
Sequence ==
    /\ \A w \in Requests, k \in Keys, t \in Txs :
          Runs(w, k, t) => /\ pc[w] \in {"create_order", "execute_payment", "completed"} => Placed(t, k)
                           /\ pc[w] \in {"execute_payment", "completed"} => Ordered(t, k)
                           /\ pc[w] = "completed" => payments[t] = k
    /\ \A m \in net :
          /\ m.op \in {"create_order", "execute_payment"} => Placed(m.tx, m.key)
          /\ m.op = "execute_payment" => Ordered(m.tx, m.key)
          /\ m.op # "cancel_order"
    /\ \A t \in Txs, k \in Keys : /\ orders[t].key = k => Placed(t, k)
                                  /\ payments[t] = k => Ordered(t, k)

BInv == TypeOK /\ Identities /\ Effects /\ Sequence

-----------------------------------------------------------------------------
(* A call of the flow, in time or late: what it needs and what it leaves.  *)

Allowed(op, k, t) ==
    /\ op \in {"create_cart", "create_order", "execute_payment"}
    /\ k \in Keys /\ t \in Txs /\ Belongs(k, t)
    /\ op \in {"create_order", "execute_payment"} => Placed(t, k)
    /\ op = "execute_payment" => Ordered(t, k)

(* What the services hold afterwards                                       *)
Held ==
    /\ \A t \in Txs :
          orders'[t].status = IF orders'[t].key = NoKey THEN "NONE" ELSE "ACTIVE"
    /\ \A t \in Txs, k \in Keys : /\ carts'[t] = k \/ orders'[t].key = k \/ payments'[t] = k
                                        => Belongs(k, t)
                                  /\ orders'[t].key = k => Placed(t, k)'
                                  /\ payments'[t] = k => Ordered(t, k)'
                                  /\ Placed(t, k) => Placed(t, k)'
                                  /\ Ordered(t, k) => Ordered(t, k)'
                                  /\ payments[t] = k => payments'[t] = k

LEMMA OneKey ==
    ASSUME Identities, NEW j, NEW k, NEW t, Belongs(j, t), Belongs(k, t)
    PROVE  j = k
  BY DEF Identities, Belongs, Runs

LEMMA CallHolds ==
    ASSUME BInv, NEW op, NEW k, NEW t, NEW sc, Allowed(op, k, t), Serve(op, k, t, sc)
    PROVE  Held
<1> USE ServicesAssumption
<1>1. /\ k \in Keys /\ k # NoKey /\ t \in Txs
      /\ carts \in [Txs -> Keys \cup {NoKey}] /\ orders \in [Txs -> OrderRow]
      /\ payments \in [Txs -> Keys \cup {NoKey}]
  BY DEF Allowed, BInv, TypeOK, ServicesTypeOK
<1>2. CASE op = "create_cart"
  BY <1>1, <1>2 DEF Serve, CreateCart, Held, Allowed, BInv, Effects, Sequence, Placed, Ordered
<1>3. CASE op = "create_order"
  BY <1>1, <1>3 DEF Serve, CreateOrder, Held, Allowed, BInv, Effects, Sequence, Placed, Ordered, OrderRow
<1>4. CASE op = "execute_payment"
  BY <1>1, <1>4 DEF Serve, ExecutePayment, Held, Allowed, BInv, Effects, Sequence, Placed, Ordered
<1>5. QED BY <1>2, <1>3, <1>4 DEF Allowed

(* A call that answers ok has taken effect, now or before.                 *)
LEMMA CallTakesEffect ==
    ASSUME BInv, NEW op, NEW k, NEW t, NEW sc, Allowed(op, k, t), Serve(op, k, t, sc),
           Reply(op, t, sc) = "ok"
    PROVE  /\ op = "create_cart" => Placed(t, k)'
           /\ op = "create_order" => Ordered(t, k)'
           /\ op = "execute_payment" => payments'[t] = k
<1> USE ServicesAssumption
<1>1. /\ k \in Keys /\ k # NoKey /\ t \in Txs
      /\ carts \in [Txs -> Keys \cup {NoKey}] /\ orders \in [Txs -> OrderRow]
      /\ payments \in [Txs -> Keys \cup {NoKey}]
  BY DEF Allowed, BInv, TypeOK, ServicesTypeOK
<1>2. Passes(op, t, sc)
  BY DEF Reply, Passes
<1>3. /\ carts[t] \in {NoKey, k} /\ payments[t] \in {NoKey, k}
      /\ orders[t].key \in {NoKey, k}
  <2>1. Identities /\ Belongs(k, t)
    BY DEF BInv, Allowed
  <2>2. \A j \in Keys : Belongs(j, t) => j = k
    BY <2>1, OneKey
  <2>3. \A j \in Keys : carts[t] = j \/ orders[t].key = j \/ payments[t] = j => j = k
    BY <1>1, <2>2 DEF BInv, Effects
  <2>4. /\ carts[t] \in Keys \cup {NoKey} /\ payments[t] \in Keys \cup {NoKey}
        /\ orders[t].key \in Keys \cup {NoKey}
    BY <1>1 DEF OrderRow
  <2>5. QED BY <2>3, <2>4
<1>4. CASE op = "create_cart"
  BY <1>1, <1>2, <1>3, <1>4 DEF Serve, CreateCart, Placed
<1>5. CASE op = "create_order"
  <2>1. CASE orders[t].key = NoKey
    BY <1>1, <1>2, <1>5, <2>1 DEF Serve, CreateOrder, Placed, Ordered, Allowed, BInv, Effects
  <2>2. CASE orders[t].key = k
    <3>1. orders[t] = [key |-> k, status |-> "ACTIVE"]
      BY <1>1, <2>2 DEF BInv, Effects, OrderRow
    <3>2. QED BY <1>1, <1>5, <3>1 DEF Serve, CreateOrder, Placed, Ordered, Allowed
  <2>3. QED BY <1>3, <2>1, <2>2
<1>6. CASE op = "execute_payment"
  BY <1>1, <1>2, <1>3, <1>6 DEF Serve, ExecutePayment
<1>7. QED BY <1>4, <1>5, <1>6 DEF Allowed

-----------------------------------------------------------------------------

LEMMA InitBaseline == Init => BInv
<1> SUFFICES ASSUME Init PROVE BInv
  OBVIOUS
<1>1. ServicesTypeOK
  BY DEF Init, ServicesInit, ServicesTypeOK, OrderRow, NoOrder, AttemptsCap
<1>2. TypeOK
  BY <1>1 DEF Init, TypeOK
<1>3. /\ \A t \in Txs : carts[t] = NoKey /\ payments[t] = NoKey /\ orders[t] = NoOrder
      /\ \A w \in Requests : pc[w] = "idle" /\ key[w] = NoKey /\ tx[w] = NoTx
      /\ net = {}
  BY DEF Init, ServicesInit
<1>4. Identities
  BY <1>3 DEF Init, Identities
<1>5. Effects
  BY <1>3, ServicesAssumption DEF NoOrder, Effects
<1>6. Sequence
  BY <1>3, ServicesAssumption DEF NoOrder, Sequence, Runs
<1>7. QED BY <1>2, <1>4, <1>5, <1>6 DEF BInv

LEMMA BeginPreserves ==
    ASSUME BInv, NEW w \in Requests, Begin(w)
    PROVE  BInv'
<1> USE ServicesAssumption, BaselineAssumption
<1>1. PICK k \in Keys, t \in Txs :
          /\ Draws(k, t) /\ pc[w] = "idle"
          /\ key' = [key EXCEPT ![w] = k] /\ tx' = [tx EXCEPT ![w] = t]
          /\ pc' = [pc EXCEPT ![w] = "create_cart"]
          /\ UNCHANGED <<services, run, net>>
  BY DEF Begin
<1>2. UNCHANGED <<carts, orders, payments, attempts, selected, mode, scenario, identity, net>>
  BY <1>1 DEF services, run
<1>3. TypeOK'
  BY <1>1, <1>2 DEF BInv, TypeOK, ServicesTypeOK
<1>4. Identities'
  <2>1. mode # "C0" => t = identity[k]
    BY <1>1 DEF Draws
  <2>2. mode = "C0" => \A v \in Requests : tx[v] # t
    BY <1>1 DEF Draws
  <2>3. \A v \in Requests : tx[v] = t /\ v # w => key[v] = k
    BY <2>1, <2>2 DEF BInv, TypeOK, Identities
  <2>4. QED BY <1>1, <1>2, <2>1, <2>3 DEF BInv, TypeOK, Identities
<1>5. \A j, s : Belongs(j, s) => Belongs(j, s)'
  BY <1>1 DEF BInv, TypeOK, Belongs, Runs
<1>6. Effects'
  BY <1>2, <1>5 DEF BInv, Effects
<1>7. Sequence'
  <2>1. pc'[w] = "create_cart" /\ \A v \in Requests \ {w} : pc'[v] = pc[v]
    BY <1>1 DEF BInv, TypeOK
  <2>2. \A v \in Requests \ {w} : \A j, s : Runs(v, j, s)' => Runs(v, j, s)
    BY <1>1, <2>1 DEF BInv, TypeOK, Runs
  <2>3. \A j, s : Placed(s, j)' = Placed(s, j) /\ Ordered(s, j)' = Ordered(s, j)
    BY <1>2 DEF Placed, Ordered
  <2>4. ASSUME NEW v \in Requests, NEW j \in Keys, NEW s \in Txs, Runs(v, j, s)'
        PROVE  /\ pc'[v] \in {"create_order", "execute_payment", "completed"} => Placed(s, j)'
               /\ pc'[v] \in {"execute_payment", "completed"} => Ordered(s, j)'
               /\ pc'[v] = "completed" => payments'[s] = j
    <3>1. CASE v = w
      BY <2>1, <3>1
    <3>2. CASE v # w
      BY <1>2, <2>1, <2>2, <2>3, <2>4, <3>2 DEF BInv, Sequence
    <3>3. QED BY <3>1, <3>2
  <2>5. QED BY <1>2, <2>3, <2>4 DEF BInv, Sequence
<1>8. QED BY <1>3, <1>4, <1>6, <1>7 DEF BInv

(* What a request knows when it makes its next call                        *)
LEMMA CallAllowed ==
    ASSUME BInv, NEW w \in Requests, pc[w] \in Operations
    PROVE  Allowed(pc[w], key[w], tx[w])
<1>1. pc[w] \in {"create_cart", "create_order", "execute_payment"}
  BY DEF BInv, TypeOK, Ended, Operations
<1>2. key[w] \in Keys /\ tx[w] \in Txs /\ Runs(w, key[w], tx[w])
  BY <1>1 DEF BInv, Identities, Runs
<1>3. QED BY <1>1, <1>2 DEF BInv, Sequence, Allowed, Belongs

LEMMA CallPreserves ==
    ASSUME BInv, NEW w \in Requests, Call(w)
    PROVE  BInv'
<1> USE ServicesAssumption
<1>1. PICK k, t, next :
         /\ k = key[w] /\ t = tx[w]
         /\ next = IF Reply(pc[w], t, scenario) = "ok" THEN After(pc[w]) ELSE "failed"
  OBVIOUS
<1>2. /\ pc[w] \in Operations /\ Serve(pc[w], k, t, scenario)
      /\ pc' = [pc EXCEPT ![w] = next]
      /\ UNCHANGED <<mode, scenario, identity, key, tx, net>>
  BY <1>1 DEF Call, run
<1>3. Allowed(pc[w], k, t) /\ k \in Keys /\ t \in Txs
  BY <1>1, <1>2, CallAllowed DEF Allowed
<1>4. Held
  BY <1>2, <1>3, CallHolds
<1>5. next \in {"create_order", "execute_payment", "completed", "failed"}
  BY <1>1 DEF After
<1>6. TypeOK'
  <2>1. ServicesTypeOK'
    BY <1>2, <1>3, ServeType DEF BInv, TypeOK
  <2>2. QED BY <1>2, <1>5, <2>1 DEF BInv, TypeOK, Ended
<1>7. pc[w] # "idle" /\ pc'[w] = next /\ \A v \in Requests \ {w} : pc'[v] = pc[v]
  BY <1>2, <1>3 DEF Allowed, BInv, TypeOK
<1>8. Identities'
  BY <1>2, <1>5, <1>7 DEF BInv, Identities
<1>9. \A v \in Requests : \A j, s : Runs(v, j, s) <=> Runs(v, j, s)'
  BY <1>2, <1>5, <1>7 DEF Runs
<1>10. Effects'
  <2>1. \A j, s : Belongs(j, s) => Belongs(j, s)'
    BY <1>9 DEF Belongs
  <2>2. QED BY <1>2, <1>4, <2>1 DEF BInv, Effects, Held
<1>11. /\ next = "create_order" => Placed(t, k)'
       /\ next = "execute_payment" => Ordered(t, k)'
       /\ next = "completed" => payments'[t] = k /\ Ordered(t, k)'
  <2>1. CASE next = "failed"
    BY <2>1
  <2>2. CASE next # "failed"
    <3>1. Reply(pc[w], t, scenario) = "ok" /\ next = After(pc[w])
      BY <1>1, <2>2
    <3>2. /\ pc[w] = "execute_payment" => Ordered(t, k)
          /\ pc[w] \in {"create_cart", "create_order", "execute_payment"}
      BY <1>3 DEF Allowed
    <3>3. pc[w] = "execute_payment" => Ordered(t, k)'
      BY <1>3, <1>4, <3>2 DEF Held
    <3>4. /\ pc[w] = "create_cart" => Placed(t, k)'
          /\ pc[w] = "create_order" => Ordered(t, k)'
          /\ pc[w] = "execute_payment" => payments'[t] = k
      BY <1>2, <1>3, <3>1, CallTakesEffect
    <3>5. QED BY <3>1, <3>2, <3>3, <3>4 DEF After
  <2>3. QED BY <2>1, <2>2
<1>12. Sequence'
  <2>1. ASSUME NEW v \in Requests, NEW j \in Keys, NEW s \in Txs, Runs(v, j, s)
        PROVE  /\ pc'[v] \in {"create_order", "execute_payment", "completed"} => Placed(s, j)'
               /\ pc'[v] \in {"execute_payment", "completed"} => Ordered(s, j)'
               /\ pc'[v] = "completed" => payments'[s] = j
    <3>1. CASE v = w
      <4>1. j = k /\ s = t
        BY <1>1, <2>1, <3>1 DEF Runs
      <4>2. Ordered(t, k)' => Placed(t, k)'
        BY DEF Ordered
      <4>3. QED BY <1>5, <1>7, <1>11, <3>1, <4>1, <4>2
    <3>2. CASE v # w
      BY <1>4, <1>7, <2>1, <3>2 DEF BInv, Sequence, Held
    <3>3. QED BY <3>1, <3>2
  <2>2. \A m \in net : m.key \in Keys /\ m.tx \in Txs
    BY DEF BInv, TypeOK
  <2>3. /\ \A m \in net' :
             /\ m.op \in {"create_order", "execute_payment"} => Placed(m.tx, m.key)'
             /\ m.op = "execute_payment" => Ordered(m.tx, m.key)'
             /\ m.op # "cancel_order"
    BY <1>2, <1>4, <2>2 DEF BInv, Sequence, Held
  <2>4. QED BY <1>4, <1>9, <2>1, <2>3 DEF Sequence, Held
<1>13. QED BY <1>6, <1>8, <1>10, <1>12 DEF BInv

LEMMA CallLostPreserves ==
    ASSUME BInv, NEW w \in Requests, CallLost(w)
    PROVE  BInv'
<1>1. PICK m : m = [op |-> pc[w], key |-> key[w], tx |-> tx[w]]
  OBVIOUS
<1>2. /\ pc[w] \in Operations /\ net' = net \cup {m}
      /\ pc' = [pc EXCEPT ![w] = "failed"]
      /\ UNCHANGED <<carts, orders, payments, attempts, selected, mode, scenario, identity, key, tx>>
  BY <1>1 DEF CallLost, services, run
<1>3. Allowed(m.op, m.key, m.tx) /\ m \in [op : Operations, key : Keys, tx : Txs]
  BY <1>1, <1>2, CallAllowed DEF Allowed
<1>4. TypeOK'
  BY <1>2, <1>3 DEF BInv, TypeOK, ServicesTypeOK, Ended
<1>5. pc[w] # "idle" /\ pc'[w] = "failed" /\ \A v \in Requests \ {w} : pc'[v] = pc[v]
  BY <1>2 DEF BInv, TypeOK, Operations
<1>6. Identities'
  BY <1>2, <1>5 DEF BInv, Identities
<1>7. \A v \in Requests : \A j, s : Runs(v, j, s) <=> Runs(v, j, s)'
  BY <1>2, <1>5 DEF Runs
<1>8. \A j, s : Belongs(j, s) => Belongs(j, s)'
  BY <1>7 DEF Belongs
<1>9. \A n \in net' : Belongs(n.key, n.tx)'
  BY <1>2, <1>3, <1>8 DEF BInv, Effects, Allowed
<1>10. Effects'
  BY <1>2, <1>8, <1>9 DEF BInv, Effects
<1>11. Sequence'
  <2>1. \A s, j : Placed(s, j)' = Placed(s, j) /\ Ordered(s, j)' = Ordered(s, j)
    BY <1>2 DEF Placed, Ordered
  <2>2. /\ m.op \in {"create_order", "execute_payment"} => Placed(m.tx, m.key)
        /\ m.op = "execute_payment" => Ordered(m.tx, m.key)
        /\ m.op # "cancel_order"
    BY <1>3 DEF Allowed
  <2>3. /\ \A n \in net' :
             /\ n.op \in {"create_order", "execute_payment"} => Placed(n.tx, n.key)'
             /\ n.op = "execute_payment" => Ordered(n.tx, n.key)'
             /\ n.op # "cancel_order"
    BY <1>2, <2>1, <2>2 DEF BInv, Sequence
  <2>4. QED BY <1>2, <1>5, <1>7, <2>1, <2>3 DEF BInv, Sequence
<1>12. QED BY <1>4, <1>6, <1>10, <1>11 DEF BInv

LEMMA DeliverPreserves ==
    ASSUME BInv, NEW m \in net, Deliver(m)
    PROVE  BInv'
<1>1. /\ net' \subseteq net /\ Serve(m.op, m.key, m.tx, scenario)
      /\ UNCHANGED <<mode, scenario, identity, pc, key, tx>>
  BY DEF Deliver, run
<1>2. m \in [op : Operations, key : Keys, tx : Txs]
  BY DEF BInv, TypeOK
<1>3. Allowed(m.op, m.key, m.tx)
  BY <1>2 DEF BInv, Effects, Sequence, Allowed, Operations
<1>4. Held
  BY <1>1, <1>3, CallHolds
<1>5. ServicesTypeOK'
  BY <1>1, <1>2, ServeType DEF BInv, TypeOK
<1>6. TypeOK' /\ Identities'
  BY <1>1, <1>5 DEF BInv, TypeOK, Identities
<1>7. /\ \A v \in Requests : \A j, s : Runs(v, j, s)' = Runs(v, j, s)
      /\ \A j, s : Belongs(j, s) => Belongs(j, s)'
  BY <1>1 DEF Runs, Belongs
<1>8. Effects'
  BY <1>1, <1>4, <1>7 DEF BInv, Effects, Held
<1>9. Sequence'
  <2>1. \A n \in net : n.key \in Keys /\ n.tx \in Txs
    BY DEF BInv, TypeOK
  <2>2. /\ \A n \in net' :
             /\ n.op \in {"create_order", "execute_payment"} => Placed(n.tx, n.key)'
             /\ n.op = "execute_payment" => Ordered(n.tx, n.key)'
             /\ n.op # "cancel_order"
    BY <1>1, <1>4, <2>1 DEF BInv, Sequence, Held
  <2>3. QED BY <1>1, <1>4, <1>7, <2>2 DEF BInv, Sequence, Held
<1>10. QED BY <1>6, <1>8, <1>9 DEF BInv

LEMMA BaselineInvariant == Spec => []BInv
<1>1. Init => BInv
  BY InitBaseline
<1>2. BInv /\ [Next]_vars => BInv'
  <2>1. CASE UNCHANGED vars
    BY <2>1 DEF vars, services, run, BInv, TypeOK, ServicesTypeOK, Identities, Effects, Sequence,
                Belongs, Runs, Placed, Ordered
  <2>2. QED
    BY <2>1, BeginPreserves, CallPreserves, CallLostPreserves, DeliverPreserves DEF Next
<1>3. QED BY <1>1, <1>2, PTL DEF Spec

(* Every variable of the flows keeps its type.                             *)
THEOREM BaselineType == Spec => []TypeOK
  BY BaselineInvariant, PTL DEF BInv

(* A flow with a deterministic identity gives a key at most one order and  *)
(* one payment (executeBaseline and C1, transactionIdFor).                 *)
THEOREM IdentityBounds == Spec => []OneEffectPerKey
<1>1. ASSUME BInv, mode # "C0", NEW s \in Txs, NEW t \in Txs, NEW k \in Keys,
             Belongs(k, s), Belongs(k, t)
      PROVE  s = t
  BY <1>1 DEF BInv, Identities, Belongs, Runs
<1>2. ASSUME BInv PROVE OneEffectPerKey
  <2>1. \A t \in Txs : orders[t].key \in Keys \cup {NoKey} /\ payments[t] \in Keys \cup {NoKey}
    BY <1>2 DEF BInv, TypeOK, ServicesTypeOK, OrderRow
  <2>2. QED BY <1>1, <1>2, <2>1 DEF OneEffectPerKey, BInv, Effects
<1>3. QED BY <1>2, BaselineInvariant, PTL

(* A request answered COMPLETED is backed by its cart, its active order    *)
(* and its payment.                                                        *)
THEOREM CompletionBacked == Spec => []CompletedIsBacked
<1>1. ASSUME BInv, NEW w \in Requests, pc[w] = "completed"
      PROVE  /\ Ordered(tx[w], key[w]) /\ payments[tx[w]] = key[w]
  <2>1. key[w] \in Keys /\ tx[w] \in Txs /\ Runs(w, key[w], tx[w])
    BY <1>1 DEF BInv, Identities, Runs
  <2>2. QED BY <1>1, <2>1 DEF BInv, Sequence
<1>2. BInv => CompletedIsBacked
  BY <1>1 DEF CompletedIsBacked, Ordered, Placed
<1>3. QED BY <1>2, BaselineInvariant, PTL

(* Whatever is lost, delayed or repeated, what a flow leaves behind is a   *)
(* prefix of the purchase.                                                 *)
THEOREM PrefixHolds == Spec => []PrefixLeft
<1>1. ASSUME BInv, NEW t \in Txs
      PROVE  /\ payments[t] # NoKey => orders[t].key = payments[t]
             /\ orders[t].status # "NONE" => carts[t] = orders[t].key
  <2>1. orders[t].key \in Keys \cup {NoKey} /\ payments[t] \in Keys \cup {NoKey}
    BY <1>1 DEF BInv, TypeOK, ServicesTypeOK, OrderRow
  <2>2. orders[t].status # "NONE" => orders[t].key \in Keys
    BY <1>1, <2>1 DEF BInv, Effects
  <2>3. /\ \A k \in Keys : payments[t] = k => Ordered(t, k)
        /\ \A k \in Keys : orders[t].key = k => Placed(t, k)
    BY <1>1 DEF BInv, Sequence
  <2>4. ASSUME payments[t] # NoKey PROVE orders[t].key = payments[t]
    <3>1. Ordered(t, payments[t])
      BY <2>1, <2>3, <2>4
    <3>2. QED BY <3>1 DEF Ordered
  <2>5. ASSUME orders[t].status # "NONE" PROVE carts[t] = orders[t].key
    BY <2>2, <2>3, <2>5 DEF Placed
  <2>6. QED BY <2>4, <2>5
<1>2. BInv => PrefixLeft
  BY <1>1 DEF PrefixLeft
<1>3. QED BY <1>2, BaselineInvariant, PTL
=============================================================================
