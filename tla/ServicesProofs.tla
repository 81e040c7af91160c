--------------------------- MODULE ServicesProofs ---------------------------
(***************************************************************************)
(* Proofs about the three services alone, whoever calls them.              *)
(***************************************************************************)
EXTENDS CommerceServices, TLAPS

-----------------------------------------------------------------------------
(* The services keep their types, whichever request they handle.           *)

LEMMA CountType ==
    ASSUME ServicesTypeOK, NEW op \in CountedOperations, NEW t \in Txs, NEW sc, Count(op, t, sc)
    PROVE  attempts' \in [CountedOperations -> [Txs -> 0 .. AttemptsCap]]
<1>1. attempts[op] \in [Txs -> 0 .. AttemptsCap] /\ attempts[op][t] \in 0 .. AttemptsCap
  BY DEF ServicesTypeOK
<1>2. CASE Counts(op, t, sc) /\ attempts[op][t] < AttemptsCap
  <2>1. attempts[op][t] + 1 \in 0 .. AttemptsCap
    BY <1>1, <1>2 DEF AttemptsCap
  <2>2. attempts' = [attempts EXCEPT ![op][t] = attempts[op][t] + 1]
    BY <1>2 DEF Count
  <2>3. QED BY <1>1, <2>1, <2>2 DEF ServicesTypeOK
<1>3. CASE ~ (Counts(op, t, sc) /\ attempts[op][t] < AttemptsCap)
  BY <1>3 DEF Count, ServicesTypeOK
<1>4. QED BY <1>2, <1>3

LEMMA ServeType ==
    ASSUME ServicesTypeOK, NEW op \in Operations, NEW k \in Keys, NEW t \in Txs, NEW sc,
           Serve(op, k, t, sc)
    PROVE  ServicesTypeOK'
<1>1. CASE op = "create_cart"
  BY <1>1 DEF Serve, CreateCart, ServicesTypeOK
<1>2. CASE op = "create_order"
  BY <1>2 DEF Serve, CreateOrder, ServicesTypeOK, OrderRow
<1>3. CASE op = "execute_payment"
  <2>1. attempts' \in [CountedOperations -> [Txs -> 0 .. AttemptsCap]]
    BY <1>3, CountType DEF Serve, ExecutePayment, CountedOperations
  <2>2. QED BY <1>3, <2>1 DEF Serve, ExecutePayment, ServicesTypeOK
<1>4. CASE op = "cancel_order"
  <2>1. attempts' \in [CountedOperations -> [Txs -> 0 .. AttemptsCap]]
    BY <1>4, CountType DEF Serve, CancelOrder, CountedOperations
  <2>2. orders' \in [Txs -> OrderRow]
    <3>1. \A r \in OrderRow : [r EXCEPT !.status = "CANCELLED"] \in OrderRow
      BY DEF OrderRow
    <3>2. orders \in [Txs -> OrderRow] /\ orders[t] \in OrderRow
      BY DEF ServicesTypeOK
    <3>3. \/ UNCHANGED orders
          \/ orders' = [orders EXCEPT ![t] = [orders[t] EXCEPT !.status = "CANCELLED"]]
      BY <1>4 DEF Serve, CancelOrder
    <3>4. QED BY <3>1, <3>2, <3>3
  <2>3. UNCHANGED <<carts, payments, selected>>
    BY <1>4 DEF Serve, CancelOrder
  <2>4. QED BY <2>1, <2>2, <2>3 DEF ServicesTypeOK
<1>5. QED BY <1>1, <1>2, <1>3, <1>4 DEF Operations

-----------------------------------------------------------------------------
(* Effects are permanent.                                                  *)

LEMMA ServeKeeps ==
    ASSUME ServicesTypeOK, NEW op \in Operations, NEW k \in Keys, NEW t \in Txs, NEW sc,
           Serve(op, k, t, sc)
    PROVE  EffectsKept
<1>1. CASE op = "create_cart"
  BY <1>1 DEF Serve, CreateCart, ServicesTypeOK, EffectsKept
<1>2. CASE op = "create_order"
  BY <1>2 DEF Serve, CreateOrder, ServicesTypeOK, OrderRow, EffectsKept
<1>3. CASE op = "execute_payment"
  BY <1>3 DEF Serve, ExecutePayment, ServicesTypeOK, EffectsKept
<1>4. CASE op = "cancel_order"
  BY <1>4 DEF Serve, CancelOrder, ServicesTypeOK, OrderRow, EffectsKept
<1>5. QED BY <1>1, <1>2, <1>3, <1>4 DEF Operations

LEMMA IdleKeeps ==
    ASSUME UNCHANGED services
    PROVE  EffectsKept
BY DEF services, EffectsKept

(* No cart, order or payment is taken back or changes hands, and a         *)
(* cancelled order stays cancelled, whatever any client sends, how often   *)
(* and how late (the "on conflict do nothing" of the three inserts).       *)
THEOREM ServicesPermanent == ServicesSpec => EffectsArePermanent
<1>1. ServicesInit => ServicesTypeOK
  BY DEF ServicesInit, ServicesTypeOK, OrderRow, NoOrder, AttemptsCap
<1>2. ServicesTypeOK /\ [ServicesNext]_services => ServicesTypeOK'
  <2> SUFFICES ASSUME ServicesTypeOK, [ServicesNext]_services PROVE ServicesTypeOK'
    OBVIOUS
  <2>1. CASE ServicesNext
    BY <2>1, ServeType DEF ServicesNext
  <2>2. CASE UNCHANGED services
    BY <2>2 DEF services, ServicesTypeOK
  <2>3. QED BY <2>1, <2>2
<1>3. ServicesTypeOK /\ [ServicesNext]_services => [EffectsKept]_services
  BY ServeKeeps DEF ServicesNext
<1>4. QED BY <1>1, <1>2, <1>3, PTL DEF ServicesSpec, EffectsArePermanent
=============================================================================
