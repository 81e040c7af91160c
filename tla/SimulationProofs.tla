-------------------------- MODULE SimulationProofs --------------------------
(***************************************************************************)
(* Proofs about the simulated resilient orchestrator for any number of     *)
(* requests, workers and attempts, with overlapping unlocked recoveries,   *)
(* at any crash boundary and whatever call fails: its types, that records  *)
(* are backed by effects, what each action changes, and the discipline     *)
(* every worker keeps.                                                     *)
(***************************************************************************)
EXTENDS SimulationInvariant, FiniteSetTheorems, SequenceTheorems, TLAPS

(* What the place of worker w means for the record it works on             *)
Knows(w) ==
    /\ pc[w] \in {"idle", "cart"} => phase[w] = "execute"
    /\ on[w] \in Keys =>
          /\ pc[w] = "order_set" => orders[on[w]] # "NONE"
          /\ pc[w] \in {"pending_set", "pay_lookup", "pay_call", "pay_set", "cancel",
                        "cancel_set", "complete_set"} => records[on[w]].order
          /\ pc[w] = "failed" /\ phase[w] # "execute" => records[on[w]].order
          /\ pc[w] = "pay_set" => on[w] \in payments
          /\ pc[w] = "complete_set" => records[on[w]].payment

Shaped ==
    /\ records \in [Keys -> Record]
    /\ orders \in [Keys -> {"NONE", "ACTIVE", "CANCELLED"}]
    /\ pc = [w \in Requests |-> pc[w]]
    /\ on = [w \in Requests |-> on[w]]
    /\ phase = [w \in Requests |-> phase[w]]

SInv == Shaped /\ RecordsBacked /\ \A w \in Requests : Knows(w)

-----------------------------------------------------------------------------
(* No effect and no claim is ever withdrawn.                               *)
Grows ==
    /\ \A k \in Keys : /\ records[k].order => records'[k].order
                       /\ records[k].payment => records'[k].payment
                       /\ orders[k] # "NONE" => orders'[k] # "NONE"
    /\ payments \subseteq payments'

(* A step of worker w alone                                                *)
Alone(w) ==
    \A v \in Requests \ {w} : pc'[v] = pc[v] /\ on'[v] = on[v] /\ phase'[v] = phase[v]

LEMMA StepPreserves ==
    ASSUME SInv, NEW w \in Requests, Shaped', Grows, RecordsBacked', Alone(w), Knows(w)'
    PROVE  SInv'
<1>1. ASSUME NEW v \in Requests \ {w} PROVE Knows(v)'
  BY <1>1 DEF SInv, Alone, Grows, Knows
<1>2. QED BY <1>1 DEF SInv

(* A step that writes no record                                            *)
LEMMA ServicesStep ==
    ASSUME SInv, NEW w \in Requests, UNCHANGED <<records, on, phase>>,
           \E next : Goto(w, next) /\ Knows(w)',
           orders' \in [Keys -> {"NONE", "ACTIVE", "CANCELLED"}],
           \A k \in Keys : orders[k] # "NONE" => orders'[k] # "NONE",
           payments \subseteq payments'
    PROVE  SInv'
<1>1. Shaped' /\ Alone(w)
  BY DEF SInv, Shaped, Goto, Alone
<1>2. Grows
  BY DEF Grows
<1>3. RecordsBacked'
  BY DEF SInv, RecordsBacked
<1>4. QED BY <1>1, <1>2, <1>3, StepPreserves

(* A step that writes the record under work                                *)
LEMMA RecordStep ==
    ASSUME SInv, NEW w \in Requests, UNCHANGED <<orders, payments, on, phase>>,
           \E next : Goto(w, next) /\ Knows(w)',
           records' \in [Keys -> Record],
           \A k \in Keys \ {on[w]} : records'[k] = records[k],
           on[w] \in Keys =>
              LET k == on[w]
                  r == records'[k]
              IN  /\ records[k].order => r.order
                  /\ records[k].payment => r.payment
                  /\ r.order => orders[k] # "NONE"
                  /\ r.payment => k \in payments
                  /\ r.state \in {"ORDER_CREATED", "PAYMENT_PENDING", "COMPENSATED"} => r.order
                  /\ r.state \in {"PAYMENT_COMPLETED", "COMPLETED"} => r.order /\ r.payment
    PROVE  SInv'
<1>1. Shaped' /\ Alone(w)
  BY DEF SInv, Shaped, Goto, Alone
<1>2. Grows
  BY DEF Grows
<1>3. RecordsBacked'
  <2>1. ASSUME NEW k \in Keys
        PROVE  LET r == records'[k]
               IN  /\ r.order => orders'[k] # "NONE"
                   /\ r.payment => k \in payments'
                   /\ r.state \in {"ORDER_CREATED", "PAYMENT_PENDING", "COMPENSATED"} => r.order
                   /\ r.state \in {"PAYMENT_COMPLETED", "COMPLETED"} => r.order /\ r.payment
    BY DEF SInv, RecordsBacked
  <2>2. QED BY <2>1 DEF RecordsBacked
<1>4. QED BY <1>1, <1>2, <1>3, StepPreserves

(* SetState(w, s), wherever the record is                                  *)
LEMMA SetStateWrites ==
    ASSUME Shaped, NEW w \in Requests, NEW s \in States, SetState(w, s)
    PROVE  /\ records' \in [Keys -> Record]
           /\ \A k \in Keys \ {on[w]} : records'[k] = records[k]
           /\ on[w] \in Keys => /\ records'[on[w]].state = s
                                /\ records'[on[w]].order = records[on[w]].order
                                /\ records'[on[w]].payment = records[on[w]].payment
BY DEF Shaped, SetState, Record

(* A call under RetryPolicy goes on after an answer only.                  *)
LEMMA SettleMoves ==
    ASSUME NEW w \in Requests, NEW reply, NEW next, NEW again, NEW raised,
           Settle(w, reply, next, again, raised)
    PROVE  \/ reply = "ok" /\ Goto(w, next)
           \/ Goto(w, again)
           \/ Goto(w, raised)
BY DEF Settle, Succeeded, Retried, Branch

-----------------------------------------------------------------------------
(* The calls                                                               *)

LEMMA CartPreserves == ASSUME SInv, NEW w \in Requests, Cart(w) PROVE SInv'
<1>1. UNCHANGED <<records, on, phase, orders, payments>> /\ pc[w] = "cart" /\ phase[w] = "execute"
  BY DEF Cart, Steady, simulated, CreateCart, SInv, Knows
<1>2. Goto(w, "order") \/ Goto(w, "cart_set") \/ Goto(w, "cart") \/ Goto(w, "failed")
  BY SettleMoves DEF Cart, Succeeded
<1>3. \E next : Goto(w, next) /\ Knows(w)'
  BY <1>1, <1>2 DEF Goto, SInv, Shaped, Knows
<1>4. QED BY <1>1, <1>3, ServicesStep DEF SInv, Shaped

LEMMA CallOrderPreserves == ASSUME SInv, NEW w \in Requests, CallOrder(w) PROVE SInv'
<1>1. PICK reply \in Replies :
          /\ CreateOrder(on[w], reply)
          /\ \/ Executing(w) /\ Settle(w, reply, "order_set", "order_lookup", "failed")
             \/ ~ Executing(w) /\ reply = "ok" /\ Succeeded(w, "order_set")
             \/ ~ Executing(w) /\ reply # "ok" /\ Succeeded(w, "escaped")
  BY DEF CallOrder
<1>2. UNCHANGED <<records, on, phase, payments>>
  BY <1>1 DEF CallOrder, Steady, CreateOrder
<1>3. PICK done \in BOOLEAN :
          /\ Answered("create_order", on[w], reply, done)
          /\ orders' = IF done THEN [orders EXCEPT ![on[w]] = "ACTIVE"] ELSE orders
  BY <1>1 DEF CreateOrder
<1>4. reply = "ok" => done
  BY <1>3 DEF Answered
<1>5. /\ orders' \in [Keys -> {"NONE", "ACTIVE", "CANCELLED"}]
      /\ \A k \in Keys : orders[k] # "NONE" => orders'[k] # "NONE"
      /\ reply = "ok" /\ on[w] \in Keys => orders'[on[w]] # "NONE"
  BY <1>3, <1>4 DEF SInv, Shaped
<1>6. \/ reply = "ok" /\ Goto(w, "order_set")
      \/ Goto(w, "order_lookup") \/ Goto(w, "escaped")
      \/ Goto(w, "failed") /\ phase[w] = "execute"
  BY <1>1, SettleMoves DEF Executing, Succeeded
<1>7. \E next : Goto(w, next) /\ Knows(w)'
  BY <1>2, <1>5, <1>6 DEF Goto, SInv, Shaped, Knows
<1>8. QED BY <1>2, <1>5, <1>7, ServicesStep

LEMMA CallPayPreserves == ASSUME SInv, NEW w \in Requests, CallPay(w) PROVE SInv'
<1>1. PICK reply \in Replies :
          /\ ExecutePayment(on[w], reply)
          /\ IF Executing(w) /\ crash = "during_payment"
             THEN IF reply = "ok" THEN Leave(w, "recover") ELSE Goto(w, "failed")
             ELSE Settle(w, reply, "pay_set", "pay_lookup", "failed")
  BY DEF CallPay
<1>2. UNCHANGED <<records, on, phase, orders>> /\ pc[w] = "pay_call"
  BY <1>1 DEF CallPay, Steady, ExecutePayment
<1>3. PICK done \in BOOLEAN :
          /\ Answered("execute_payment", on[w], reply, done)
          /\ payments' = IF done THEN payments \cup {on[w]} ELSE payments
  BY <1>1 DEF ExecutePayment
<1>4. payments \subseteq payments' /\ (reply = "ok" => on[w] \in payments')
  BY <1>3 DEF Answered
<1>5. on[w] \in Keys => records[on[w]].order
  BY <1>2 DEF SInv, Knows
<1>6. \/ reply = "ok" /\ Goto(w, "pay_set")
      \/ Goto(w, "pay_lookup") \/ Goto(w, "failed") \/ Goto(w, "recover")
  BY <1>1, SettleMoves DEF Leave
<1>7. \E next : Goto(w, next) /\ Knows(w)'
  BY <1>2, <1>4, <1>5, <1>6 DEF Goto, SInv, Shaped, Knows
<1>8. QED BY <1>2, <1>4, <1>7, ServicesStep DEF SInv, Shaped

LEMMA CancelPreserves == ASSUME SInv, NEW w \in Requests, Cancel(w) PROVE SInv'
<1>1. PICK reply \in Replies :
          /\ CancelOrder(on[w], reply)
          /\ Settle(w, reply, "cancel_set", "cancel",
                    IF Executing(w) /\ crash # "none" THEN "recover" ELSE "escaped")
  BY DEF Cancel
<1>2. UNCHANGED <<records, on, phase, payments>> /\ pc[w] = "cancel"
  BY <1>1 DEF Cancel, Steady, CancelOrder
<1>3. /\ orders' \in [Keys -> {"NONE", "ACTIVE", "CANCELLED"}]
      /\ \A k \in Keys : orders[k] # "NONE" => orders'[k] # "NONE"
  BY <1>1 DEF CancelOrder, SInv, Shaped
<1>4. on[w] \in Keys => records[on[w]].order
  BY <1>2 DEF SInv, Knows
<1>5. Goto(w, "cancel_set") \/ Goto(w, "cancel") \/ Goto(w, "recover") \/ Goto(w, "escaped")
  BY <1>1, SettleMoves
<1>6. \E next : Goto(w, next) /\ Knows(w)'
  BY <1>2, <1>4, <1>5 DEF Goto, SInv, Shaped, Knows
<1>7. QED BY <1>2, <1>3, <1>6, ServicesStep

-----------------------------------------------------------------------------
(* The reads of a record or of a service, with the branch they decide      *)

LEMMA ReadPreserves ==
    ASSUME SInv, NEW w \in Requests,
           Item(w) \/ CheckOrder(w) \/ LookupOrder(w) \/ CheckPending(w) \/ CheckPay(w)
           \/ LookupPay(w) \/ CheckComplete(w)
    PROVE  SInv'
<1>1. UNCHANGED <<records, on, phase, orders, payments>>
  BY DEF Item, AddItem, CheckOrder, LookupOrder, CheckPending, CheckPay, LookupPay,
         CheckComplete, Steady, simulated
<1>2. on[w] \in Keys =>
         /\ State(w) \in {"ORDER_CREATED", "PAYMENT_PENDING"} => records[on[w]].order
         /\ State(w) = "PAYMENT_COMPLETED" => records[on[w]].order /\ records[on[w]].payment
  BY DEF SInv, RecordsBacked, State
<1>3. \E next : Goto(w, next) /\ Knows(w)'
  <2>1. CASE Item(w) \/ CheckOrder(w)
    <3>1. Goto(w, "order") \/ Goto(w, "order_lookup") \/ Goto(w, "pending")
      BY <2>1 DEF Item, CheckOrder, Branch
    <3>2. QED BY <1>1, <3>1 DEF Goto, SInv, Shaped, Knows
  <2>2. CASE LookupOrder(w)
    <3>1. (Goto(w, "order_set") /\ orders[on[w]] # "NONE") \/ Goto(w, "order_call")
      BY <2>2 DEF LookupOrder, Succeeded
    <3>2. QED BY <1>1, <3>1 DEF Goto, SInv, Shaped, Knows
  <2>3. CASE CheckPending(w)
    <3>1. \/ Goto(w, "pending_set") /\ State(w) \in {"ORDER_CREATED", "PAYMENT_PENDING"}
          \/ Goto(w, "pay") \/ Goto(w, "next")
      BY <2>3 DEF CheckPending, Branch
    <3>2. QED BY <1>1, <1>2, <3>1 DEF Goto, SInv, Shaped, Knows
  <2>4. CASE CheckPay(w)
    <3>1. \/ Goto(w, "complete")
          \/ (Goto(w, "pay_call") \/ Goto(w, "pay_lookup")) /\ State(w) = "PAYMENT_PENDING"
      BY <2>4 DEF CheckPay, Branch
    <3>2. QED BY <1>1, <1>2, <3>1 DEF Goto, SInv, Shaped, Knows
  <2>5. CASE LookupPay(w)
    <3>1. /\ (Goto(w, "pay_set") /\ on[w] \in payments) \/ Goto(w, "pay_call")
          /\ pc[w] = "pay_lookup"
      BY <2>5 DEF LookupPay, Succeeded
    <3>2. on[w] \in Keys => records[on[w]].order
      BY <3>1 DEF SInv, Knows
    <3>3. QED BY <1>1, <3>1, <3>2 DEF Goto, SInv, Shaped, Knows
  <2>6. CASE CheckComplete(w)
    <3>1. \/ Goto(w, "complete_set") /\ State(w) = "PAYMENT_COMPLETED"
          \/ Goto(w, "report")
      BY <2>6 DEF CheckComplete, Finish, Leave
    <3>2. QED BY <1>1, <1>2, <3>1 DEF Goto, SInv, Shaped, Knows
  <2>7. QED BY <2>1, <2>2, <2>3, <2>4, <2>5, <2>6
<1>4. QED BY <1>1, <1>3, ServicesStep DEF SInv, Shaped

-----------------------------------------------------------------------------
(* The assignments to a record                                             *)

LEMMA SetCartPreserves == ASSUME SInv, NEW w \in Requests, SetCart(w) PROVE SInv'
<1>1. SetState(w, "CART_CREATED") /\ UNCHANGED <<orders, payments, on, phase>>
  BY DEF SetCart, Steady, simulated
<1>2. Goto(w, "recover") \/ Goto(w, "item")
  BY DEF SetCart, Leave
<1>3. \E next : Goto(w, next) /\ Knows(w)'
  BY <1>1, <1>2 DEF Goto, SInv, Shaped, Knows
<1>4. /\ records' \in [Keys -> Record]
      /\ \A k \in Keys \ {on[w]} : records'[k] = records[k]
      /\ on[w] \in Keys => /\ records'[on[w]].state = "CART_CREATED"
                           /\ records'[on[w]].order = records[on[w]].order
                           /\ records'[on[w]].payment = records[on[w]].payment
  BY <1>1, SetStateWrites DEF SInv, States
<1>5. QED BY <1>1, <1>3, <1>4, RecordStep DEF SInv, RecordsBacked

LEMMA SetOrderPreserves == ASSUME SInv, NEW w \in Requests, SetOrder(w) PROVE SInv'
<1>1. UNCHANGED <<orders, payments, on, phase>> /\ pc[w] = "order_set"
  BY DEF SetOrder, Steady, simulated
<1>2. Goto(w, "recover") \/ Goto(w, "pending")
  BY DEF SetOrder, Leave
<1>3. \E next : Goto(w, next) /\ Knows(w)'
  BY <1>1, <1>2 DEF Goto, SInv, Shaped, Knows
<1>4. /\ records' \in [Keys -> Record]
      /\ \A k \in Keys \ {on[w]} : records'[k] = records[k]
      /\ on[w] \in Keys => /\ records'[on[w]].state = "ORDER_CREATED"
                           /\ records'[on[w]].order
                           /\ records'[on[w]].payment = records[on[w]].payment
  <2>1. records' = [records EXCEPT ![on[w]] =
                       [records[on[w]] EXCEPT !.order = TRUE, !.state = "ORDER_CREATED"]]
    BY DEF SetOrder, SInv, Shaped
  <2>2. \A r \in Record :
           LET new == [r EXCEPT !.order = TRUE, !.state = "ORDER_CREATED"]
           IN  /\ new \in Record /\ new.state = "ORDER_CREATED"
               /\ new.order /\ new.payment = r.payment
    BY DEF Record, States
  <2>3. QED BY <2>1, <2>2 DEF SInv, Shaped
<1>5. on[w] \in Keys => orders[on[w]] # "NONE"
  BY <1>1 DEF SInv, Knows
<1>6. QED BY <1>1, <1>3, <1>4, <1>5, RecordStep DEF SInv, RecordsBacked

LEMMA SetPendingPreserves == ASSUME SInv, NEW w \in Requests, SetPending(w) PROVE SInv'
<1>1. /\ SetState(w, "PAYMENT_PENDING") /\ UNCHANGED <<orders, payments, on, phase>>
      /\ pc[w] = "pending_set"
  BY DEF SetPending, Steady, simulated
<1>2. Goto(w, "pay") \/ Goto(w, "pay_lookup")
  BY DEF SetPending
<1>3. on[w] \in Keys => records[on[w]].order
  BY <1>1 DEF SInv, Knows
<1>4. /\ records' \in [Keys -> Record]
      /\ \A k \in Keys \ {on[w]} : records'[k] = records[k]
      /\ on[w] \in Keys => /\ records'[on[w]].state = "PAYMENT_PENDING"
                           /\ records'[on[w]].order = records[on[w]].order
                           /\ records'[on[w]].payment = records[on[w]].payment
  BY <1>1, SetStateWrites DEF SInv, States
<1>5. \E next : Goto(w, next) /\ Knows(w)'
  BY <1>1, <1>2, <1>3, <1>4 DEF Goto, SInv, Shaped, Knows
<1>6. QED BY <1>1, <1>3, <1>4, <1>5, RecordStep DEF SInv, RecordsBacked

LEMMA SetPayPreserves == ASSUME SInv, NEW w \in Requests, SetPay(w) PROVE SInv'
<1>1. UNCHANGED <<orders, payments, on, phase>> /\ pc[w] = "pay_set"
  BY DEF SetPay, simulated
<1>2. Goto(w, "complete") \/ Goto(w, "next")
  BY DEF SetPay
<1>3. \E next : Goto(w, next) /\ Knows(w)'
  BY <1>1, <1>2 DEF Goto, SInv, Shaped, Knows
<1>4. /\ records' \in [Keys -> Record]
      /\ \A k \in Keys \ {on[w]} : records'[k] = records[k]
      /\ on[w] \in Keys => /\ records'[on[w]].order = records[on[w]].order
                           /\ records'[on[w]].payment
  <2>1. PICK s \in States :
           records' = [records EXCEPT ![on[w]] =
                         [records[on[w]] EXCEPT !.payment = TRUE, !.state = s]]
    BY DEF SetPay, SInv, Shaped, States, Terminals
  <2>2. \A r \in Record :
           LET new == [r EXCEPT !.payment = TRUE, !.state = s]
           IN  new \in Record /\ new.order = r.order /\ new.payment
    BY DEF Record
  <2>3. QED BY <2>1, <2>2 DEF SInv, Shaped
<1>5. on[w] \in Keys => records[on[w]].order /\ on[w] \in payments
  BY <1>1 DEF SInv, Knows
<1>6. QED BY <1>1, <1>3, <1>4, <1>5, RecordStep DEF SInv, RecordsBacked

LEMMA CompletePreserves == ASSUME SInv, NEW w \in Requests, Complete(w) PROVE SInv'
<1>1. /\ SetState(w, "COMPLETED") /\ UNCHANGED <<orders, payments, on, phase>>
      /\ pc[w] = "complete_set" /\ Goto(w, "report")
  BY DEF Complete, simulated, Finish, Leave
<1>2. \E next : Goto(w, next) /\ Knows(w)'
  BY <1>1 DEF Goto, SInv, Shaped, Knows
<1>3. /\ records' \in [Keys -> Record]
      /\ \A k \in Keys \ {on[w]} : records'[k] = records[k]
      /\ on[w] \in Keys => /\ records'[on[w]].state = "COMPLETED"
                           /\ records'[on[w]].order = records[on[w]].order
                           /\ records'[on[w]].payment = records[on[w]].payment
  BY <1>1, SetStateWrites DEF SInv, States, Terminals
<1>4. on[w] \in Keys => records[on[w]].order /\ records[on[w]].payment
  BY <1>1 DEF SInv, Knows
<1>5. QED BY <1>1, <1>2, <1>3, <1>4, RecordStep DEF SInv, RecordsBacked

(* recover() compensates records with an order only.                       *)
LEMMA FailedPreserves == ASSUME SInv, NEW w \in Requests, Failed(w) PROVE SInv'
<1>1. UNCHANGED <<orders, payments, on, phase>> /\ pc[w] = "failed"
  BY DEF Failed, simulated
<1>2. PICK s \in {"COMPENSATING", "FAILED"} : SetState(w, s)
  BY DEF Failed
<1>3. /\ records' \in [Keys -> Record]
      /\ \A k \in Keys \ {on[w]} : records'[k] = records[k]
      /\ on[w] \in Keys => /\ records'[on[w]].state = s
                           /\ records'[on[w]].order = records[on[w]].order
                           /\ records'[on[w]].payment = records[on[w]].payment
  BY <1>2, SetStateWrites DEF SInv, States, Terminals
<1>4. \/ Goto(w, "cancel") /\ records[on[w]].order
      \/ Goto(w, "cancel_set") /\ ~ Executing(w) /\ ~ records[on[w]].order
      \/ Goto(w, "report")
  BY DEF Failed, Branch, Finish, Leave
<1>5. on[w] \in Keys => phase[w] = "execute" \/ records[on[w]].order
  BY <1>1 DEF SInv, Knows
<1>6. \E next : Goto(w, next) /\ Knows(w)'
  BY <1>1, <1>3, <1>4, <1>5 DEF Goto, SInv, Shaped, Knows, Executing
<1>7. QED BY <1>1, <1>2, <1>3, <1>6, RecordStep DEF SInv, RecordsBacked

LEMMA SetCancelledPreserves == ASSUME SInv, NEW w \in Requests, SetCancelled(w) PROVE SInv'
<1>1. /\ SetState(w, "COMPENSATED") /\ UNCHANGED <<orders, payments, on, phase>>
      /\ pc[w] = "cancel_set" /\ (Goto(w, "report") \/ Goto(w, "next"))
  BY DEF SetCancelled, simulated, Finish, Leave
<1>2. \E next : Goto(w, next) /\ Knows(w)'
  BY <1>1 DEF Goto, SInv, Shaped, Knows
<1>3. /\ records' \in [Keys -> Record]
      /\ \A k \in Keys \ {on[w]} : records'[k] = records[k]
      /\ on[w] \in Keys => /\ records'[on[w]].state = "COMPENSATED"
                           /\ records'[on[w]].order = records[on[w]].order
                           /\ records'[on[w]].payment = records[on[w]].payment
  BY <1>1, SetStateWrites DEF SInv, States, Terminals
<1>4. on[w] \in Keys => records[on[w]].order
  BY <1>1 DEF SInv, Knows
<1>5. QED BY <1>1, <1>2, <1>3, <1>4, RecordStep DEF SInv, RecordsBacked

-----------------------------------------------------------------------------
(* The steps that take up another record                                   *)

LEMMA BeginPreserves == ASSUME SInv, NEW w \in Requests, Begin(w) PROVE SInv'
<1>1. /\ UNCHANGED <<orders, payments, phase>> /\ pc[w] = "idle"
      /\ on' = [on EXCEPT ![w] = KeyOf(w)]
      /\ Goto(w, "report") \/ Goto(w, "cart")
  BY DEF Begin, simulated
<1>2. \/ UNCHANGED records
      \/ /\ records[KeyOf(w)] = NoRecord
         /\ records' = [records EXCEPT ![KeyOf(w)].state = "STARTED"]
  BY DEF Begin
<1>3. /\ records' \in [Keys -> Record]
      /\ \A k \in Keys : \/ records'[k] = records[k]
                         \/ /\ records'[k].state = "STARTED"
                            /\ records'[k].order = records[k].order
                            /\ records'[k].payment = records[k].payment
  BY <1>2 DEF SInv, Shaped, Record, States
<1>4. Shaped' /\ Alone(w) /\ Knows(w)'
  BY <1>1, <1>3 DEF SInv, Shaped, Goto, Alone, Knows
<1>5. Grows
  BY <1>1, <1>3 DEF Grows
<1>6. RecordsBacked'
  BY <1>1, <1>3 DEF SInv, RecordsBacked
<1>7. QED BY <1>4, <1>5, <1>6, StepPreserves

LEMMA TurnPreserves ==
    ASSUME SInv, NEW w \in Requests, Recover(w) \/ NextRecord(w) \/ Report(w)
    PROVE  SInv'
<1>1. UNCHANGED <<orders, payments, records>>
  BY DEF Recover, NextRecord, Report, simulated
<1>2. Goto(w, "next") \/ Goto(w, "report") \/ Goto(w, "order") \/ Goto(w, "done")
  BY DEF Recover, NextRecord, Report
<1>3. /\ on' = [on EXCEPT ![w] = on'[w]]
      /\ phase' = [phase EXCEPT ![w] = phase'[w]]
  BY DEF Recover, NextRecord, Report, SInv, Shaped
<1>4. Shaped' /\ Alone(w) /\ Knows(w)'
  BY <1>1, <1>2, <1>3 DEF SInv, Shaped, Goto, Alone, Knows
<1>5. Grows /\ RecordsBacked'
  BY <1>1 DEF Grows, SInv, RecordsBacked
<1>6. QED BY <1>4, <1>5, StepPreserves

-----------------------------------------------------------------------------

LEMMA SInvHolds == Spec => []SInv
<1>1. Init => SInv
  <2> SUFFICES ASSUME Init PROVE SInv
    OBVIOUS
  <2>1. Shaped
    BY DEF Init, ServicesInit, Shaped, NoRecord, Record
  <2>2. RecordsBacked
    BY DEF Init, NoRecord, RecordsBacked
  <2>3. \A w \in Requests : Knows(w)
    BY DEF Init, Knows
  <2>4. QED BY <2>1, <2>2, <2>3 DEF SInv
<1>2. SInv /\ [Next]_vars => SInv'
  <2> SUFFICES ASSUME SInv, [Next]_vars PROVE SInv'
    OBVIOUS
  <2>1. CASE UNCHANGED vars
    BY <2>1 DEF vars, simulated, run, SInv, Shaped, RecordsBacked, Knows
  <2>2. ASSUME NEW w \in Requests, Step(w) PROVE SInv'
    BY <2>2, CartPreserves, CallOrderPreserves, CallPayPreserves, CancelPreserves, ReadPreserves,
       SetCartPreserves, SetOrderPreserves, SetPendingPreserves, SetPayPreserves,
       CompletePreserves, FailedPreserves, SetCancelledPreserves, TurnPreserves DEF Step
  <2>3. QED BY <2>1, <2>2, BeginPreserves DEF Next
<1>3. QED BY <1>1, <1>2, PTL DEF Spec

(* No record claims an order or a payment the services do not hold, though *)
(* executing and recovering threads write it without a common lock         *)
(* (orchestrators.py, execute and recover).                                 *)
THEOREM RecordsBackedHolds == Spec => []RecordsBacked
BY SInvHolds, PTL DEF SInv

-----------------------------------------------------------------------------
(* The types                                                               *)

Typed ==
    /\ TypeOK
    /\ \A w \in Requests : pc[w] # "idle" => on[w] \in Keys
    /\ \A v, w \in lock : v = w

(* The key of a request is a key.                                          *)
LEMMA KeyOfTyped == \A w \in Requests : KeyOf(w) \in Keys
BY SimulationAssumption DEF KeyOf, Requests

(* A set without two members has one at most.                              *)
LEMMA AtMostOne ==
    ASSUME NEW S, \A u, v \in S : u = v
    PROVE  Cardinality(S) <= 1
<1>1. CASE S = {}
  BY <1>1, FS_EmptySet
<1>2. ASSUME NEW u \in S PROVE Cardinality(S) <= 1
  <2>1. S = {u}
    BY <1>2
  <2>2. Cardinality({u}) = 1
    BY FS_Singleton
  <2>3. QED BY <2>1, <2>2
<1>3. QED BY <1>1, <1>2

(* Every operation of the services keeps their types.                      *)
LEMMA ServicesTyped ==
    ASSUME ServicesTypeOK, NEW k \in Keys, NEW reply,
           CreateCart(k, reply) \/ AddItem(k) \/ CreateOrder(k, reply)
           \/ ExecutePayment(k, reply) \/ CancelOrder(k, reply)
    PROVE  ServicesTypeOK'
<1>1. ASSUME NEW op \in {"execute_payment", "cancel_order"}, Count(op, k)
      PROVE  counts' \in [{"execute_payment", "cancel_order"} -> [Keys -> 0 .. CountsCap]]
  <2>1. counts[op] \in [Keys -> 0 .. CountsCap]
    BY DEF ServicesTypeOK
  <2>2. counts[op][k] < CountsCap => [counts[op] EXCEPT ![k] = @ + 1] \in [Keys -> 0 .. CountsCap]
    BY <2>1 DEF CountsCap
  <2>3. QED BY <1>1, <2>2 DEF Count, ServicesTypeOK
<1>2. CASE CreateCart(k, reply)
  BY <1>2 DEF CreateCart, ServicesTypeOK, ItemsCap
<1>3. CASE AddItem(k)
  BY <1>3 DEF AddItem, ServicesTypeOK, ItemsCap
<1>4. CASE CreateOrder(k, reply)
  BY <1>4 DEF CreateOrder, ServicesTypeOK
<1>5. CASE ExecutePayment(k, reply)
  BY <1>1, <1>5 DEF ExecutePayment, ServicesTypeOK
<1>6. CASE CancelOrder(k, reply)
  BY <1>1, <1>6 DEF CancelOrder, ServicesTypeOK
<1>7. QED BY <1>2, <1>3, <1>4, <1>5, <1>6

(* The next attempt is one of those the policy allows.                     *)
LEMMA SettleTyped ==
    ASSUME Typed, NEW w \in Requests, NEW reply,
           NEW next \in Working, NEW again \in Working, NEW raised \in Working,
           Settle(w, reply, next, again, raised)
    PROVE  /\ attempts' \in [Requests -> 0 .. MaxAttempts - 1]
           /\ \E p \in Working : Goto(w, p)
<1>1. attempts \in [Requests -> 0 .. MaxAttempts - 1] /\ MaxAttempts \in Nat \ {0}
  BY SimulationAssumption DEF Typed, TypeOK
<1>2. CASE Succeeded(w, next)
  BY <1>1, <1>2 DEF Succeeded
<1>3. CASE Retried(w, reply, again, raised)
  <2>1. CASE reply = "transient" /\ attempts[w] + 1 < MaxAttempts
    <3>1. attempts' = [attempts EXCEPT ![w] = attempts[w] + 1] /\ Goto(w, again)
      BY <1>3, <2>1 DEF Retried, Branch
    <3>2. attempts[w] + 1 \in 0 .. MaxAttempts - 1
      BY <1>1, <2>1
    <3>3. QED BY <1>1, <3>1, <3>2
  <2>2. CASE ~ (reply = "transient" /\ attempts[w] + 1 < MaxAttempts)
    <3>1. attempts' = [attempts EXCEPT ![w] = 0] /\ Goto(w, raised)
      BY <1>3, <2>2 DEF Retried, Branch
    <3>2. QED BY <1>1, <3>1
  <2>3. QED BY <2>1, <2>2
<1>4. QED BY <1>2, <1>3 DEF Settle

LEMMA SucceededTyped ==
    ASSUME Typed, NEW w \in Requests, NEW next \in Working, Succeeded(w, next)
    PROVE  attempts' \in [Requests -> 0 .. MaxAttempts - 1] /\ \E p \in Working : Goto(w, p)
BY SimulationAssumption DEF Typed, TypeOK, Succeeded

(* A step that leaves the assignment of work alone                         *)
LEMMA TypedStep ==
    ASSUME Typed, NEW w \in Requests, pc[w] # "idle",
           UNCHANGED <<run, created, on, phase, queue, outcome>>,
           ServicesTypeOK', records' \in [Keys -> Record],
           lock' \in {lock, lock \ {w}},
           \E p \in Working : Goto(w, p),
           attempts' \in [Requests -> 0 .. MaxAttempts - 1],
           UNCHANGED answer \/ answer' = [answer EXCEPT ![w] = on[w]]
    PROVE  Typed'
<1>1. lock' \subseteq lock
  OBVIOUS
<1>2. lock' \subseteq Requests /\ (\A u, v \in lock' : u = v)
  BY <1>1 DEF Typed, TypeOK
<1>3. Cardinality(lock') <= 1
  BY <1>2, AtMostOne
<1>4. PICK p \in Working : Goto(w, p)
  OBVIOUS
<1>5. pc' \in [Requests -> Working \cup {"idle", "done"}]
  BY <1>4 DEF Typed, TypeOK, Goto
<1>6. answer' \in [Requests -> Keys \cup {NoKey}]
  BY DEF Typed, TypeOK
<1>7. TypeOK'
  BY <1>2, <1>3, <1>5, <1>6 DEF Typed, TypeOK, run
<1>8. \A v \in Requests : pc'[v] # "idle" => on'[v] \in Keys
  BY <1>4 DEF Typed, TypeOK, Goto
<1>9. QED BY <1>2, <1>7, <1>8 DEF Typed

(* The steps that call a service keep the types,                           *)
LEMMA CallTyped ==
    ASSUME Typed, NEW w \in Requests, Cart(w) \/ CallOrder(w) \/ CallPay(w) \/ Cancel(w) \/ Item(w)
    PROVE  Typed'
<1>1. pc[w] # "idle" /\ on[w] \in Keys /\ ServicesTypeOK /\ records \in [Keys -> Record]
  BY DEF Typed, TypeOK, Cart, CallOrder, CallPay, Cancel, Item
<1>2. UNCHANGED <<run, created, on, phase, queue, outcome, records, answer>>
  BY DEF Cart, CallOrder, CallPay, Cancel, Item, Steady
<1>3. ServicesTypeOK'
  <2>1. UNCHANGED simulated \/ \E reply : CreateCart(on[w], reply) \/ AddItem(on[w])
           \/ CreateOrder(on[w], reply) \/ ExecutePayment(on[w], reply)
           \/ CancelOrder(on[w], reply)
    BY DEF Cart, CallOrder, CallPay, Cancel, Item
  <2>2. UNCHANGED simulated => ServicesTypeOK'
    BY <1>1 DEF simulated, ServicesTypeOK
  <2>3. QED BY <1>1, <2>1, <2>2, ServicesTyped
<1>4. lock' \in {lock, lock \ {w}}
  BY DEF Cart, CallOrder, CallPay, Cancel, Item, Leave
<1>5. /\ attempts' \in [Requests -> 0 .. MaxAttempts - 1]
      /\ \E p \in Working : Goto(w, p)
  <2>0. attempts \in [Requests -> 0 .. MaxAttempts - 1]
    BY DEF Typed, TypeOK
  <2>9. /\ "order" \in Working /\ "cart_set" \in Working /\ "cart" \in Working
        /\ "failed" \in Working /\ "order_set" \in Working /\ "order_lookup" \in Working
        /\ "escaped" \in Working /\ "recover" \in Working /\ "pay_set" \in Working
        /\ "pay_lookup" \in Working /\ "cancel_set" \in Working /\ "cancel" \in Working
    BY DEF Working
  <2>1. CASE Cart(w)
    <3>1. \/ Goto(w, "order") /\ UNCHANGED attempts
          \/ Succeeded(w, "cart_set")
          \/ \E reply \in Replies : Settle(w, reply, "cart_set", "cart", "failed")
      BY <2>1 DEF Cart
    <3>2. QED BY <2>0, <2>9, <3>1, SettleTyped, SucceededTyped
  <2>2. CASE CallOrder(w)
    <3>1. \/ Succeeded(w, "order_set") \/ Succeeded(w, "escaped")
          \/ \E reply \in Replies : Settle(w, reply, "order_set", "order_lookup", "failed")
      BY <2>2 DEF CallOrder
    <3>2. QED BY <2>9, <3>1, SettleTyped, SucceededTyped
  <2>3. CASE CallPay(w)
    <3>1. \/ (Goto(w, "recover") \/ Goto(w, "failed")) /\ UNCHANGED attempts
          \/ \E reply \in Replies : Settle(w, reply, "pay_set", "pay_lookup", "failed")
      BY <2>3 DEF CallPay, Leave
    <3>2. QED BY <2>0, <2>9, <3>1, SettleTyped
  <2>4. CASE Cancel(w)
    <3>1. \E reply \in Replies :
             \/ Settle(w, reply, "cancel_set", "cancel", "recover")
             \/ Settle(w, reply, "cancel_set", "cancel", "escaped")
      BY <2>4 DEF Cancel
    <3>2. QED BY <2>9, <3>1, SettleTyped
  <2>5. CASE Item(w)
    BY <2>0, <2>5 DEF Item, Working
  <2>6. QED BY <2>1, <2>2, <2>3, <2>4, <2>5
<1>6. QED BY <1>1, <1>2, <1>3, <1>4, <1>5, TypedStep

(* those that read and branch,                                             *)
LEMMA ReadTyped ==
    ASSUME Typed, NEW w \in Requests,
           CheckOrder(w) \/ LookupOrder(w) \/ CheckPending(w) \/ CheckPay(w)
           \/ LookupPay(w) \/ CheckComplete(w)
    PROVE  Typed'
<1>1. pc[w] # "idle" /\ records \in [Keys -> Record]
      /\ attempts \in [Requests -> 0 .. MaxAttempts - 1]
  BY DEF Typed, TypeOK, CheckOrder, LookupOrder, CheckPending, CheckPay, LookupPay, CheckComplete
<1>2. UNCHANGED <<run, created, on, phase, queue, outcome, records, simulated>>
  BY DEF CheckOrder, LookupOrder, CheckPending, CheckPay, LookupPay, CheckComplete, Steady
<1>3. ServicesTypeOK'
  BY <1>2 DEF Typed, TypeOK, ServicesTypeOK, simulated
<1>4. /\ lock' \in {lock, lock \ {w}}
      /\ UNCHANGED answer \/ answer' = [answer EXCEPT ![w] = on[w]]
  BY DEF CheckOrder, LookupOrder, CheckPending, CheckPay, LookupPay, CheckComplete, Steady, Finish,
         Leave
<1>5. /\ attempts' \in [Requests -> 0 .. MaxAttempts - 1]
      /\ \E p \in Working : Goto(w, p)
  BY <1>1, SucceededTyped
     DEF CheckOrder, LookupOrder, CheckPending, CheckPay, LookupPay, CheckComplete, Finish,
         Leave, Branch, Working
<1>6. QED BY <1>1, <1>2, <1>3, <1>4, <1>5, TypedStep

(* those that write the record,                                            *)
LEMMA WriteTyped ==
    ASSUME Typed, NEW w \in Requests,
           SetCart(w) \/ SetOrder(w) \/ SetPending(w) \/ SetPay(w) \/ Complete(w) \/ Failed(w)
           \/ SetCancelled(w)
    PROVE  Typed'
<1>1. pc[w] # "idle" /\ UNCHANGED <<run, created, on, phase, queue, outcome, simulated, attempts>>
  BY DEF SetCart, SetOrder, SetPending, SetPay, Complete, Failed, SetCancelled, Steady
<1>2. ServicesTypeOK' /\ attempts' \in [Requests -> 0 .. MaxAttempts - 1]
  BY <1>1 DEF Typed, TypeOK, ServicesTypeOK, simulated
<1>3. /\ lock' \in {lock, lock \ {w}}
      /\ UNCHANGED answer \/ answer' = [answer EXCEPT ![w] = on[w]]
  BY DEF SetCart, SetOrder, SetPending, SetPay, Complete, Failed, SetCancelled, Steady, Finish,
         Leave
<1>4. \E p \in Working : Goto(w, p)
  BY DEF SetCart, SetOrder, SetPending, SetPay, Complete, Failed, SetCancelled, Finish,
         Leave, Branch, Working
<1>5. records' \in [Keys -> Record]
  <2>1. records \in [Keys -> Record]
    BY DEF Typed, TypeOK
  <2>2. ASSUME NEW s \in States, SetState(w, s) PROVE records' \in [Keys -> Record]
    BY <2>1, <2>2 DEF SetState, Record
  <2>3. CASE SetOrder(w)
    BY <2>1, <2>3 DEF SetOrder, Record, States
  <2>4. CASE SetPay(w)
    BY <2>1, <2>4 DEF SetPay, Record, States, Terminals
  <2>5. QED
    BY <2>2, <2>3, <2>4 DEF SetCart, SetPending, Complete, Failed, SetCancelled, States, Terminals
<1>6. QED BY <1>1, <1>2, <1>3, <1>4, <1>5, TypedStep

(* the one that takes a request,                                           *)
LEMMA BeginTyped == ASSUME Typed, NEW w \in Requests, Begin(w) PROVE Typed'
<1>1. UNCHANGED <<run, simulated, phase, attempts, queue, outcome>> /\ KeyOf(w) \in Keys
  BY KeyOfTyped DEF Begin
<1>2. ServicesTypeOK'
  BY <1>1 DEF Typed, TypeOK, ServicesTypeOK, simulated
<1>3. on' = [on EXCEPT ![w] = KeyOf(w)] /\ \E p \in Working : Goto(w, p)
  BY DEF Begin, Working
<1>4. records' \in [Keys -> Record]
  <2>1. UNCHANGED records \/ records' = [records EXCEPT ![KeyOf(w)].state = "STARTED"]
    BY DEF Begin
  <2>2. QED BY <2>1 DEF Typed, TypeOK, Record, States
<1>5. created' \in Seq(Keys)
  <2>1. UNCHANGED created \/ created' = Append(created, KeyOf(w))
    BY DEF Begin
  <2>2. created \in Seq(Keys)
    BY DEF Typed, TypeOK
  <2>3. QED BY <1>1, <2>1, <2>2
<1>6. lock' \subseteq Requests /\ (\A u, v \in lock' : u = v)
  <2>1. lock' = {w} \/ lock' = {}
    BY DEF Begin
  <2>2. QED BY <2>1
<1>7. Cardinality(lock') <= 1
  BY <1>6, AtMostOne
<1>8. answer' \in [Requests -> Keys \cup {NoKey}]
  <2>1. UNCHANGED answer \/ answer' = [answer EXCEPT ![w] = KeyOf(w)]
    BY DEF Begin
  <2>2. QED BY <1>1, <2>1 DEF Typed, TypeOK
<1>9. /\ pc' \in [Requests -> Working \cup {"idle", "done"}]
      /\ on' \in [Requests -> Keys \cup {NoKey}]
      /\ \A v \in Requests : pc'[v] # "idle" => on'[v] \in Keys
  BY <1>1, <1>3 DEF Typed, TypeOK, Goto
<1>10. QED BY <1>1, <1>2, <1>4, <1>5, <1>6, <1>7, <1>8, <1>9 DEF Typed, TypeOK, run

(* and those between two records.                                          *)
LEMMA TurnTyped ==
    ASSUME Typed, NEW w \in Requests, Recover(w) \/ NextRecord(w) \/ Report(w)
    PROVE  Typed'
<1>1. /\ UNCHANGED <<run, simulated, records, created, lock, attempts>>
      /\ pc[w] # "idle"
  BY DEF Recover, NextRecord, Report
<1>2. ServicesTypeOK'
  BY <1>1 DEF Typed, TypeOK, ServicesTypeOK, simulated
<1>3. PICK p \in Working \cup {"done"} : Goto(w, p)
  BY DEF Recover, NextRecord, Report, Working
<1>4. queue' \in [Requests -> SUBSET Keys]
  <2>1. Intermediate \subseteq Keys
    BY DEF Intermediate, Range, Typed, TypeOK
  <2>2. queue \in [Requests -> SUBSET Keys]
    BY DEF Typed, TypeOK
  <2>3. CASE Recover(w)
    BY <2>1, <2>2, <2>3 DEF Recover
  <2>4. CASE NextRecord(w) \/ Report(w)
    <3>1. UNCHANGED queue \/ \E k : queue' = [queue EXCEPT ![w] = queue[w] \ {k}]
      BY <2>4 DEF NextRecord, Report
    <3>2. QED BY <2>2, <3>1
  <2>5. QED BY <2>3, <2>4
<1>5. on' \in [Requests -> Keys \cup {NoKey}] /\ on'[w] \in Keys
  BY <1>1 DEF Recover, NextRecord, Report, First, Typed, TypeOK
<1>6. phase' \in [Requests -> {"execute", "recover"}]
  BY DEF Recover, NextRecord, Report, Typed, TypeOK
<1>7. answer' \in [Requests -> Keys \cup {NoKey}]
  BY DEF Recover, NextRecord, Report, Typed, TypeOK
<1>8. outcome' \in [Requests -> States \cup {"NONE"}]
  <2>1. \A k \in Keys : records[k].state \in States \cup {"NONE"}
    BY DEF Typed, TypeOK, Record
  <2>2. CASE Report(w)
    <3>1. answer'[w] # NoKey => records[answer'[w]].state \in States \cup {"NONE"}
      BY <1>7, <2>1
    <3>2. QED BY <2>2, <3>1 DEF Report, Typed, TypeOK, States, Terminals
  <2>3. CASE Recover(w) \/ NextRecord(w)
    BY <2>3 DEF Recover, NextRecord, Typed, TypeOK
  <2>4. QED BY <2>2, <2>3
<1>9. \A v \in Requests : pc'[v] # "idle" => on'[v] \in Keys
  <2>1. \A v \in Requests \ {w} : pc'[v] = pc[v] /\ on'[v] = on[v]
    BY <1>3 DEF Recover, NextRecord, Report, Goto, Typed, TypeOK
  <2>2. QED BY <1>5, <2>1 DEF Typed
<1>10. pc' \in [Requests -> Working \cup {"idle", "done"}]
  BY <1>3 DEF Goto, Typed, TypeOK
<1>11. QED BY <1>1, <1>2, <1>4, <1>5, <1>6, <1>7, <1>8, <1>9, <1>10 DEF Typed, TypeOK, run

(* The types, and what is left of them when a worker is idle, are          *)
(* invariant.                                                              *)
LEMMA TypedHolds == Spec => []Typed
<1>1. Init => Typed
  <2> SUFFICES ASSUME Init PROVE Typed
    OBVIOUS
  <2>1. ServicesTypeOK /\ crash \in Boundaries /\ concurrency \in Nat
    BY SimulationAssumption DEF Init, ServicesInit, ServicesTypeOK, ItemsCap, CountsCap
  <2>2. records \in [Keys -> Record]
    BY DEF Init, NoRecord, Record
  <2>3. Cardinality(lock) <= 1
    BY FS_EmptySet DEF Init
  <2>4. attempts \in [Requests -> 0 .. MaxAttempts - 1]
    BY SimulationAssumption DEF Init
  <2>5. QED BY <2>1, <2>2, <2>3, <2>4 DEF Init, Typed, TypeOK
<1>2. Typed /\ [Next]_vars => Typed'
  <2> SUFFICES ASSUME Typed, [Next]_vars PROVE Typed'
    OBVIOUS
  <2>1. CASE UNCHANGED vars
    BY <2>1 DEF vars, simulated, run, Typed, TypeOK, ServicesTypeOK
  <2>2. ASSUME NEW w \in Requests, Step(w) PROVE Typed'
    BY <2>2, CallTyped, ReadTyped, WriteTyped, TurnTyped DEF Step
  <2>3. QED BY <2>1, <2>2, BeginTyped DEF Next
<1>3. QED BY <1>1, <1>2, PTL DEF Spec

(* Records, lock, queues and counters keep their types, and at most one    *)
(* execution holds the lock (orchestrators.py, execute).                    *)
THEOREM TypeCorrect == Spec => []TypeOK
BY TypedHolds, PTL DEF Typed

-----------------------------------------------------------------------------
(* What a step changes, read at the worker that takes it and at the record *)
(* under its hands; everything else is as it was.                          *)

Framed(w) ==
    /\ UNCHANGED <<scenario, run>>
    /\ \A v \in Requests \ {w} :
          /\ pc'[v] = pc[v] /\ on'[v] = on[v] /\ phase'[v] = phase[v]
          /\ attempts'[v] = attempts[v] /\ queue'[v] = queue[v]
          /\ answer'[v] = answer[v] /\ outcome'[v] = outcome[v]
          /\ v \in lock' <=> v \in lock
    /\ \A k \in Keys \ {on'[w]} :
          /\ records'[k] = records[k] /\ items'[k] = items[k] /\ orders'[k] = orders[k]
          /\ counts'["cancel_order"][k] = counts["cancel_order"][k]
          /\ k \in carts' <=> k \in carts
          /\ k \in payments' <=> k \in payments
          /\ k \in Range(created') <=> k \in Range(created)

(* The registers of a worker that goes on with its record                  *)
Keeps(w) ==
    /\ on'[w] = on[w] /\ phase'[w] = phase[w] /\ queue'[w] = queue[w]
    /\ outcome'[w] = outcome[w] /\ created' = created

(* An operation of the services on key k alone                             *)
LEMMA ServiceAlone ==
    ASSUME ServicesTypeOK, NEW k \in Keys, NEW reply,
           CreateCart(k, reply) \/ AddItem(k) \/ CreateOrder(k, reply)
           \/ ExecutePayment(k, reply) \/ CancelOrder(k, reply) \/ UNCHANGED simulated
    PROVE  /\ scenario' = scenario
           /\ \A j \in Keys \ {k} :
                 /\ items'[j] = items[j] /\ orders'[j] = orders[j]
                 /\ counts'["cancel_order"][j] = counts["cancel_order"][j]
                 /\ j \in carts' <=> j \in carts
                 /\ j \in payments' <=> j \in payments
<1>1. items \in [Keys -> 0 .. ItemsCap] /\ orders \in [Keys -> {"NONE", "ACTIVE", "CANCELLED"}]
      /\ counts \in [{"execute_payment", "cancel_order"} -> [Keys -> 0 .. CountsCap]]
  BY DEF ServicesTypeOK
<1>2. CASE CreateCart(k, reply)
  BY <1>1, <1>2 DEF CreateCart
<1>3. CASE AddItem(k)
  BY <1>1, <1>3 DEF AddItem
<1>4. CASE CreateOrder(k, reply)
  BY <1>1, <1>4 DEF CreateOrder
<1>5. CASE ExecutePayment(k, reply)
  <2>1. counts'["cancel_order"] = counts["cancel_order"]
    BY <1>1, <1>5 DEF ExecutePayment, Count
  <2>2. QED BY <1>1, <1>5, <2>1 DEF ExecutePayment
<1>6. CASE CancelOrder(k, reply)
  <2>1. \A j \in Keys \ {k} : counts'["cancel_order"][j] = counts["cancel_order"][j]
    BY <1>1, <1>6 DEF CancelOrder, Count
  <2>2. QED BY <1>1, <1>6, <2>1 DEF CancelOrder
<1>7. CASE UNCHANGED simulated
  BY <1>7 DEF simulated
<1>8. QED BY <1>2, <1>3, <1>4, <1>5, <1>6, <1>7

(* A step writes nothing but at its worker and at the record it works on.  *)
LEMMA StepFramed ==
    ASSUME Typed, NEW w \in Requests, Step(w)
    PROVE  Framed(w)
<1>1. pc[w] # "idle" /\ on[w] \in Keys
  BY DEF Typed, Step, Cart, SetCart, Item, CheckOrder, LookupOrder, CallOrder, SetOrder, CheckPending,
         SetPending, CheckPay, LookupPay, CallPay, SetPay, CheckComplete, Complete, Failed, Cancel,
         SetCancelled, Recover, NextRecord, Report
<1>2. UNCHANGED <<run, created>>
  BY DEF Step, Cart, SetCart, Item, CheckOrder, LookupOrder, CallOrder, SetOrder, CheckPending,
         SetPending, CheckPay, LookupPay, CallPay, SetPay, CheckComplete, Complete, Failed, Cancel,
         SetCancelled, Recover, NextRecord, Report, Steady
<1>3. /\ scenario' = scenario
      /\ \A j \in Keys \ {on[w]} :
            /\ items'[j] = items[j] /\ orders'[j] = orders[j]
            /\ counts'["cancel_order"][j] = counts["cancel_order"][j]
            /\ j \in carts' <=> j \in carts
            /\ j \in payments' <=> j \in payments
  <2>1. UNCHANGED simulated \/ \E reply : CreateCart(on[w], reply) \/ AddItem(on[w])
           \/ CreateOrder(on[w], reply) \/ ExecutePayment(on[w], reply)
           \/ CancelOrder(on[w], reply)
    BY DEF Step, Cart, SetCart, Item, CheckOrder, LookupOrder, CallOrder, SetOrder, CheckPending,
           SetPending, CheckPay, LookupPay, CallPay, SetPay, CheckComplete, Complete, Failed, Cancel,
           SetCancelled, Recover, NextRecord, Report
  <2>2. QED BY <1>1, <2>1, ServiceAlone DEF Typed, TypeOK
<1>4. lock' \in {lock, lock \ {w}}
  BY DEF Step, Cart, SetCart, Item, CheckOrder, LookupOrder, CallOrder, SetOrder, CheckPending,
         SetPending, CheckPay, LookupPay, CallPay, SetPay, CheckComplete, Complete, Failed, Cancel,
         SetCancelled, Recover, NextRecord, Report, Leave, Finish
<1>5. \A k \in Keys \ {on[w]} : records'[k] = records[k]
  <2>1. UNCHANGED records \/ \E s : SetState(w, s) \/ SetOrder(w) \/ SetPay(w)
    BY DEF Step, Cart, SetCart, Item, CheckOrder, LookupOrder, CallOrder, CheckPending,
           SetPending, CheckPay, LookupPay, CallPay, CheckComplete, Complete, Failed, Cancel,
           SetCancelled, Recover, NextRecord, Report
  <2>2. QED BY <2>1 DEF SetState, SetOrder, SetPay, Typed, TypeOK
<1>6. \A v \in Requests \ {w} :
         /\ on'[v] = on[v] /\ phase'[v] = phase[v] /\ queue'[v] = queue[v]
         /\ answer'[v] = answer[v] /\ outcome'[v] = outcome[v]
  <2>1. /\ UNCHANGED on \/ \E x : on' = [on EXCEPT ![w] = x]
        /\ UNCHANGED phase \/ \E x : phase' = [phase EXCEPT ![w] = x]
        /\ UNCHANGED queue \/ \E x : queue' = [queue EXCEPT ![w] = x]
        /\ UNCHANGED answer \/ \E x : answer' = [answer EXCEPT ![w] = x]
        /\ UNCHANGED outcome \/ \E x : outcome' = [outcome EXCEPT ![w] = x]
    BY DEF Step, Cart, SetCart, Item, CheckOrder, LookupOrder, CallOrder, SetOrder, CheckPending,
           SetPending, CheckPay, LookupPay, CallPay, SetPay, CheckComplete, Complete, Failed, Cancel,
           SetCancelled, Recover, NextRecord, Report, Finish, Steady
  <2>2. QED BY <2>1 DEF Typed, TypeOK
<1>7. \A v \in Requests \ {w} : pc'[v] = pc[v]
  <2>1. \E next : Goto(w, next)
    BY SettleMoves
       DEF Step, Cart, SetCart, Item, CheckOrder, LookupOrder, CallOrder, SetOrder, CheckPending,
           SetPending, CheckPay, LookupPay, CallPay, SetPay, CheckComplete, Complete, Failed, Cancel,
           SetCancelled, Recover, NextRecord, Report, Finish, Leave, Branch, Succeeded
  <2>2. QED BY <2>1 DEF Goto, Typed, TypeOK
<1>8. \A v \in Requests \ {w} : attempts'[v] = attempts[v]
  <2>1. UNCHANGED attempts \/ \E x : attempts' = [attempts EXCEPT ![w] = x]
    BY DEF Step, Cart, SetCart, Item, CheckOrder, LookupOrder, CallOrder, SetOrder, CheckPending,
           SetPending, CheckPay, LookupPay, CallPay, SetPay, CheckComplete, Complete, Failed, Cancel,
           SetCancelled, Recover, NextRecord, Report, Succeeded, Settle, Retried
  <2>2. QED BY <2>1 DEF Typed, TypeOK
<1>9. \A k \in Keys \ {on'[w]} :
          /\ records'[k] = records[k] /\ items'[k] = items[k] /\ orders'[k] = orders[k]
          /\ counts'["cancel_order"][k] = counts["cancel_order"][k]
          /\ k \in carts' <=> k \in carts
          /\ k \in payments' <=> k \in payments
  <2>1. on' = on \/ UNCHANGED <<records, simulated>>
    BY DEF Step, Cart, SetCart, Item, CheckOrder, LookupOrder, CallOrder, SetOrder, CheckPending,
           SetPending, CheckPay, LookupPay, CallPay, SetPay, CheckComplete, Complete, Failed, Cancel,
           SetCancelled, Recover, NextRecord, Report, Steady
  <2>2. QED BY <1>3, <1>5, <2>1 DEF simulated
<1>10. QED BY <1>2, <1>3, <1>4, <1>6, <1>7, <1>8, <1>9 DEF Framed

-----------------------------------------------------------------------------
(* What each action does, read at the worker that takes it                 *)

(* execute_one takes a request: its key is finished, under way or new.     *)
LEMMA BeginEffect ==
    ASSUME Typed, NEW w \in Requests, Begin(w)
    PROVE  /\ Framed(w) /\ UNCHANGED <<simulated, phase, attempts, queue, outcome>>
           /\ pc[w] = "idle" /\ lock = {} /\ Taken(w) /\ on'[w] = KeyOf(w)
           /\ LET k == KeyOf(w)
              IN  \/ /\ records[k].state \in Terminals
                     /\ UNCHANGED <<records, created, lock>>
                     /\ pc'[w] = "report" /\ answer'[w] = k
                  \/ /\ records[k].state \notin Terminals
                     /\ lock' = {w} /\ pc'[w] = "cart" /\ answer' = answer
                     /\ \/ records[k] # NoRecord /\ UNCHANGED <<records, created>>
                        \/ /\ records[k] = NoRecord
                           /\ records'[k].state = "STARTED"
                           /\ ~ records'[k].order /\ ~ records'[k].payment
                           /\ Range(created') = Range(created) \cup {k}
<1>1. /\ UNCHANGED <<run, simulated, phase, attempts, queue, outcome>>
      /\ pc[w] = "idle" /\ lock = {} /\ Taken(w) /\ on' = [on EXCEPT ![w] = KeyOf(w)]
  BY DEF Begin
<1>2. KeyOf(w) \in Keys
  BY KeyOfTyped
<1>3. /\ pc \in [Requests -> Working \cup {"idle", "done"}]
      /\ on \in [Requests -> Keys \cup {NoKey}] /\ answer \in [Requests -> Keys \cup {NoKey}]
      /\ records \in [Keys -> Record] /\ created \in Seq(Keys)
  BY DEF Typed, TypeOK
<1>4. CASE /\ records[KeyOf(w)].state \in Terminals
           /\ answer' = [answer EXCEPT ![w] = KeyOf(w)]
           /\ Goto(w, "report")
           /\ UNCHANGED <<lock, records, created>>
  <2>1. Framed(w)
    BY <1>1, <1>2, <1>3, <1>4 DEF Framed, Goto, simulated, run
  <2>2. QED BY <1>1, <1>2, <1>3, <1>4, <2>1 DEF Goto
<1>5. CASE /\ records[KeyOf(w)].state \notin Terminals
           /\ lock' = {w} /\ Goto(w, "cart") /\ UNCHANGED answer
           /\ records[KeyOf(w)] # NoRecord /\ UNCHANGED <<records, created>>
  <2>1. Framed(w)
    BY <1>1, <1>2, <1>3, <1>5 DEF Framed, Goto, simulated, run
  <2>2. QED BY <1>1, <1>2, <1>3, <1>5, <2>1 DEF Goto
<1>6. CASE /\ records[KeyOf(w)].state \notin Terminals
           /\ lock' = {w} /\ Goto(w, "cart") /\ UNCHANGED answer
           /\ records[KeyOf(w)] = NoRecord
           /\ records' = [records EXCEPT ![KeyOf(w)].state = "STARTED"]
           /\ created' = Append(created, KeyOf(w))
  <2>1. Range(created') = Range(created) \cup {KeyOf(w)}
    <3>1. /\ Len(created) \in Nat /\ DOMAIN created = 1 .. Len(created)
          /\ DOMAIN created' = 1 .. Len(created) + 1
          /\ \A i \in 1 .. Len(created) : created'[i] = created[i]
          /\ created'[Len(created) + 1] = KeyOf(w)
      BY <1>2, <1>3, <1>6
    <3>2. 1 .. Len(created) + 1 = (1 .. Len(created)) \cup {Len(created) + 1}
      BY <3>1
    <3>3. QED BY <3>1, <3>2 DEF Range
  <2>2. /\ records'[KeyOf(w)].state = "STARTED"
        /\ ~ records'[KeyOf(w)].order /\ ~ records'[KeyOf(w)].payment
    BY <1>2, <1>3, <1>6 DEF NoRecord
  <2>3. Framed(w)
    BY <1>1, <1>2, <1>3, <1>6, <2>1 DEF Framed, Goto, simulated, run
  <2>4. QED BY <1>1, <1>2, <1>3, <1>6, <2>1, <2>2, <2>3 DEF Goto
<1>7. QED BY <1>4, <1>5, <1>6 DEF Begin

(* Where a call under RetryPolicy leaves its worker                        *)
Tried(w, reply, next, again, raised) ==
    \/ reply = "ok" /\ pc'[w] = next /\ attempts'[w] = 0
    \/ /\ reply = "transient" /\ attempts[w] + 1 < MaxAttempts
       /\ pc'[w] = again /\ attempts'[w] = attempts[w] + 1
    \/ /\ reply # "ok" /\ (reply = "transient" => attempts[w] + 1 >= MaxAttempts)
       /\ pc'[w] = raised /\ attempts'[w] = 0

(* RetryPolicy.run answers, tries again or lets the exception pass.        *)
LEMMA SettleEffect ==
    ASSUME Typed, NEW w \in Requests, NEW reply, NEW next, NEW again, NEW raised,
           Settle(w, reply, next, again, raised)
    PROVE  Tried(w, reply, next, again, raised)
<1>1. /\ pc \in [Requests -> Working \cup {"idle", "done"}]
      /\ attempts \in [Requests -> 0 .. MaxAttempts - 1] /\ MaxAttempts \in Nat \ {0}
  BY SimulationAssumption DEF Typed, TypeOK
<1>2. CASE reply = "ok"
  BY <1>1, <1>2 DEF Settle, Succeeded, Goto, Tried
<1>3. CASE reply # "ok"
  BY <1>1, <1>3 DEF Settle, Retried, Branch, Goto, Tried
<1>4. QED BY <1>2, <1>3

LEMMA GotoEffect ==
    ASSUME Typed, NEW w \in Requests, NEW p, Goto(w, p)
    PROVE  pc'[w] = p
BY DEF Typed, TypeOK, Goto

LEMMA SucceededEffect ==
    ASSUME Typed, NEW w \in Requests, NEW p, Succeeded(w, p)
    PROVE  pc'[w] = p /\ attempts'[w] = 0
BY DEF Typed, TypeOK, Goto, Succeeded

(* The effect of each action on its worker and on the key in its hands     *)
LEMMA CartEffect ==
    ASSUME Typed, NEW w \in Requests, Cart(w)
    PROVE  /\ Framed(w) /\ Keeps(w) /\ pc[w] = "cart"
           /\ UNCHANGED <<records, lock, answer, orders, payments, counts>>
           /\ \/ /\ State(w) # "STARTED" /\ UNCHANGED <<carts, items>>
                 /\ pc'[w] = "order" /\ attempts'[w] = attempts[w]
              \/ /\ State(w) = "STARTED" /\ on[w] \in carts /\ UNCHANGED <<carts, items>>
                 /\ pc'[w] = "cart_set" /\ attempts'[w] = 0
              \/ /\ State(w) = "STARTED"
                 /\ \E reply \in Replies, done \in BOOLEAN :
                       /\ Answered("create_cart", on[w], reply, done)
                       /\ IF done THEN on[w] \in carts' /\ items'[on[w]] = 0
                          ELSE UNCHANGED <<carts, items>>
                       /\ Tried(w, reply, "cart_set", "cart", "failed")
<1>1. Framed(w) /\ Keeps(w) /\ UNCHANGED <<records, lock, answer>> /\ pc[w] = "cart"
  BY StepFramed DEF Cart, Step, Keeps, Steady
<1>2. UNCHANGED <<orders, payments, counts>>
  BY DEF Cart, CreateCart, simulated
<1>3. CASE State(w) # "STARTED" /\ Goto(w, "order") /\ UNCHANGED <<simulated, attempts>>
  BY <1>1, <1>2, <1>3, GotoEffect DEF simulated
<1>4. CASE /\ State(w) = "STARTED" /\ on[w] \in carts
           /\ Succeeded(w, "cart_set") /\ UNCHANGED simulated
  BY <1>1, <1>2, <1>4, SucceededEffect DEF simulated
<1>5. ASSUME NEW reply \in Replies, State(w) = "STARTED", CreateCart(on[w], reply),
             Settle(w, reply, "cart_set", "cart", "failed")
      PROVE  \E done \in BOOLEAN :
                       /\ Answered("create_cart", on[w], reply, done)
                       /\ IF done THEN on[w] \in carts' /\ items'[on[w]] = 0
                          ELSE UNCHANGED <<carts, items>>
                       /\ Tried(w, reply, "cart_set", "cart", "failed")
  <2>1. Tried(w, reply, "cart_set", "cart", "failed")
    BY <1>5, SettleEffect
  <2>2. on[w] \in Keys /\ items \in [Keys -> 0 .. ItemsCap]
    BY <1>1 DEF Typed, TypeOK, ServicesTypeOK
  <2>3. QED BY <1>5, <2>1, <2>2 DEF CreateCart
<1>6. QED BY <1>1, <1>2, <1>3, <1>4, <1>5 DEF Cart

LEMMA SetStateEffect ==
    ASSUME Typed, NEW w \in Requests, on[w] \in Keys, NEW s, SetState(w, s)
    PROVE  /\ records'[on[w]].state = s
           /\ records'[on[w]].order = records[on[w]].order
           /\ records'[on[w]].payment = records[on[w]].payment
BY DEF Typed, TypeOK, SetState, Record

LEMMA SetCartEffect ==
    ASSUME Typed, NEW w \in Requests, SetCart(w)
    PROVE  /\ Framed(w) /\ Keeps(w) /\ UNCHANGED <<simulated, attempts, answer>>
           /\ pc[w] = "cart_set"
           /\ records'[on[w]].state = "CART_CREATED"
           /\ records'[on[w]].order = records[on[w]].order
           /\ records'[on[w]].payment = records[on[w]].payment
           /\ \/ crash = "after_cart" /\ pc'[w] = "recover" /\ lock' = lock \ {w}
              \/ crash # "after_cart" /\ pc'[w] = "item" /\ lock' = lock
<1>1. Framed(w) /\ Keeps(w) /\ UNCHANGED <<simulated, attempts, answer>> /\ pc[w] = "cart_set"
  BY StepFramed DEF SetCart, Step, Keeps, Steady
<1>2. on[w] \in Keys /\ SetState(w, "CART_CREATED")
  BY <1>1 DEF Typed, SetCart
<1>3. QED BY <1>1, <1>2, SetStateEffect, GotoEffect DEF SetCart, Leave

LEMMA ItemEffect ==
    ASSUME Typed, NEW w \in Requests, Item(w)
    PROVE  /\ Framed(w) /\ Keeps(w)
           /\ UNCHANGED <<records, lock, attempts, answer, carts, orders, payments, counts>>
           /\ pc[w] = "item" /\ pc'[w] = "order"
           /\ items[on[w]] = 0 => items'[on[w]] = 1
<1>1. /\ Framed(w) /\ Keeps(w) /\ pc[w] = "item"
      /\ UNCHANGED <<records, lock, attempts, answer, carts, orders, payments, counts>>
  BY StepFramed DEF Item, Step, Keeps, Steady, AddItem
<1>2. on[w] \in Keys /\ items \in [Keys -> 0 .. ItemsCap]
  BY <1>1 DEF Typed, TypeOK, ServicesTypeOK
<1>3. QED BY <1>1, <1>2, GotoEffect DEF Item, AddItem, ItemsCap

LEMMA CheckOrderEffect ==
    ASSUME Typed, NEW w \in Requests, CheckOrder(w)
    PROVE  /\ Framed(w) /\ Keeps(w)
           /\ UNCHANGED <<simulated, records, lock, attempts, answer>>
           /\ pc[w] = "order"
           /\ pc'[w] = IF State(w) = "CART_CREATED" THEN "order_lookup" ELSE "pending"
<1>1. /\ Framed(w) /\ Keeps(w) /\ pc[w] = "order"
      /\ UNCHANGED <<simulated, records, lock, attempts, answer>>
  BY StepFramed DEF CheckOrder, Step, Keeps, Steady
<1>2. QED BY <1>1, GotoEffect DEF CheckOrder, Branch

LEMMA LookupOrderEffect ==
    ASSUME Typed, NEW w \in Requests, LookupOrder(w)
    PROVE  /\ Framed(w) /\ Keeps(w)
           /\ UNCHANGED <<simulated, records, lock, answer>>
           /\ pc[w] = "order_lookup"
           /\ \/ orders[on[w]] # "NONE" /\ pc'[w] = "order_set" /\ attempts'[w] = 0
              \/ orders[on[w]] = "NONE" /\ pc'[w] = "order_call" /\ attempts'[w] = attempts[w]
<1>1. /\ Framed(w) /\ Keeps(w) /\ pc[w] = "order_lookup"
      /\ UNCHANGED <<simulated, records, lock, answer>>
  BY StepFramed DEF LookupOrder, Step, Keeps, Steady
<1>2. QED BY <1>1, GotoEffect, SucceededEffect DEF LookupOrder

LEMMA CallOrderEffect ==
    ASSUME Typed, NEW w \in Requests, CallOrder(w)
    PROVE  /\ Framed(w) /\ Keeps(w)
           /\ UNCHANGED <<records, lock, answer, carts, items, payments, counts>>
           /\ pc[w] = "order_call"
           /\ \E reply \in Replies, done \in BOOLEAN :
                 /\ Answered("create_order", on[w], reply, done)
                 /\ orders'[on[w]] = IF done THEN "ACTIVE" ELSE orders[on[w]]
                 /\ \/ Executing(w) /\ Tried(w, reply, "order_set", "order_lookup", "failed")
                    \/ /\ ~ Executing(w) /\ attempts'[w] = 0
                       /\ pc'[w] = IF reply = "ok" THEN "order_set" ELSE "escaped"
<1>1. /\ Framed(w) /\ Keeps(w) /\ pc[w] = "order_call"
      /\ UNCHANGED <<records, lock, answer, carts, items, payments, counts>>
  BY StepFramed DEF CallOrder, Step, Keeps, Steady, CreateOrder
<1>2. on[w] \in Keys /\ orders \in [Keys -> {"NONE", "ACTIVE", "CANCELLED"}]
  BY <1>1 DEF Typed, TypeOK, ServicesTypeOK
<1>3. PICK reply \in Replies :
          /\ CreateOrder(on[w], reply)
          /\ \/ Executing(w) /\ Settle(w, reply, "order_set", "order_lookup", "failed")
             \/ ~ Executing(w) /\ reply = "ok" /\ Succeeded(w, "order_set")
             \/ ~ Executing(w) /\ reply # "ok" /\ Succeeded(w, "escaped")
  BY DEF CallOrder
<1>4. PICK done \in BOOLEAN :
          /\ Answered("create_order", on[w], reply, done)
          /\ orders'[on[w]] = IF done THEN "ACTIVE" ELSE orders[on[w]]
  BY <1>2, <1>3 DEF CreateOrder
<1>5. \/ Executing(w) /\ Tried(w, reply, "order_set", "order_lookup", "failed")
      \/ /\ ~ Executing(w) /\ attempts'[w] = 0
         /\ pc'[w] = IF reply = "ok" THEN "order_set" ELSE "escaped"
  BY <1>3, SettleEffect, SucceededEffect
<1>6. QED BY <1>1, <1>4, <1>5

LEMMA SetOrderEffect ==
    ASSUME Typed, NEW w \in Requests, SetOrder(w)
    PROVE  /\ Framed(w) /\ Keeps(w) /\ UNCHANGED <<simulated, attempts, answer>>
           /\ pc[w] = "order_set"
           /\ records'[on[w]].state = "ORDER_CREATED" /\ records'[on[w]].order
           /\ records'[on[w]].payment = records[on[w]].payment
           /\ \/ /\ Executing(w) /\ crash = "after_order"
                 /\ pc'[w] = "recover" /\ lock' = lock \ {w}
              \/ ~ (Executing(w) /\ crash = "after_order") /\ pc'[w] = "pending" /\ lock' = lock
<1>1. Framed(w) /\ Keeps(w) /\ UNCHANGED <<simulated, attempts, answer>> /\ pc[w] = "order_set"
  BY StepFramed DEF SetOrder, Step, Keeps, Steady
<1>2. on[w] \in Keys /\ records \in [Keys -> Record]
  BY <1>1 DEF Typed, TypeOK
<1>3. /\ records'[on[w]].state = "ORDER_CREATED" /\ records'[on[w]].order
      /\ records'[on[w]].payment = records[on[w]].payment
  BY <1>2 DEF SetOrder, Record
<1>4. QED BY <1>1, <1>3, GotoEffect DEF SetOrder, Leave

LEMMA CheckPendingEffect ==
    ASSUME Typed, NEW w \in Requests, CheckPending(w)
    PROVE  /\ Framed(w) /\ Keeps(w)
           /\ UNCHANGED <<simulated, records, lock, attempts, answer>>
           /\ pc[w] = "pending"
           /\ pc'[w] = IF State(w) = "ORDER_CREATED"
                          \/ (~ Executing(w) /\ State(w) = "PAYMENT_PENDING")
                       THEN "pending_set" ELSE IF Executing(w) THEN "pay" ELSE "next"
<1>1. /\ Framed(w) /\ Keeps(w) /\ pc[w] = "pending"
      /\ UNCHANGED <<simulated, records, lock, attempts, answer>>
  BY StepFramed DEF CheckPending, Step, Keeps, Steady
<1>2. QED BY <1>1, GotoEffect DEF CheckPending, Branch

LEMMA SetPendingEffect ==
    ASSUME Typed, NEW w \in Requests, SetPending(w)
    PROVE  /\ Framed(w) /\ Keeps(w) /\ UNCHANGED <<simulated, lock, attempts, answer>>
           /\ pc[w] = "pending_set"
           /\ records'[on[w]].state = "PAYMENT_PENDING"
           /\ records'[on[w]].order = records[on[w]].order
           /\ records'[on[w]].payment = records[on[w]].payment
           /\ pc'[w] = IF Executing(w) THEN "pay" ELSE "pay_lookup"
<1>1. /\ Framed(w) /\ Keeps(w) /\ UNCHANGED <<simulated, lock, attempts, answer>>
      /\ pc[w] = "pending_set"
  BY StepFramed DEF SetPending, Step, Keeps, Steady
<1>2. on[w] \in Keys /\ SetState(w, "PAYMENT_PENDING")
  BY <1>1 DEF Typed, SetPending
<1>3. QED BY <1>1, <1>2, SetStateEffect, GotoEffect DEF SetPending

LEMMA CheckPayEffect ==
    ASSUME Typed, NEW w \in Requests, CheckPay(w)
    PROVE  /\ Framed(w) /\ Keeps(w)
           /\ UNCHANGED <<simulated, records, lock, attempts, answer>>
           /\ pc[w] = "pay"
           /\ pc'[w] = IF State(w) # "PAYMENT_PENDING" THEN "complete"
                       ELSE IF crash = "during_payment" THEN "pay_call" ELSE "pay_lookup"
<1>1. /\ Framed(w) /\ Keeps(w) /\ pc[w] = "pay"
      /\ UNCHANGED <<simulated, records, lock, attempts, answer>>
  BY StepFramed DEF CheckPay, Step, Keeps, Steady
<1>2. QED BY <1>1, GotoEffect DEF CheckPay, Branch

LEMMA LookupPayEffect ==
    ASSUME Typed, NEW w \in Requests, LookupPay(w)
    PROVE  /\ Framed(w) /\ Keeps(w)
           /\ UNCHANGED <<simulated, records, lock, answer>>
           /\ pc[w] = "pay_lookup"
           /\ \/ on[w] \in payments /\ pc'[w] = "pay_set" /\ attempts'[w] = 0
              \/ on[w] \notin payments /\ pc'[w] = "pay_call" /\ attempts'[w] = attempts[w]
<1>1. /\ Framed(w) /\ Keeps(w) /\ pc[w] = "pay_lookup"
      /\ UNCHANGED <<simulated, records, lock, answer>>
  BY StepFramed DEF LookupPay, Step, Keeps, Steady
<1>2. QED BY <1>1, GotoEffect, SucceededEffect DEF LookupPay

LEMMA CallPayEffect ==
    ASSUME Typed, NEW w \in Requests, CallPay(w)
    PROVE  /\ Framed(w) /\ Keeps(w)
           /\ UNCHANGED <<records, answer, carts, items, orders>>
           /\ counts'["cancel_order"] = counts["cancel_order"]
           /\ pc[w] = "pay_call"
           /\ \E reply \in Replies, done \in BOOLEAN :
                 /\ Answered("execute_payment", on[w], reply, done)
                 /\ on[w] \in payments' <=> done \/ on[w] \in payments
                 /\ IF Executing(w) /\ crash = "during_payment"
                    THEN /\ attempts'[w] = attempts[w]
                         /\ \/ reply = "ok" /\ pc'[w] = "recover" /\ lock' = lock \ {w}
                            \/ reply # "ok" /\ pc'[w] = "failed" /\ lock' = lock
                    ELSE Tried(w, reply, "pay_set", "pay_lookup", "failed") /\ lock' = lock
<1>1. /\ Framed(w) /\ Keeps(w) /\ pc[w] = "pay_call"
      /\ UNCHANGED <<records, answer, carts, items, orders>>
  BY StepFramed DEF CallPay, Step, Keeps, Steady, ExecutePayment
<1>2. PICK reply \in Replies :
          /\ ExecutePayment(on[w], reply)
          /\ IF Executing(w) /\ crash = "during_payment"
             THEN /\ IF reply = "ok" THEN Leave(w, "recover")
                     ELSE Goto(w, "failed") /\ UNCHANGED lock
                  /\ UNCHANGED attempts
             ELSE /\ Settle(w, reply, "pay_set", "pay_lookup", "failed")
                  /\ UNCHANGED lock
  BY DEF CallPay
<1>3. counts'["cancel_order"] = counts["cancel_order"]
  BY <1>2 DEF ExecutePayment, Count, Typed, TypeOK, ServicesTypeOK
<1>4. PICK done \in BOOLEAN :
          /\ Answered("execute_payment", on[w], reply, done)
          /\ on[w] \in payments' <=> done \/ on[w] \in payments
  BY <1>2 DEF ExecutePayment
<1>5. IF Executing(w) /\ crash = "during_payment"
      THEN /\ attempts'[w] = attempts[w]
           /\ \/ reply = "ok" /\ pc'[w] = "recover" /\ lock' = lock \ {w}
              \/ reply # "ok" /\ pc'[w] = "failed" /\ lock' = lock
      ELSE Tried(w, reply, "pay_set", "pay_lookup", "failed") /\ lock' = lock
  BY <1>2, SettleEffect, GotoEffect DEF Leave
<1>6. QED BY <1>1, <1>3, <1>4, <1>5

LEMMA SetPayEffect ==
    ASSUME Typed, NEW w \in Requests, SetPay(w)
    PROVE  /\ Framed(w) /\ Keeps(w) /\ UNCHANGED <<simulated, lock, attempts>>
           /\ pc[w] = "pay_set"
           /\ records'[on[w]].order = records[on[w]].order /\ records'[on[w]].payment
           /\ \/ /\ Executing(w) /\ records'[on[w]].state = "PAYMENT_COMPLETED"
                 /\ pc'[w] = "complete" /\ answer' = answer
              \/ /\ ~ Executing(w) /\ records'[on[w]].state = "COMPLETED"
                 /\ pc'[w] = "next" /\ answer'[w] = on[w]
<1>1. Framed(w) /\ Keeps(w) /\ UNCHANGED <<simulated, lock, attempts>> /\ pc[w] = "pay_set"
  BY StepFramed DEF SetPay, Step, Keeps
<1>2. on[w] \in Keys /\ records \in [Keys -> Record] /\ answer \in [Requests -> Keys \cup {NoKey}]
  BY <1>1 DEF Typed, TypeOK
<1>3. /\ records'[on[w]].order = records[on[w]].order /\ records'[on[w]].payment
      /\ records'[on[w]].state = IF Executing(w) THEN "PAYMENT_COMPLETED" ELSE "COMPLETED"
  BY <1>2 DEF SetPay, Record
<1>4. QED BY <1>1, <1>2, <1>3, GotoEffect DEF SetPay

LEMMA CheckCompleteEffect ==
    ASSUME Typed, NEW w \in Requests, CheckComplete(w)
    PROVE  /\ Framed(w) /\ Keeps(w) /\ UNCHANGED <<simulated, records, attempts>>
           /\ pc[w] = "complete"
           /\ \/ /\ State(w) = "PAYMENT_COMPLETED" /\ pc'[w] = "complete_set"
                 /\ UNCHANGED <<lock, answer>>
              \/ /\ State(w) # "PAYMENT_COMPLETED" /\ pc'[w] = "report"
                 /\ lock' = lock \ {w} /\ answer'[w] = on[w]
<1>1. Framed(w) /\ Keeps(w) /\ UNCHANGED <<simulated, records, attempts>> /\ pc[w] = "complete"
  BY StepFramed DEF CheckComplete, Step, Keeps
<1>2. answer \in [Requests -> Keys \cup {NoKey}]
  BY DEF Typed, TypeOK
<1>3. QED BY <1>1, <1>2, GotoEffect DEF CheckComplete, Finish, Leave

LEMMA CompleteEffect ==
    ASSUME Typed, NEW w \in Requests, Complete(w)
    PROVE  /\ Framed(w) /\ Keeps(w) /\ UNCHANGED <<simulated, attempts>>
           /\ pc[w] = "complete_set" /\ pc'[w] = "report"
           /\ records'[on[w]].state = "COMPLETED"
           /\ records'[on[w]].order = records[on[w]].order
           /\ records'[on[w]].payment = records[on[w]].payment
           /\ lock' = lock \ {w} /\ answer'[w] = on[w]
<1>1. Framed(w) /\ Keeps(w) /\ UNCHANGED <<simulated, attempts>> /\ pc[w] = "complete_set"
  BY StepFramed DEF Complete, Step, Keeps
<1>2. /\ on[w] \in Keys /\ SetState(w, "COMPLETED")
      /\ answer \in [Requests -> Keys \cup {NoKey}]
  BY <1>1 DEF Typed, TypeOK, Complete
<1>3. QED BY <1>1, <1>2, SetStateEffect, GotoEffect DEF Complete, Finish, Leave

LEMMA FailedEffect ==
    ASSUME Typed, NEW w \in Requests, Failed(w)
    PROVE  /\ Framed(w) /\ Keeps(w) /\ UNCHANGED <<simulated, attempts>>
           /\ pc[w] = "failed"
           /\ records'[on[w]].order = records[on[w]].order
           /\ records'[on[w]].payment = records[on[w]].payment
           /\ \/ /\ records[on[w]].order \/ ~ Executing(w)
                 /\ records'[on[w]].state = "COMPENSATING"
                 /\ pc'[w] = IF records[on[w]].order THEN "cancel" ELSE "cancel_set"
                 /\ UNCHANGED <<lock, answer>>
              \/ /\ ~ records[on[w]].order /\ Executing(w)
                 /\ records'[on[w]].state = "FAILED"
                 /\ pc'[w] = "report" /\ lock' = lock \ {w} /\ answer'[w] = on[w]
<1>1. Framed(w) /\ Keeps(w) /\ UNCHANGED <<simulated, attempts>> /\ pc[w] = "failed"
  BY StepFramed DEF Failed, Step, Keeps
<1>2. on[w] \in Keys /\ answer \in [Requests -> Keys \cup {NoKey}]
  BY <1>1 DEF Typed, TypeOK
<1>3. QED BY <1>1, <1>2, SetStateEffect, GotoEffect DEF Failed, Branch, Finish, Leave

LEMMA CancelEffect ==
    ASSUME Typed, NEW w \in Requests, Cancel(w)
    PROVE  /\ Framed(w) /\ Keeps(w)
           /\ UNCHANGED <<records, answer, carts, items, payments>>
           /\ pc[w] = "cancel"
           /\ \E reply \in Replies, done \in BOOLEAN :
                 /\ Answered("cancel_order", on[w], reply, done)
                 /\ counts'["cancel_order"][on[w]] # 0
                 /\ orders'[on[w]] = IF done /\ orders[on[w]] # "NONE" THEN "CANCELLED"
                                     ELSE orders[on[w]]
                 /\ Tried(w, reply, "cancel_set", "cancel",
                          IF Executing(w) /\ crash # "none" THEN "recover" ELSE "escaped")
           /\ lock' = IF pc'[w] \in {"recover", "escaped"} THEN lock \ {w} ELSE lock
<1>1. /\ Framed(w) /\ Keeps(w) /\ pc[w] = "cancel"
      /\ UNCHANGED <<records, answer, carts, items, payments>>
  BY StepFramed DEF Cancel, Step, Keeps, Steady, CancelOrder
<1>2. /\ on[w] \in Keys /\ orders \in [Keys -> {"NONE", "ACTIVE", "CANCELLED"}]
      /\ counts \in [{"execute_payment", "cancel_order"} -> [Keys -> 0 .. CountsCap]]
  BY <1>1 DEF Typed, TypeOK, ServicesTypeOK
<1>3. PICK reply \in Replies :
          /\ CancelOrder(on[w], reply)
          /\ Settle(w, reply, "cancel_set", "cancel",
                    IF Executing(w) /\ crash # "none" THEN "recover" ELSE "escaped")
  BY DEF Cancel
<1>4. counts'["cancel_order"][on[w]] # 0
  BY <1>2, <1>3 DEF CancelOrder, Count, CountsCap
<1>5. PICK done \in BOOLEAN :
          /\ Answered("cancel_order", on[w], reply, done)
          /\ orders'[on[w]] = IF done /\ orders[on[w]] # "NONE" THEN "CANCELLED"
                              ELSE orders[on[w]]
  BY <1>2, <1>3 DEF CancelOrder
<1>6. Tried(w, reply, "cancel_set", "cancel",
            IF Executing(w) /\ crash # "none" THEN "recover" ELSE "escaped")
  BY <1>3, SettleEffect
<1>7. lock' = IF pc'[w] \in {"recover", "escaped"} THEN lock \ {w} ELSE lock
  BY DEF Cancel
<1>8. QED BY <1>1, <1>4, <1>5, <1>6, <1>7

LEMMA SetCancelledEffect ==
    ASSUME Typed, NEW w \in Requests, SetCancelled(w)
    PROVE  /\ Framed(w) /\ Keeps(w) /\ UNCHANGED <<simulated, attempts>>
           /\ pc[w] = "cancel_set" /\ answer'[w] = on[w]
           /\ records'[on[w]].state = "COMPENSATED"
           /\ records'[on[w]].order = records[on[w]].order
           /\ records'[on[w]].payment = records[on[w]].payment
           /\ \/ Executing(w) /\ pc'[w] = "report" /\ lock' = lock \ {w}
              \/ ~ Executing(w) /\ pc'[w] = "next" /\ lock' = lock
<1>1. Framed(w) /\ Keeps(w) /\ UNCHANGED <<simulated, attempts>> /\ pc[w] = "cancel_set"
  BY StepFramed DEF SetCancelled, Step, Keeps
<1>2. /\ on[w] \in Keys /\ SetState(w, "COMPENSATED")
      /\ answer \in [Requests -> Keys \cup {NoKey}]
  BY <1>1 DEF Typed, TypeOK, SetCancelled
<1>3. QED BY <1>1, <1>2, SetStateEffect, GotoEffect DEF SetCancelled, Finish, Leave

LEMMA RecoverEffect ==
    ASSUME Typed, NEW w \in Requests, Recover(w)
    PROVE  /\ Framed(w)
           /\ UNCHANGED <<simulated, records, created, lock, on, attempts, answer, outcome>>
           /\ pc[w] = "recover" /\ pc'[w] = "next" /\ phase'[w] = "recover"
           /\ queue'[w] = Intermediate
<1>1. /\ Framed(w) /\ pc[w] = "recover"
      /\ UNCHANGED <<simulated, records, created, lock, on, attempts, answer, outcome>>
  BY StepFramed DEF Recover, Step
<1>2. QED BY <1>1, GotoEffect DEF Recover, Typed, TypeOK

LEMMA NextRecordEffect ==
    ASSUME Typed, NEW w \in Requests, NextRecord(w)
    PROVE  /\ Framed(w)
           /\ UNCHANGED <<simulated, records, created, lock, phase, attempts, answer, outcome>>
           /\ pc[w] = "next"
           /\ \/ queue[w] = {} /\ pc'[w] = "report" /\ UNCHANGED <<on, queue>>
              \/ /\ pc'[w] = "order" /\ on'[w] \in queue[w]
                 /\ queue'[w] = queue[w] \ {on'[w]}
<1>1. /\ Framed(w) /\ pc[w] = "next"
      /\ UNCHANGED <<simulated, records, created, lock, phase, attempts, answer, outcome>>
  BY StepFramed DEF NextRecord, Step
<1>2. QED BY <1>1, GotoEffect DEF NextRecord, First, Typed, TypeOK

LEMMA ReportEffect ==
    ASSUME Typed, NEW w \in Requests, Report(w)
    PROVE  /\ Framed(w)
           /\ UNCHANGED <<simulated, records, created, lock, on, phase, attempts, queue>>
           /\ pc[w] \in {"report", "escaped"} /\ pc'[w] = "done"
           /\ answer'[w] = IF pc[w] = "escaped" THEN NoKey ELSE answer[w]
           /\ outcome'[w] = IF answer'[w] = NoKey THEN "FAILED" ELSE records[answer'[w]].state
<1>1. /\ Framed(w) /\ pc[w] \in {"report", "escaped"}
      /\ UNCHANGED <<simulated, records, created, lock, on, phase, attempts, queue>>
  BY StepFramed DEF Report, Step
<1>2. QED BY <1>1, GotoEffect DEF Report, Typed, TypeOK

-----------------------------------------------------------------------------
(* What a worker is doing agrees with the lock, its phase and its record.  *)

(* A step of a worker that has a record in its hands                       *)
Work(w) ==
    \/ Cart(w) \/ SetCart(w) \/ Item(w) \/ CheckOrder(w) \/ LookupOrder(w) \/ CallOrder(w)
    \/ SetOrder(w) \/ CheckPending(w) \/ SetPending(w) \/ CheckPay(w) \/ LookupPay(w)
    \/ CallPay(w) \/ SetPay(w) \/ CheckComplete(w) \/ Complete(w) \/ Failed(w) \/ Cancel(w)
    \/ SetCancelled(w)

(* What a step of w on its record may not take from the other workers      *)
Considerate(w) ==
    LET k == on'[w]
        s == records[k].state
    IN  /\ s # "NONE" => records'[k].state # "NONE"
        /\ s \notin {"NONE", "STARTED"} => records'[k].state \notin {"NONE", "STARTED"}
        /\ k \in carts => k \in carts'
        /\ w \notin lock /\ lock # {}
              => items'[k] = items[k] /\ (s = "STARTED" => records'[k].state = s)

(* A considerate step that keeps the discipline at its worker and record   *)
(* keeps it.                                                               *)
LEMMA DisciplineStep ==
    ASSUME Typed, Typed', Discipline, NEW w \in Requests, NEW k \in Keys, k = on'[w],
           Framed(w), Considerate(w), Placed(w)', CartKnown(w)', Founded(k)'
    PROVE  Discipline'
<1>1. ASSUME NEW v \in Requests \ {w} PROVE Placed(v)' /\ CartKnown(v)'
  <2>1. /\ pc'[v] = pc[v] /\ on'[v] = on[v] /\ phase'[v] = phase[v]
        /\ attempts'[v] = attempts[v] /\ queue'[v] = queue[v]
        /\ v \in lock' <=> v \in lock
    BY DEF Framed
  <2>2. Placed(v) /\ CartKnown(v)
    BY DEF Discipline
  <2>3. \A j \in Keys :
           /\ records[j].state # "NONE" => records'[j].state # "NONE"
           /\ records[j].state \notin {"NONE", "STARTED"}
                 => records'[j].state \notin {"NONE", "STARTED"}
           /\ j \in carts => j \in carts'
    BY DEF Framed, Considerate
  <2>4. Placed(v)'
    <3>0. crash' = crash
      BY DEF Framed, run
    <3>1. queue[v] \subseteq Keys
      BY DEF Typed, TypeOK
    <3>2. KeyOf(v)' = KeyOf(v)
      BY DEF Framed, KeyOf
    <3>3. QED BY <2>1, <2>2, <2>3, <3>0, <3>1, <3>2 DEF Placed, Executing, State
  <2>5. v \in lock => /\ items'[on[v]] = items[on[v]]
                      /\ State(v) = "STARTED" => State(v)' = "STARTED"
    <3>1. v \in lock => w \notin lock /\ lock # {} /\ on[v] \in Keys
      BY <2>2 DEF Typed, Placed, OnRecord
    <3>2. QED BY <2>1, <3>1 DEF Framed, Considerate, State
  <2>6. pc[v] \in {"cart", "cart_set", "item"} => v \in lock
    BY <2>2 DEF Placed, OnRecord, Execution
  <2>7. pc[v] = "failed" /\ Executing(v) => v \in lock
    BY <2>2 DEF Placed, OnRecord
  <2>8. pc[v] \in Beyond \cup {"cart", "cart_set", "item", "failed"} => on[v] \in Keys
    BY <2>2 DEF Placed, Beyond
  <2>9. CartKnown(v)'
    BY <2>1, <2>2, <2>3, <2>5, <2>6, <2>7, <2>8 DEF CartKnown, State, Executing
  <2>10. QED BY <2>4, <2>9
<1>2. ASSUME NEW j \in Keys \ {k} PROVE Founded(j)'
  BY <1>2 DEF Discipline, Framed, Founded
<1>3. QED BY <1>1, <1>2 DEF Discipline

(* A request that is taken is in the discipline from the start.            *)
LEMMA BeginDisciplined ==
    ASSUME Typed, Typed', SInv, Discipline, NEW w \in Requests, Begin(w) PROVE Discipline'
<1>1. PICK k \in Keys : k = KeyOf(w)
  BY KeyOfTyped
<1>2. KeyOf(w)' = k
  BY <1>1, BeginEffect DEF Framed, KeyOf
<1>3. records[k] = NoRecord <=> records[k].state = "NONE"
  BY DEF Discipline, Founded, SInv, Shaped, RecordsBacked, NoRecord, Record
<1>4. Founded(k) /\ Placed(w)
  BY DEF Discipline
<1>5. /\ Framed(w) /\ UNCHANGED <<simulated, phase, attempts, queue, outcome>>
      /\ pc[w] = "idle" /\ lock = {} /\ on'[w] = k
      /\ \/ /\ records[k].state \in Terminals
            /\ UNCHANGED <<records, created, lock>>
            /\ pc'[w] = "report"
         \/ /\ records[k].state \notin Terminals /\ lock' = {w} /\ pc'[w] = "cart"
            /\ \/ records[k] # NoRecord /\ UNCHANGED <<records, created>>
               \/ /\ records[k] = NoRecord /\ records'[k].state = "STARTED"
                  /\ ~ records'[k].order /\ ~ records'[k].payment
                  /\ Range(created') = Range(created) \cup {k}
  BY <1>1, BeginEffect
<1>6. Considerate(w)
  BY <1>3, <1>5 DEF Considerate, simulated
<1>7. Founded(k)'
  BY <1>3, <1>4, <1>5 DEF Founded, simulated
<1>8. Placed(w)'
  <2>1. queue[w] \subseteq Keys
    BY DEF Typed, TypeOK
  <2>2. \A j \in queue[w] : records'[j].state # "NONE"
    BY <1>4, <1>5, <2>1 DEF Placed, Framed
  <2>3. QED BY <1>2, <1>3, <1>4, <1>5, <2>2
          DEF Placed, OnRecord, Execution, Retrying, Executing, State, Terminals
<1>9. CartKnown(w)'
  BY <1>4, <1>5 DEF CartKnown, Placed, Beyond, Retrying
<1>10. QED BY <1>5, <1>6, <1>7, <1>8, <1>9, DisciplineStep




(* What is known of a worker with the record of k in its hands             *)
InHand(w, k) ==
    /\ k = on[w] /\ Founded(k) /\ Placed(w) /\ CartKnown(w) /\ Knows(w)
    /\ crash' = crash /\ KeyOf(w)' = KeyOf(w)

(* Work on a record keeps to that record.                                  *)
LEMMA WorkFramed ==
    ASSUME Typed, NEW w \in Requests, Work(w)
    PROVE  Framed(w) /\ Keeps(w) /\ pc[w] # "idle"
BY CartEffect, SetCartEffect, ItemEffect, CheckOrderEffect, LookupOrderEffect, CallOrderEffect,
   SetOrderEffect, CheckPendingEffect, SetPendingEffect, CheckPayEffect, LookupPayEffect,
   CallPayEffect, SetPayEffect, CheckCompleteEffect, CompleteEffect, FailedEffect, CancelEffect,
   SetCancelledEffect DEF Work

LEMMA WorkInHand ==
    ASSUME Typed, SInv, Discipline, NEW w \in Requests, Work(w)
    PROVE  \E k \in Keys : InHand(w, k)
<1>1. Framed(w) /\ on[w] \in Keys
  BY WorkFramed DEF Typed
<1>2. KeyOf(w)' = KeyOf(w)
  BY <1>1 DEF Framed, KeyOf
<1>3. crash' = crash
  BY <1>1 DEF Framed, run
<1>4. QED BY <1>1, <1>2, <1>3 DEF Discipline, SInv, InHand

(* It takes nothing from the others,                                       *)
LEMMA WorkConsiderate ==
    ASSUME Typed, NEW w \in Requests, NEW k \in Keys, InHand(w, k), Work(w)
    PROVE  Considerate(w)
<1> USE DEF Considerate, InHand, Keeps, simulated, Placed, CartKnown, Knows, Founded, Executing,
            State, Beyond, OnRecord, Execution
<1>1. CASE Cart(w)
  BY <1>1, CartEffect
<1>2. CASE SetCart(w)
  BY <1>2, SetCartEffect
<1>3. CASE Item(w)
  BY <1>3, ItemEffect
<1>4. CASE CheckOrder(w)
  BY <1>4, CheckOrderEffect
<1>5. CASE LookupOrder(w)
  BY <1>5, LookupOrderEffect
<1>6. CASE CallOrder(w)
  BY <1>6, CallOrderEffect
<1>7. CASE SetOrder(w)
  BY <1>7, SetOrderEffect
<1>8. CASE CheckPending(w)
  BY <1>8, CheckPendingEffect
<1>9. CASE SetPending(w)
  BY <1>9, SetPendingEffect
<1>10. CASE CheckPay(w)
  BY <1>10, CheckPayEffect
<1>11. CASE LookupPay(w)
  BY <1>11, LookupPayEffect
<1>12. CASE CallPay(w)
  BY <1>12, CallPayEffect
<1>13. CASE SetPay(w)
  BY <1>13, SetPayEffect
<1>14. CASE CheckComplete(w)
  BY <1>14, CheckCompleteEffect
<1>15. CASE Complete(w)
  BY <1>15, CompleteEffect
<1>16. CASE Failed(w)
  BY <1>16, FailedEffect
<1>17. CASE Cancel(w)
  BY <1>17, CancelEffect
<1>18. CASE SetCancelled(w)
  BY <1>18, SetCancelledEffect
<1>19. QED
  BY <1>1, <1>2, <1>3, <1>4, <1>5, <1>6, <1>7, <1>8, <1>9, <1>10, <1>11, <1>12, <1>13, <1>14,
     <1>15, <1>16, <1>17, <1>18 DEF Work

(* founds the record on its effects,                                       *)
LEMMA WorkFounded ==
    ASSUME Typed, NEW w \in Requests, NEW k \in Keys, InHand(w, k), Work(w)
    PROVE  Founded(k)'
<1> USE DEF Founded, InHand, Keeps, simulated, CartKnown, Knows, State, Beyond, Executing
<1>1. CASE Cart(w)
  BY <1>1, CartEffect
<1>2. CASE SetCart(w)
  BY <1>2, SetCartEffect
<1>3. CASE Item(w)
  BY <1>3, ItemEffect
<1>4. CASE CheckOrder(w)
  BY <1>4, CheckOrderEffect
<1>5. CASE LookupOrder(w)
  BY <1>5, LookupOrderEffect
<1>6. CASE CallOrder(w)
  BY <1>6, CallOrderEffect
<1>7. CASE SetOrder(w)
  BY <1>7, SetOrderEffect
<1>8. CASE CheckPending(w)
  BY <1>8, CheckPendingEffect
<1>9. CASE SetPending(w)
  BY <1>9, SetPendingEffect
<1>10. CASE CheckPay(w)
  BY <1>10, CheckPayEffect
<1>11. CASE LookupPay(w)
  BY <1>11, LookupPayEffect
<1>12. CASE CallPay(w)
  BY <1>12, CallPayEffect
<1>13. CASE SetPay(w)
  BY <1>13, SetPayEffect
<1>14. CASE CheckComplete(w)
  BY <1>14, CheckCompleteEffect
<1>15. CASE Complete(w)
  BY <1>15, CompleteEffect
<1>16. CASE Failed(w)
  BY <1>16, FailedEffect
<1>17. CASE Cancel(w)
  BY <1>17, CancelEffect
<1>18. CASE SetCancelled(w)
  BY <1>18, SetCancelledEffect
<1>19. QED
  BY <1>1, <1>2, <1>3, <1>4, <1>5, <1>6, <1>7, <1>8, <1>9, <1>10, <1>11, <1>12, <1>13, <1>14,
     <1>15, <1>16, <1>17, <1>18 DEF Work

(* leaves the worker where lock and phase say,                             *)
LEMMA WorkPlaced ==
    ASSUME Typed, NEW w \in Requests, NEW k \in Keys, InHand(w, k), Work(w), Considerate(w),
           \A j \in queue[w] : records'[j].state # "NONE"
    PROVE  Placed(w)'
<1> USE DEF Placed, InHand, Keeps, Considerate, Tried, OnRecord, Execution, Retrying, Executing,
            State
<1>1. CASE Cart(w)
  <2>1. /\ State(w)' = State(w) /\ phase'[w] = phase[w]
        /\ pc'[w] = "order" => State(w) # "STARTED" /\ attempts'[w] = attempts[w]
        /\ pc'[w] \in {"cart_set", "failed"} => attempts'[w] = 0
        /\ pc'[w] \in {"order", "cart_set", "cart", "failed"}
    BY <1>1, CartEffect DEF Keeps, State, Tried
  <2>2. QED BY <1>1, <2>1, CartEffect
             DEF Placed, InHand, CartKnown, Keeps, Considerate, OnRecord, Execution, Retrying,
                 Executing
<1>2. CASE SetCart(w)
  BY <1>2, SetCartEffect
<1>3. CASE Item(w)
  BY <1>3, ItemEffect
<1>4. CASE CheckOrder(w)
  BY <1>4, CheckOrderEffect
<1>5. CASE LookupOrder(w)
  BY <1>5, LookupOrderEffect
<1>6. CASE CallOrder(w)
  BY <1>6, CallOrderEffect
<1>7. CASE SetOrder(w)
  BY <1>7, SetOrderEffect
<1>8. CASE CheckPending(w)
  BY <1>8, CheckPendingEffect
<1>9. CASE SetPending(w)
  BY <1>9, SetPendingEffect
<1>10. CASE CheckPay(w)
  BY <1>10, CheckPayEffect
<1>11. CASE LookupPay(w)
  BY <1>11, LookupPayEffect
<1>12. CASE CallPay(w)
  BY <1>12, CallPayEffect
<1>13. CASE SetPay(w)
  BY <1>13, SetPayEffect
<1>14. CASE CheckComplete(w)
  BY <1>14, CheckCompleteEffect
<1>15. CASE Complete(w)
  BY <1>15, CompleteEffect
<1>16. CASE Failed(w)
  BY <1>16, FailedEffect
<1>17. CASE Cancel(w)
  BY <1>17, CancelEffect
<1>18. CASE SetCancelled(w)
  BY <1>18, SetCancelledEffect
<1>19. QED
  BY <1>1, <1>2, <1>3, <1>4, <1>5, <1>6, <1>7, <1>8, <1>9, <1>10, <1>11, <1>12, <1>13, <1>14,
     <1>15, <1>16, <1>17, <1>18 DEF Work

(* and with the cart its place tells of.                                   *)
LEMMA WorkCartKnown ==
    ASSUME Typed, NEW w \in Requests, NEW k \in Keys, InHand(w, k), Work(w)
    PROVE  CartKnown(w)'
<1> USE DEF CartKnown, InHand, Keeps, simulated, Placed, Founded, Tried, Beyond, Executing,
            State, OnRecord, Execution
<1>1. CASE Cart(w)
  <2>1. /\ State(w)' = State(w) /\ phase'[w] = phase[w]
        /\ \/ pc'[w] = "order" /\ State(w) # "STARTED"
           \/ pc'[w] = "cart_set" /\ State(w) = "STARTED" /\ on[w] \in carts'
           \/ pc'[w] \in {"cart", "failed"} /\ State(w) = "STARTED"
    BY <1>1, CartEffect DEF Keeps, State, Tried, Answered
  <2>2. QED BY <1>1, <2>1, CartEffect
             DEF CartKnown, InHand, Keeps, Placed, Beyond, Executing, Execution
<1>2. CASE SetCart(w)
  BY <1>2, SetCartEffect
<1>3. CASE Item(w)
  BY <1>3, ItemEffect
<1>4. CASE CheckOrder(w)
  BY <1>4, CheckOrderEffect
<1>5. CASE LookupOrder(w)
  BY <1>5, LookupOrderEffect
<1>6. CASE CallOrder(w)
  BY <1>6, CallOrderEffect
<1>7. CASE SetOrder(w)
  BY <1>7, SetOrderEffect
<1>8. CASE CheckPending(w)
  BY <1>8, CheckPendingEffect
<1>9. CASE SetPending(w)
  BY <1>9, SetPendingEffect
<1>10. CASE CheckPay(w)
  BY <1>10, CheckPayEffect
<1>11. CASE LookupPay(w)
  BY <1>11, LookupPayEffect
<1>12. CASE CallPay(w)
  BY <1>12, CallPayEffect
<1>13. CASE SetPay(w)
  BY <1>13, SetPayEffect
<1>14. CASE CheckComplete(w)
  BY <1>14, CheckCompleteEffect
<1>15. CASE Complete(w)
  BY <1>15, CompleteEffect
<1>16. CASE Failed(w)
  BY <1>16, FailedEffect
<1>17. CASE Cancel(w)
  BY <1>17, CancelEffect
<1>18. CASE SetCancelled(w)
  BY <1>18, SetCancelledEffect
<1>19. QED
  BY <1>1, <1>2, <1>3, <1>4, <1>5, <1>6, <1>7, <1>8, <1>9, <1>10, <1>11, <1>12, <1>13, <1>14,
     <1>15, <1>16, <1>17, <1>18 DEF Work

LEMMA WorkDisciplined ==
    ASSUME Typed, Typed', SInv, Discipline, NEW w \in Requests, Work(w)
    PROVE  Discipline'
<1>1. PICK k \in Keys : InHand(w, k)
  BY WorkInHand
<1>2. Framed(w) /\ on'[w] = on[w]
  BY WorkFramed DEF Keeps
<1>3. Considerate(w) /\ Founded(k)' /\ CartKnown(w)'
  BY <1>1, WorkConsiderate, WorkFounded, WorkCartKnown
<1>4. \A j \in queue[w] : records'[j].state # "NONE"
  <2>1. queue[w] \subseteq Keys
    BY DEF Typed, TypeOK
  <2>2. QED BY <1>1, <1>2, <1>3, <2>1 DEF Framed, Placed, InHand, Considerate
<1>5. Placed(w)'
  BY <1>1, <1>3, <1>4, WorkPlaced
<1>6. QED BY <1>1, <1>2, <1>3, <1>5, DisciplineStep DEF InHand

(* Turning to another record, or to the report, keeps the discipline.      *)
LEMMA TurnDisciplined ==
    ASSUME Typed, Typed', SInv, Discipline, NEW w \in Requests,
           Recover(w) \/ NextRecord(w) \/ Report(w)
    PROVE  Discipline'
<1>1. /\ Framed(w) /\ UNCHANGED <<simulated, records, created, lock, attempts>> /\ pc[w] # "idle"
      /\ \/ on'[w] = on[w]
         \/ pc[w] = "next" /\ pc'[w] = "order" /\ on'[w] \in queue[w]
  BY RecoverEffect, NextRecordEffect, ReportEffect
<1>2. PICK k \in Keys : k = on'[w]
  BY <1>1 DEF Typed, TypeOK
<1>3. /\ Founded(k) /\ Placed(w) /\ (KeyOf(w)' = KeyOf(w)) /\ crash' = crash
      /\ \A j \in Keys : records[j].state # "NONE" <=> j \in Range(created)
  BY <1>1 DEF Discipline, Founded, Framed, KeyOf, run
<1>4. Considerate(w)
  BY <1>1, <1>2 DEF Considerate, simulated
<1>5. Founded(k)'
  BY <1>1, <1>3 DEF Founded, simulated
<1>6. \A j \in queue'[w] : records'[j].state # "NONE"
  <2>1. queue'[w] = Intermediate \/ queue'[w] \subseteq queue[w]
    BY RecoverEffect, NextRecordEffect, ReportEffect
  <2>2. \A j \in Range(created) : j \in Keys
    BY DEF Typed, TypeOK, Range
  <2>3. QED BY <1>1, <1>3, <2>1, <2>2 DEF Placed, Intermediate
<1>7. Placed(w)'
  <2>1. records'[k].state # "NONE"
    BY <1>1, <1>2, <1>3 DEF Placed, State
  <2>2. CASE Recover(w)
    BY <1>1, <1>2, <1>3, <1>6, <2>1, <2>2, RecoverEffect
       DEF Placed, OnRecord, Execution, Retrying, Executing, State
  <2>3. CASE NextRecord(w)
    BY <1>1, <1>2, <1>3, <1>6, <2>1, <2>3, NextRecordEffect
       DEF Placed, OnRecord, Execution, Retrying, Executing, State
  <2>4. CASE Report(w)
    BY <1>1, <1>2, <1>3, <1>6, <2>1, <2>4, ReportEffect
       DEF Placed, OnRecord, Execution, Retrying, Executing, State
  <2>5. QED BY <2>2, <2>3, <2>4
<1>8. CartKnown(w)'
  <2>1. pc'[w] \in {"next", "report", "order", "done"}
    BY RecoverEffect, NextRecordEffect, ReportEffect
  <2>2. QED BY <2>1 DEF CartKnown, Beyond
<1>9. QED BY <1>1, <1>2, <1>4, <1>5, <1>7, <1>8, DisciplineStep

LEMMA StepDisciplined ==
    ASSUME Typed, Typed', SInv, Discipline, NEW w \in Requests, Step(w)
    PROVE  Discipline'
BY WorkDisciplined, TurnDisciplined DEF Step, Work

LEMMA DisciplineHolds == Spec => []Discipline
<1>1. Init => Discipline
  <2> SUFFICES ASSUME Init PROVE Discipline
    OBVIOUS
  <2>1. \A w \in Requests : Placed(w) /\ CartKnown(w)
    BY DEF Init, Placed, CartKnown, OnRecord, Execution, Beyond, Executing
  <2>2. \A k \in Keys : Founded(k)
    <3>1. Range(created) = {}
      BY DEF Init, Range
    <3>2. ASSUME NEW k \in Keys PROVE Founded(k)
      <4>1. /\ records[k] = NoRecord /\ items[k] = 0 /\ orders[k] = "NONE"
            /\ k \notin carts /\ k \notin payments
        BY DEF Init, ServicesInit
      <4>2. QED BY <3>1, <4>1 DEF Founded, NoRecord
    <3>3. QED BY <3>2
  <2>3. QED BY <2>1, <2>2 DEF Discipline
<1>2. Typed /\ Typed' /\ SInv /\ Discipline /\ [Next]_vars => Discipline'
  <2> SUFFICES ASSUME Typed, Typed', SInv, Discipline, [Next]_vars PROVE Discipline'
    OBVIOUS
  <2>1. CASE UNCHANGED vars
    <3>1. \A w \in Requests : Placed(w)' /\ CartKnown(w)'
      BY <2>1 DEF vars, simulated, run, Discipline, Placed, CartKnown, Executing, State, KeyOf
    <3>2. \A k \in Keys : Founded(k)'
      BY <2>1 DEF vars, simulated, run, Discipline, Founded
    <3>3. QED BY <3>1, <3>2 DEF Discipline
  <2>2. QED BY <2>1, BeginDisciplined, StepDisciplined DEF Next
<1>3. QED BY <1>1, <1>2, TypedHolds, SInvHolds, PTL DEF Spec

(* What the later invariants start from                                    *)
Ground == Typed /\ SInv /\ Discipline

(* The ground of all later proofs is an invariant.                         *)
LEMMA GroundHolds == Spec => []Ground
BY TypedHolds, SInvHolds, DisciplineHolds, PTL DEF Ground
=============================================================================
