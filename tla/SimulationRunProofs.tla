------------------------- MODULE SimulationRunProofs -------------------------
(***************************************************************************)
(* Proofs about whole runs of the simulation backend: what holds when no   *)
(* two workers have a record in their hands, when nothing fails, and of    *)
(* the worker that owes a record its end.                                  *)
(***************************************************************************)
EXTENDS SimulationProofs

-----------------------------------------------------------------------------
(* Runs in which no two workers have a record in their hands               *)

(* The pool hands out a request only when all before it are done, if it    *)
(* has one worker.                                                         *)
LEMMA TakenAlone ==
    ASSUME NEW w \in Requests, Taken(w), concurrency = 1
    PROVE  \A v \in 1 .. w - 1 : pc[v] = "done"
<1> DEFINE S == {v \in 1 .. w - 1 : pc[v] # "done"}
<1>1. IsFiniteSet(1 .. w - 1)
  BY FS_Interval, SimulationAssumption DEF Requests
<1>2. IsFiniteSet(S)
  BY <1>1, FS_Subset
<1>3. Cardinality(S) \in Nat /\ Cardinality(S) < 1
  BY <1>2, FS_CardinalityType DEF Taken
<1>4. S = {}
  BY <1>2, <1>3, FS_EmptySet
<1>5. QED BY <1>4

(* A worker that writes a record or an effect is busy.                     *)
LEMMA StepMoves ==
    ASSUME Ground, NEW w \in Requests, Step(w)
    PROVE  pc[w] \notin {"idle", "done"} /\ pc'[w] # "idle"
           /\ (Busy(w) \/ UNCHANGED <<records, simulated>>)
BY CartEffect, SetCartEffect, ItemEffect, CheckOrderEffect, LookupOrderEffect, CallOrderEffect,
   SetOrderEffect, CheckPendingEffect, SetPendingEffect, CheckPayEffect, LookupPayEffect,
   CallPayEffect, SetPayEffect, CheckCompleteEffect, CompleteEffect, FailedEffect, CancelEffect,
   SetCancelledEffect, RecoverEffect, NextRecordEffect, ReportEffect DEF Ground, Step, Busy,
   OnRecord, Tried

(* In a sequential run the other workers have no record in their hands.    *)
LEMMA OthersAside ==
    ASSUME Ground, InTurn, Sequential, NEW w \in Requests, Busy(w) \/ Begin(w),
           NEW v \in Requests \ {w}
    PROVE  ~ Busy(v)
<1>1. Placed(v) /\ Placed(w) /\ \A x, y \in lock : x = y
  BY DEF Ground, Discipline, Typed
<1>2. CASE crash = "none"
  <2>1. Busy(v) => v \in lock
    BY <1>1, <1>2 DEF InTurn, Busy, Placed
  <2>2. Busy(w) => w \in lock
    BY <1>1, <1>2 DEF InTurn, Busy, Placed
  <2>3. Begin(w) => lock = {}
    BY DEF Begin
  <2>4. QED BY <1>1, <2>1, <2>2, <2>3
<1>3. CASE concurrency = 1
  <2>1. Busy(v) => pc[v] \notin {"idle", "done"}
    BY DEF Busy, OnRecord
  <2>2. Busy(w) => pc[w] \notin {"idle", "done"}
    BY DEF Busy, OnRecord
  <2>3. Begin(w) => pc[w] = "idle" /\ \A u \in 1 .. w - 1 : pc[u] = "done"
    BY <1>3, TakenAlone DEF Begin
  <2>4. v \in 1 .. w - 1 \/ w \in 1 .. v - 1
    BY SimulationAssumption DEF Requests
  <2>5. CASE v \in 1 .. w - 1
    BY <1>3, <2>1, <2>2, <2>3, <2>5 DEF InTurn
  <2>6. CASE w \in 1 .. v - 1
    BY <1>3, <2>1, <2>2, <2>3, <2>6 DEF InTurn
  <2>7. QED BY <2>4, <2>5, <2>6
<1>4. QED BY <1>2, <1>3 DEF Sequential

(* Executions go in turn: nobody recovers without a boundary, and a single *)
(* worker ends a request before the next.                                  *)
LEMMA InTurnStep ==
    ASSUME Ground, InTurn, NEW w \in Requests, Begin(w) \/ Step(w)
    PROVE  InTurn'
<1>1. /\ Framed(w) /\ pc[w] # "done"
      /\ Step(w) => pc[w] # "idle"
      /\ crash' = crash /\ concurrency' = concurrency
  BY BeginEffect, StepFramed, StepMoves DEF Ground, Framed, run
<1>2. ASSUME crash = "none" PROVE phase'[w] = "execute" /\ pc'[w] # "recover"
  <2>1. phase[w] = "execute" /\ pc[w] # "recover" /\ Placed(w)
    BY <1>2 DEF InTurn, Executing, Ground, Discipline
  <2>2. QED
    BY <1>2, <2>1, BeginEffect, CartEffect, SetCartEffect, ItemEffect, CheckOrderEffect,
       LookupOrderEffect, CallOrderEffect, SetOrderEffect, CheckPendingEffect, SetPendingEffect,
       CheckPayEffect, LookupPayEffect, CallPayEffect, SetPayEffect, CheckCompleteEffect,
       CompleteEffect, FailedEffect, CancelEffect, SetCancelledEffect, RecoverEffect,
       NextRecordEffect, ReportEffect
       DEF Ground, Step, Keeps, Tried, Placed, Executing
<1>3. ASSUME concurrency = 1, NEW v \in Requests, pc'[v] # "idle", NEW u \in 1 .. v - 1
      PROVE  pc'[u] = "done"
  <2>1. u \in Requests /\ u # v
    BY SimulationAssumption DEF Requests
  <2>2. CASE v = w
    <3>1. pc[u] = "done"
      BY <1>1, <1>3, <2>2, TakenAlone DEF InTurn, Begin
    <3>2. QED BY <1>1, <2>1, <2>2, <3>1 DEF Framed
  <2>3. CASE v # w
    <3>1. pc[u] = "done"
      BY <1>1, <1>3, <2>3 DEF InTurn, Framed
    <3>2. QED BY <1>1, <2>1, <3>1 DEF Framed
  <2>4. QED BY <2>2, <2>3
<1>4. crash = "none" => \A v \in Requests : Executing(v)' /\ pc'[v] # "recover"
  BY <1>1, <1>2 DEF InTurn, Framed, Executing
<1>5. QED BY <1>1, <1>3, <1>4 DEF InTurn

(* A worker that is alone with its record finds it as it left it.          *)
LEMMA WorkUndisturbed ==
    ASSUME Ground, NEW w \in Requests, Undisturbed(w), Work(w)
    PROVE  Undisturbed(w)'
<1> USE DEF Ground, Undisturbed, Keeps, Tried, State, Placed, CartKnown, Executing, Beyond,
            Execution
<1>a. Placed(w) /\ CartKnown(w)
  BY DEF Discipline
<1>1. CASE Cart(w)
  BY <1>a, <1>1, CartEffect
<1>2. CASE SetCart(w)
  BY <1>a, <1>2, SetCartEffect
<1>3. CASE Item(w)
  BY <1>a, <1>3, ItemEffect
<1>4. CASE CheckOrder(w)
  BY <1>a, <1>4, CheckOrderEffect
<1>5. CASE LookupOrder(w)
  BY <1>a, <1>5, LookupOrderEffect
<1>6. CASE CallOrder(w)
  BY <1>a, <1>6, CallOrderEffect
<1>7. CASE SetOrder(w)
  BY <1>a, <1>7, SetOrderEffect
<1>8. CASE CheckPending(w)
  BY <1>a, <1>8, CheckPendingEffect
<1>9. CASE SetPending(w)
  BY <1>a, <1>9, SetPendingEffect
<1>10. CASE CheckPay(w)
  BY <1>a, <1>10, CheckPayEffect
<1>11. CASE LookupPay(w)
  BY <1>a, <1>11, LookupPayEffect
<1>12. CASE CallPay(w)
  BY <1>a, <1>12, CallPayEffect
<1>13. CASE SetPay(w)
  BY <1>a, <1>13, SetPayEffect
<1>14. CASE CheckComplete(w)
  BY <1>a, <1>14, CheckCompleteEffect
<1>15. CASE Complete(w)
  BY <1>a, <1>15, CompleteEffect
<1>16. CASE Failed(w)
  BY <1>a, <1>16, FailedEffect
<1>17. CASE Cancel(w)
  BY <1>a, <1>17, CancelEffect
<1>18. CASE SetCancelled(w)
  BY <1>a, <1>18, SetCancelledEffect
<1>19. QED
  BY <1>1, <1>2, <1>3, <1>4, <1>5, <1>6, <1>7, <1>8, <1>9, <1>10, <1>11, <1>12, <1>13, <1>14,
     <1>15, <1>16, <1>17, <1>18 DEF Work

(* No step of another worker disturbs it.                                  *)
LEMMA SerialStep ==
    ASSUME Ground, Ground', Serial, NEW w \in Requests, Begin(w) \/ Step(w)
    PROVE  Serial'
<1>1. InTurn /\ InTurn' /\ Framed(w) /\ Sequential' = Sequential
  BY InTurnStep, BeginEffect, StepFramed DEF Serial, Sequential, Ground, Framed, run
<1>2. SUFFICES ASSUME Sequential PROVE \A v \in Requests : Undisturbed(v)'
  BY <1>1 DEF Serial
<1>3. \A v \in Requests : Undisturbed(v)
  BY <1>2 DEF Serial
<1>4. ASSUME NEW v \in Requests \ {w} PROVE Undisturbed(v)'
  <2>1. pc'[v] = pc[v] /\ on'[v] = on[v]
    BY <1>1 DEF Framed
  <2>2. CASE Busy(w) \/ Begin(w)
    <3>1. pc[v] \notin OnRecord
      BY <1>1, <1>2, <2>2, OthersAside DEF Busy
    <3>2. QED BY <2>1, <3>1 DEF Undisturbed, OnRecord
  <2>3. CASE UNCHANGED records
    BY <1>3, <2>1, <2>3 DEF Undisturbed, State
  <2>4. QED BY <2>2, <2>3, StepMoves
<1>5. Undisturbed(w)'
  <2>1. CASE Begin(w)
    <3>1. KeyOf(w) \in Keys
      BY KeyOfTyped
    <3>2. QED BY <2>1, <3>1, BeginEffect DEF Ground, Undisturbed, State, Terminals
  <2>2. CASE Recover(w) \/ NextRecord(w) \/ Report(w)
    <3>1. pc'[w] \in {"next", "order", "report", "done"}
      BY <2>2, RecoverEffect, NextRecordEffect, ReportEffect DEF Ground
    <3>2. QED BY <3>1 DEF Undisturbed
  <2>3. CASE Work(w)
    BY <1>3, <2>3, WorkUndisturbed
  <2>4. QED BY <2>1, <2>2, <2>3 DEF Step, Work
<1>6. QED BY <1>4, <1>5

LEMMA SerialHolds == Spec => []Serial
<1>1. Init => Serial
  BY DEF Init, Serial, InTurn, Undisturbed, Executing
<1>2. Ground /\ Ground' /\ Serial /\ [Next]_vars => Serial'
  <2> SUFFICES ASSUME Ground, Ground', Serial, [Next]_vars PROVE Serial'
    OBVIOUS
  <2>1. CASE UNCHANGED vars
    BY <2>1 DEF vars, simulated, run, Serial, InTurn, Sequential, Undisturbed, Executing, State
  <2>2. QED BY <2>1, SerialStep DEF Next
<1>3. QED BY <1>1, <1>2, GroundHolds, PTL DEF Spec

-----------------------------------------------------------------------------
(* A finished transaction stays as it is.                                  *)

Untouched(k) ==
    /\ records'[k] = records[k]
    /\ orders'[k] = orders[k] /\ items'[k] = items[k]
    /\ k \in payments' <=> k \in payments

Writing ==
    {"cart", "cart_set", "item", "order_call", "order_set", "pending_set", "pay_call", "pay_set",
     "complete_set", "failed", "cancel", "cancel_set"}

(* Only a record that is not final is written, or an effect of its key.    *)
LEMMA FinalStep ==
    ASSUME Ground, Serial, Sequential, NEW w \in Requests, Begin(w) \/ Step(w),
           NEW k \in Keys, records[k].state \in Terminals
    PROVE  Untouched(k)
<1>1. Undisturbed(w) /\ Framed(w) /\ Typed
  BY BeginEffect, StepFramed DEF Serial, Ground
<1>2. CASE k # on'[w]
  BY <1>1, <1>2 DEF Framed, Untouched
<1>3. CASE Begin(w)
  <2>1. k # on'[w] \/ records' = records
    BY <1>1, <1>3, BeginEffect DEF NoRecord, Terminals
  <2>2. QED BY <1>1, <1>2, <1>3, <2>1, BeginEffect DEF Untouched, simulated
<1>4. CASE k = on'[w] /\ Step(w)
  <2>1. CASE CheckOrder(w) \/ LookupOrder(w) \/ CheckPending(w) \/ CheckPay(w) \/ LookupPay(w)
             \/ CheckComplete(w) \/ Recover(w) \/ NextRecord(w) \/ Report(w)
    BY <2>1 DEF CheckOrder, LookupOrder, CheckPending, CheckPay, LookupPay, CheckComplete, Recover,
                NextRecord, Report, simulated, Untouched
  <2>2. CASE Cart(w) \/ SetCart(w) \/ Item(w) \/ CallOrder(w) \/ SetOrder(w) \/ SetPending(w)
             \/ CallPay(w) \/ SetPay(w) \/ Complete(w) \/ Failed(w) \/ Cancel(w) \/ SetCancelled(w)
    <3>1. on' = on /\ pc[w] \in Writing
      BY <2>2 DEF Cart, SetCart, Item, CallOrder, SetOrder, SetPending, CallPay, SetPay, Complete,
                  Failed, Cancel, SetCancelled, Steady, Writing
    <3>2. pc[w] = "cart_set" => State(w) = "STARTED"
      BY DEF Ground, Discipline, CartKnown
    <3>3. QED BY <1>1, <1>4, <3>1, <3>2 DEF Undisturbed, State, Terminals, Writing
  <2>3. QED BY <1>4, <2>1, <2>2 DEF Step
<1>5. QED BY <1>2, <1>3, <1>4

(* A finished transaction is not touched by duplicates or recoveries while *)
(* workers do not overlap (orchestrators.py, execute and recover).          *)
THEOREM TerminalsStayFinal == Spec => TerminalsAreFinal
<1>1. Ground /\ Serial /\ [Next]_vars
         => [\A k \in Keys : concurrency = 1 /\ records[k].state \in Terminals =>
                /\ records'[k] = records[k]
                /\ orders'[k] = orders[k] /\ items'[k] = items[k]
                /\ k \in payments' <=> k \in payments]_vars
  BY FinalStep DEF Next, Untouched, Sequential
<1>2. QED BY <1>1, GroundHolds, SerialHolds, PTL DEF Spec, TerminalsAreFinal

-----------------------------------------------------------------------------
(* The order of a transaction is where its record says.                    *)

(* An effect is answered, or a response is lost and tried again; an error  *)
(* before the effect of a creation is permanent.                           *)
LEMMA AnswersOf ==
    ASSUME NEW k, NEW reply, NEW done \in BOOLEAN, NEW op, Answered(op, k, reply, done)
    PROVE  /\ reply = "ok" => done
           /\ done => reply \in {"ok", "transient"}
           /\ done /\ reply = "transient" => <<op, scenario>> \in Lossy
BY DEF Answered, After

(* The creation of an order that does not take place is refused for good.  *)
LEMMA CreationAnswers ==
    ASSUME NEW k, NEW reply, NEW done \in BOOLEAN, Answered("create_order", k, reply, done)
    PROVE  ~ done => reply = "permanent"
<1>1. Before("create_order", k) \subseteq {"ok", "permanent"}
  BY DEF Before, Permanent
<1>2. QED BY <1>1 DEF Answered

(* Work on a record keeps the order where the record says.                 *)
LEMMA WorkOrdered ==
    ASSUME Ground, NEW w \in Requests, Undisturbed(w), Work(w), MaxAttempts > 1,
           NEW k \in Keys, k = on[w], OrderOf(k), OrderKnown(w)
    PROVE  OrderOf(k)' /\ OrderKnown(w)'
<1>a. /\ Placed(w) /\ CartKnown(w) /\ Founded(k) /\ Knows(w) /\ MaxAttempts \in Nat
      /\ orders[k] \in {"NONE", "ACTIVE", "CANCELLED"}
      /\ records[k].order => orders[k] # "NONE"
  BY SimulationAssumption DEF Ground, Discipline, SInv, RecordsBacked, Shaped
<1> USE DEF Ground, OrderOf, OrderKnown, Undisturbed, Keeps, Tried, State, CartKnown, Founded,
            Knows, Executing, Beyond, simulated, Placed, Retrying
<1>1. CASE Cart(w)
  BY <1>a, <1>1, CartEffect
<1>2. CASE SetCart(w)
  BY <1>a, <1>2, SetCartEffect
<1>3. CASE Item(w)
  BY <1>a, <1>3, ItemEffect
<1>4. CASE CheckOrder(w)
  BY <1>a, <1>4, CheckOrderEffect
<1>5. CASE LookupOrder(w)
  BY <1>a, <1>5, LookupOrderEffect
<1>6. CASE CallOrder(w)
  <2>1. /\ Keeps(w) /\ UNCHANGED records /\ pc[w] = "order_call" /\ State(w) = "CART_CREATED"
        /\ orders[k] = "NONE" /\ attempts[w] = 0
    BY <1>a, <1>6, CallOrderEffect DEF Ground, Undisturbed, OrderKnown
  <2>2. PICK reply \in Replies, done \in BOOLEAN :
            /\ Answered("create_order", k, reply, done)
            /\ orders'[k] = IF done THEN "ACTIVE" ELSE orders[k]
            /\ \/ Tried(w, reply, "order_set", "order_lookup", "failed")
               \/ attempts'[w] = 0 /\ pc'[w] = IF reply = "ok" THEN "order_set" ELSE "escaped"
    BY <1>a, <1>6, CallOrderEffect DEF Ground
  <2>3. (reply = "ok" => done) /\ (reply = "transient" => done) /\ (reply = "permanent" => ~ done)
    BY <2>2, AnswersOf, CreationAnswers
  <2>4. /\ pc'[w] = "order_set" => done
        /\ pc'[w] = "order_lookup" => done
        /\ pc'[w] = "failed" => ~ done
        /\ pc'[w] \in {"order_set", "order_lookup", "failed", "escaped"}
    BY <1>a, <2>1, <2>2, <2>3 DEF Tried, Replies
  <2>5. QED BY <2>1, <2>2, <2>4 DEF OrderOf, OrderKnown, Keeps, State
<1>7. CASE SetOrder(w)
  BY <1>a, <1>7, SetOrderEffect
<1>8. CASE CheckPending(w)
  BY <1>a, <1>8, CheckPendingEffect
<1>9. CASE SetPending(w)
  BY <1>a, <1>9, SetPendingEffect
<1>10. CASE CheckPay(w)
  BY <1>a, <1>10, CheckPayEffect
<1>11. CASE LookupPay(w)
  BY <1>a, <1>11, LookupPayEffect
<1>12. CASE CallPay(w)
  BY <1>a, <1>12, CallPayEffect
<1>13. CASE SetPay(w)
  BY <1>a, <1>13, SetPayEffect
<1>14. CASE CheckComplete(w)
  BY <1>a, <1>14, CheckCompleteEffect
<1>15. CASE Complete(w)
  BY <1>a, <1>15, CompleteEffect
<1>16. CASE Failed(w)
  BY <1>a, <1>16, FailedEffect
<1>17. CASE Cancel(w)
  <2>1. /\ Keeps(w) /\ UNCHANGED records /\ pc[w] = "cancel" /\ State(w) = "COMPENSATING"
        /\ records[k].order
    BY <1>a, <1>a, <1>17, CancelEffect DEF Ground, Undisturbed, Knows
  <2>2. PICK reply \in Replies, done \in BOOLEAN :
            /\ Answered("cancel_order", k, reply, done)
            /\ orders'[k] = IF done /\ orders[k] # "NONE" THEN "CANCELLED" ELSE orders[k]
            /\ Tried(w, reply, "cancel_set", "cancel",
                     IF Executing(w) /\ crash # "none" THEN "recover" ELSE "escaped")
    BY <1>a, <1>17, CancelEffect DEF Ground
  <2>3. reply = "ok" => done
    BY <2>2, AnswersOf
  <2>4. /\ pc'[w] = "cancel_set" => orders'[k] = "CANCELLED"
        /\ pc'[w] \in {"cancel_set", "cancel", "recover", "escaped"}
    BY <1>a, <2>1, <2>2, <2>3 DEF Tried
  <2>5. QED BY <2>1, <2>4 DEF OrderOf, OrderKnown, Keeps, State
<1>18. CASE SetCancelled(w)
  BY <1>a, <1>18, SetCancelledEffect
<1>19. QED
  BY <1>1, <1>2, <1>3, <1>4, <1>5, <1>6, <1>7, <1>8, <1>9, <1>10, <1>11, <1>12, <1>13, <1>14,
     <1>15, <1>16, <1>17, <1>18 DEF Work

(* So does every step of a run in which workers have records one at a      *)
(* time,                                                                   *)
LEMMA OrdersStep ==
    ASSUME Ground, Ground', Serial, OrdersFollow, MaxAttempts > 1,
           NEW w \in Requests, Begin(w) \/ Step(w)
    PROVE  OrdersFollow'
<1>1. /\ InTurn /\ Framed(w) /\ Sequential' = Sequential
  BY BeginEffect, StepFramed DEF Serial, Sequential, Ground, Framed, run
<1>2. SUFFICES ASSUME Sequential
               PROVE  (\A k \in Keys : OrderOf(k)') /\ \A v \in Requests : OrderKnown(v)'
  BY <1>1 DEF OrdersFollow
<1>3. Undisturbed(w) /\ (\A k \in Keys : OrderOf(k)) /\ \A v \in Requests : OrderKnown(v)
  BY <1>2 DEF Serial, OrdersFollow
<1>4. ASSUME NEW v \in Requests \ {w} PROVE OrderKnown(v)'
  <2>1. pc'[v] = pc[v] /\ on'[v] = on[v] /\ attempts'[v] = attempts[v]
    BY <1>1 DEF Framed
  <2>2. CASE Busy(w) \/ Begin(w)
    <3>1. pc[v] \notin OnRecord
      BY <1>1, <1>2, <2>2, OthersAside DEF Busy
    <3>2. QED BY <2>1, <3>1 DEF OrderKnown, OnRecord
  <2>3. CASE UNCHANGED <<records, simulated>>
    BY <1>3, <2>1, <2>3 DEF OrderKnown, simulated
  <2>4. QED BY <2>2, <2>3, StepMoves
<1>5. PICK k \in Keys : k = on'[w]
  BY KeyOfTyped, BeginEffect, StepMoves DEF Ground, Typed
<1>6. ASSUME NEW j \in Keys \ {k} PROVE OrderOf(j)'
  BY <1>1, <1>3, <1>5 DEF Framed, OrderOf
<1>7. OrderOf(k)' /\ OrderKnown(w)'
  <2>1. CASE Begin(w)
    <3>1. pc'[w] \in {"cart", "report"} /\ orders' = orders /\ k = KeyOf(w)
          /\ (records'[k] = records[k] \/ records'[k].state = "STARTED")
      BY <1>5, <2>1, BeginEffect DEF Ground, simulated
    <3>2. QED BY <1>3, <3>1 DEF OrderOf, OrderKnown
  <2>2. CASE Recover(w) \/ NextRecord(w) \/ Report(w)
    <3>1. pc'[w] \in {"next", "order", "report", "done"} /\ UNCHANGED <<records, orders>>
      BY <2>2, RecoverEffect, NextRecordEffect, ReportEffect DEF Ground, simulated
    <3>2. QED BY <1>3, <3>1 DEF OrderKnown, OrderOf
  <2>3. CASE Work(w)
    <3>1. on'[w] = on[w]
      BY <2>3, WorkFramed DEF Keeps, Ground
    <3>2. QED BY <1>3, <1>5, <2>3, <3>1, WorkOrdered
  <2>4. QED BY <2>1, <2>2, <2>3 DEF Step, Work
<1>8. QED BY <1>4, <1>6, <1>7

(* if a call whose response is lost is tried again.                        *)
LEMMA OrdersHold == ASSUME MaxAttempts > 1 PROVE Spec => []OrdersFollow
<1>1. Init => OrdersFollow
  <2> SUFFICES ASSUME Init PROVE OrdersFollow
    OBVIOUS
  <2>1. \A k \in Keys : records[k].state = "NONE"
    BY DEF Init, NoRecord
  <2>2. QED BY <2>1 DEF Init, OrdersFollow, OrderOf, OrderKnown
<1>2. Ground /\ Ground' /\ Serial /\ OrdersFollow /\ [Next]_vars => OrdersFollow'
  <2> SUFFICES ASSUME Ground, Ground', Serial, OrdersFollow, [Next]_vars PROVE OrdersFollow'
    OBVIOUS
  <2>1. CASE UNCHANGED vars
    BY <2>1 DEF vars, simulated, run, OrdersFollow, Sequential, OrderOf, OrderKnown
  <2>2. QED BY <2>1, OrdersStep DEF Next
<1>3. QED BY <1>1, <1>2, GroundHolds, SerialHolds, PTL DEF Spec

-----------------------------------------------------------------------------
(* A payment that is made is never compensated.                            *)

(* A cancellation fails once at most, and without effect.                  *)
LEMMA CancelAnswers ==
    ASSUME NEW k, NEW reply, NEW done \in BOOLEAN, Answered("cancel_order", k, reply, done)
    PROVE  reply = "ok" \/ (reply = "transient" /\ ~ done /\ counts["cancel_order"][k] + 1 = 1)
<1>1. <<"cancel_order", scenario>> \notin Permanent /\ <<"cancel_order", scenario>> \notin Lossy
  BY DEF Permanent, Lossy
<1>2. done => reply = "ok"
  BY <1>1 DEF Answered, After
<1>3. /\ Before("cancel_order", k) \subseteq {"ok", "transient"}
      /\ "transient" \in Before("cancel_order", k) => counts["cancel_order"][k] + 1 = 1
  BY <1>1 DEF Before
<1>4. QED BY <1>2, <1>3 DEF Answered

(* A payment whose response may get lost is not refused before it is made. *)
LEMMA PaymentAnswers ==
    ASSUME NEW k, NEW reply, NEW done \in BOOLEAN, Answered("execute_payment", k, reply, done)
    PROVE  ~ done => reply # "ok" /\ <<"execute_payment", scenario>> \notin Lossy
<1>1. <<"execute_payment", scenario>> \in Lossy => Before("execute_payment", k) = {"ok"}
  BY DEF Before, Permanent, Lossy
<1>2. QED BY <1>1 DEF Answered

Uncompensated(k) == records[k].state \in {"COMPENSATING", "COMPENSATED"} => k \notin payments
Paid(w) == PaymentKnown(w) /\ pc[w] # "escaped"

(* What is known of a worker of a run without a boundary                   *)
LEMMA PaymentInHand ==
    ASSUME Ground, InTurn, crash = "none", NEW w \in Requests, NEW k \in Keys, k = on[w]
    PROVE  /\ Placed(w) /\ Founded(k) /\ MaxAttempts \in Nat /\ Executing(w)
           /\ attempts[w] \in Nat /\ counts["cancel_order"][k] \in Nat
<1>1. Placed(w) /\ Founded(k) /\ MaxAttempts \in Nat /\ Executing(w)
  BY SimulationAssumption DEF Ground, Discipline, InTurn
<1>2. attempts[w] \in 0 .. MaxAttempts - 1
  BY DEF Ground, Typed, TypeOK
<1>3. counts["cancel_order"][k] \in 0 .. CountsCap
  BY DEF Ground, Typed, TypeOK, ServicesTypeOK
<1>4. QED BY <1>1, <1>2, <1>3 DEF CountsCap

(* Work on a record compensates no payment that is made.                   *)
LEMMA WorkPaid ==
    ASSUME Ground, InTurn, crash = "none", NEW w \in Requests, Undisturbed(w), Work(w),
           MaxAttempts > 1, NEW k \in Keys, k = on[w], Uncompensated(k), Paid(w)
    PROVE  Uncompensated(k)' /\ Paid(w)'
<1>a. /\ Placed(w) /\ Founded(k) /\ MaxAttempts \in Nat /\ Executing(w) /\ scenario' = scenario
      /\ attempts[w] \in Nat /\ counts["cancel_order"][k] \in Nat
  BY PaymentInHand, WorkFramed DEF Ground, Framed
<1> USE DEF Ground, Uncompensated, Paid, PaymentKnown, Undisturbed, Keeps, Tried, State,
            Founded, Executing, simulated, Placed, Retrying
<1>1. CASE Cart(w)
  BY <1>a, <1>1, CartEffect
<1>2. CASE SetCart(w)
  BY <1>a, <1>2, SetCartEffect
<1>3. CASE Item(w)
  BY <1>a, <1>3, ItemEffect
<1>4. CASE CheckOrder(w)
  BY <1>a, <1>4, CheckOrderEffect
<1>5. CASE LookupOrder(w)
  BY <1>a, <1>5, LookupOrderEffect
<1>6. CASE CallOrder(w)
  BY <1>a, <1>6, CallOrderEffect
<1>7. CASE SetOrder(w)
  BY <1>a, <1>7, SetOrderEffect
<1>8. CASE CheckPending(w)
  BY <1>a, <1>8, CheckPendingEffect
<1>9. CASE SetPending(w)
  BY <1>a, <1>9, SetPendingEffect
<1>10. CASE CheckPay(w)
  BY <1>a, <1>10, CheckPayEffect
<1>11. CASE LookupPay(w)
  BY <1>a, <1>11, LookupPayEffect
<1>12. CASE CallPay(w)
  <2>1. /\ Keeps(w) /\ UNCHANGED records /\ pc[w] = "pay_call" /\ k \notin payments
        /\ State(w) = "PAYMENT_PENDING"
    BY <1>a, <1>12, CallPayEffect DEF Ground, Paid, PaymentKnown, Undisturbed
  <2>2. PICK reply \in Replies, done \in BOOLEAN :
            /\ Answered("execute_payment", k, reply, done)
            /\ k \in payments' <=> done \/ k \in payments
            /\ Tried(w, reply, "pay_set", "pay_lookup", "failed")
    BY <1>a, <1>12, CallPayEffect DEF Ground
  <2>3. /\ done => reply \in {"ok", "transient"}
        /\ done /\ reply = "transient" => <<"execute_payment", scenario>> \in Lossy
        /\ ~ done => <<"execute_payment", scenario>> \notin Lossy
    BY <2>2, AnswersOf, PaymentAnswers
  <2>4. done /\ reply = "transient" => attempts[w] = 0
    BY <2>1, <2>3 DEF Paid, PaymentKnown
  <2>5. /\ pc'[w] \in {"pay_set", "pay_lookup", "failed"}
        /\ pc'[w] = "failed" => ~ done
    BY <1>a, <2>2, <2>3, <2>4 DEF Tried
  <2>6. QED BY <1>a, <2>1, <2>2, <2>3, <2>5 DEF Paid, PaymentKnown, Uncompensated, Keeps, State
<1>13. CASE SetPay(w)
  BY <1>a, <1>13, SetPayEffect
<1>14. CASE CheckComplete(w)
  BY <1>a, <1>14, CheckCompleteEffect
<1>15. CASE Complete(w)
  BY <1>a, <1>15, CompleteEffect
<1>16. CASE Failed(w)
  BY <1>a, <1>16, FailedEffect
<1>17. CASE Cancel(w)
  <2>1. /\ Keeps(w) /\ UNCHANGED <<records, payments>> /\ pc[w] = "cancel"
    BY <1>a, <1>17, CancelEffect DEF Ground
  <2>2. PICK reply \in Replies, done \in BOOLEAN :
            /\ Answered("cancel_order", k, reply, done)
            /\ counts'["cancel_order"][k] # 0
            /\ Tried(w, reply, "cancel_set", "cancel", "escaped")
    BY <1>a, <1>17, CancelEffect DEF Ground
  <2>3. reply = "ok" \/ (reply = "transient" /\ counts["cancel_order"][k] + 1 = 1)
    BY <2>2, CancelAnswers
  <2>4. reply = "transient" => attempts[w] = 0
    BY <1>a, <2>1, <2>3 DEF Paid, PaymentKnown
  <2>5. pc'[w] \in {"cancel_set", "cancel"}
    BY <1>a, <2>2, <2>3, <2>4 DEF Tried
  <2>6. QED BY <1>a, <2>1, <2>2, <2>5 DEF Paid, PaymentKnown, Uncompensated, Keeps
<1>18. CASE SetCancelled(w)
  BY <1>a, <1>18, SetCancelledEffect
<1>19. QED
  BY <1>1, <1>2, <1>3, <1>4, <1>5, <1>6, <1>7, <1>8, <1>9, <1>10, <1>11, <1>12, <1>13, <1>14,
     <1>15, <1>16, <1>17, <1>18 DEF Work

(* Nor does any step of a run without a boundary,                          *)
LEMMA PaymentsStep ==
    ASSUME Ground, Ground', Serial, PaymentsFollow, MaxAttempts > 1,
           NEW w \in Requests, Begin(w) \/ Step(w)
    PROVE  PaymentsFollow'
<1>1. InTurn /\ Framed(w) /\ crash' = crash
  BY BeginEffect, StepFramed DEF Serial, Ground, Framed, run
<1>2. SUFFICES ASSUME crash = "none"
               PROVE  (\A k \in Keys : Uncompensated(k)') /\ \A v \in Requests : Paid(v)'
  BY <1>1 DEF PaymentsFollow, Uncompensated, Paid
<1>3. Undisturbed(w) /\ (\A k \in Keys : Uncompensated(k)) /\ \A v \in Requests : Paid(v)
  BY <1>2 DEF Serial, Sequential, PaymentsFollow, Uncompensated, Paid
<1>4. ASSUME NEW v \in Requests \ {w} PROVE Paid(v)'
  <2>1. pc'[v] = pc[v] /\ on'[v] = on[v] /\ attempts'[v] = attempts[v]
    BY <1>1 DEF Framed
  <2>2. CASE Busy(w) \/ Begin(w)
    <3>1. pc[v] \notin OnRecord
      BY <1>1, <1>2, <2>2, OthersAside DEF Busy, Sequential
    <3>2. QED BY <1>3, <2>1, <3>1 DEF Paid, PaymentKnown, OnRecord
  <2>3. CASE UNCHANGED <<records, simulated>>
    BY <1>3, <2>1, <2>3 DEF Paid, PaymentKnown, simulated
  <2>4. QED BY <2>2, <2>3, StepMoves
<1>5. PICK k \in Keys : k = on'[w]
  BY KeyOfTyped, BeginEffect, StepMoves DEF Ground, Typed
<1>6. ASSUME NEW j \in Keys \ {k} PROVE Uncompensated(j)'
  BY <1>1, <1>3, <1>5 DEF Framed, Uncompensated
<1>7. Uncompensated(k)' /\ Paid(w)'
  <2>1. CASE Begin(w)
    <3>1. pc'[w] \in {"cart", "report"} /\ payments' = payments /\ k = KeyOf(w)
          /\ (records'[k] = records[k] \/ records'[k].state = "STARTED")
      BY <1>5, <2>1, BeginEffect DEF Ground, simulated
    <3>2. QED BY <1>3, <3>1 DEF Uncompensated, Paid, PaymentKnown
  <2>2. CASE Recover(w) \/ NextRecord(w) \/ Report(w)
    <3>1. pc'[w] \in {"next", "order", "report", "done"} /\ UNCHANGED <<records, payments>>
      BY <2>2, RecoverEffect, NextRecordEffect, ReportEffect DEF Ground, simulated
    <3>2. QED BY <1>3, <3>1 DEF Uncompensated, Paid, PaymentKnown
  <2>3. CASE Work(w)
    <3>1. on'[w] = on[w]
      BY <2>3, WorkFramed DEF Keeps, Ground
    <3>2. QED BY <1>1, <1>2, <1>3, <1>5, <2>3, <3>1, WorkPaid
  <2>4. QED BY <2>1, <2>2, <2>3 DEF Step, Work
<1>8. QED BY <1>4, <1>6, <1>7

(* if a call that fails once is tried again.                               *)
LEMMA PaymentsHold == ASSUME MaxAttempts > 1 PROVE Spec => []PaymentsFollow
<1>1. Init => PaymentsFollow
  BY DEF Init, PaymentsFollow, PaymentKnown, NoRecord
<1>2. Ground /\ Ground' /\ Serial /\ PaymentsFollow /\ [Next]_vars => PaymentsFollow'
  <2> SUFFICES ASSUME Ground, Ground', Serial, PaymentsFollow, [Next]_vars PROVE PaymentsFollow'
    OBVIOUS
  <2>1. CASE UNCHANGED vars
    BY <2>1 DEF vars, simulated, run, PaymentsFollow, PaymentKnown
  <2>2. QED BY <2>1, PaymentsStep DEF Next
<1>3. QED BY <1>1, <1>2, GroundHolds, SerialHolds, PTL DEF Spec

-----------------------------------------------------------------------------
(* Interruptions do no harm.                                               *)

(* In the scenarios of the interruptions every call is answered.           *)
LEMMA InterruptedAnswers ==
    ASSUME Interrupted, NEW op, NEW k, NEW reply, NEW done \in BOOLEAN,
           Answered(op, k, reply, done)
    PROVE  reply = "ok" /\ done
<1>1. scenario \in {"interruption-after-cart", "f9-interruption-after-order",
                    "interruption-during-payment"}
  BY DEF Interrupted, CrashBoundary
<1>2. <<op, scenario>> \notin Permanent /\ <<op, scenario>> \notin Lossy
  BY <1>1 DEF Permanent, Lossy
<1>3. Before(op, k) = {"ok"}
  BY <1>1, <1>2 DEF Before
<1>4. QED BY <1>2, <1>3 DEF Answered, After

Unharmed(k) ==
    records[k].state \notin {"FAILED", "COMPENSATING", "COMPENSATED"} /\ orders[k] # "CANCELLED"
Untroubled(w) == pc[w] \notin {"failed", "cancel", "cancel_set", "escaped"}

(* A call of an interrupted run brings no worker to its except block,      *)
LEMMA CallsUnharmed ==
    ASSUME Ground, Interrupted, NEW w \in Requests, Cart(w) \/ CallOrder(w) \/ CallPay(w),
           NEW k \in Keys, k = on[w], Unharmed(k)
    PROVE  Unharmed(k)' /\ Untroubled(w)' /\ on'[w] = on[w]
<1>1. CASE Cart(w)
  <2>1. pc'[w] \in {"order", "cart_set"}
    BY <1>1, CartEffect, InterruptedAnswers DEF Ground, Tried
  <2>2. QED BY <1>1, <2>1, CartEffect DEF Ground, Unharmed, Untroubled, Keeps
<1>2. CASE CallOrder(w)
  <2>1. pc'[w] = "order_set" /\ orders'[k] = "ACTIVE"
    BY <1>2, CallOrderEffect, InterruptedAnswers DEF Ground, Tried
  <2>2. QED BY <1>2, <2>1, CallOrderEffect DEF Ground, Unharmed, Untroubled, Keeps
<1>3. CASE CallPay(w)
  <2>1. pc'[w] \in {"recover", "pay_set"}
    BY <1>3, CallPayEffect, InterruptedAnswers DEF Ground, Tried
  <2>2. QED BY <1>3, <2>1, CallPayEffect DEF Ground, Unharmed, Untroubled, Keeps
<1>4. QED BY <1>1, <1>2, <1>3

(* and nothing else does.                                                  *)
LEMMA OthersUnharmed ==
    ASSUME Ground, Interrupted, NEW w \in Requests, Untroubled(w), Step(w),
           ~ (Cart(w) \/ CallOrder(w) \/ CallPay(w)),
           NEW k \in Keys, k = on'[w], Unharmed(k)
    PROVE  Unharmed(k)' /\ Untroubled(w)'
<1>1. ~ Failed(w) /\ ~ Cancel(w) /\ ~ SetCancelled(w)
  BY DEF Untroubled, Failed, Cancel, SetCancelled
<1>2. CASE SetCart(w) \/ SetOrder(w) \/ SetPending(w) \/ SetPay(w) \/ Complete(w)
  BY <1>2, SetCartEffect, SetOrderEffect, SetPendingEffect, SetPayEffect, CompleteEffect
     DEF Ground, Unharmed, Untroubled, Keeps, simulated
<1>3. CASE Item(w) \/ CheckOrder(w) \/ LookupOrder(w) \/ CheckPending(w) \/ CheckPay(w)
           \/ LookupPay(w) \/ CheckComplete(w) \/ Recover(w) \/ NextRecord(w) \/ Report(w)
  BY <1>3, ItemEffect, CheckOrderEffect, LookupOrderEffect, CheckPendingEffect, CheckPayEffect,
     LookupPayEffect, CheckCompleteEffect, RecoverEffect, NextRecordEffect, ReportEffect
     DEF Ground, Unharmed, Untroubled, Keeps, simulated
<1>4. QED BY <1>1, <1>2, <1>3 DEF Step

(* Interrupted runs stay without a fault.                                  *)
LEMMA FaultlessStep ==
    ASSUME Ground, Ground', Faultless, NEW w \in Requests, Begin(w) \/ Step(w)
    PROVE  Faultless'
<1>1. Framed(w) /\ (Interrupted' = Interrupted)
  BY BeginEffect, StepFramed DEF Ground, Framed, run, Interrupted, CrashBoundary
<1>2. SUFFICES ASSUME Interrupted
               PROVE  (\A j \in Keys : Unharmed(j)') /\ \A v \in Requests : Untroubled(v)'
  BY <1>1 DEF Faultless, Unharmed, Untroubled
<1>3. (\A j \in Keys : Unharmed(j)) /\ \A v \in Requests : Untroubled(v)
  BY <1>2 DEF Faultless, Unharmed, Untroubled
<1>4. PICK k \in Keys : k = on'[w]
  BY KeyOfTyped, BeginEffect, StepMoves DEF Ground, Typed
<1>5. Unharmed(k)' /\ Untroubled(w)'
  <2>1. CASE Begin(w)
    <3>1. /\ UNCHANGED simulated /\ pc'[w] \in {"report", "cart"}
          /\ records'[k] = records[k] \/ records'[k].state = "STARTED"
      BY <1>4, <2>1, BeginEffect DEF Ground
    <3>2. QED BY <1>3, <3>1 DEF Unharmed, Untroubled, simulated
  <2>2. CASE Cart(w) \/ CallOrder(w) \/ CallPay(w)
    <3>1. on'[w] = on[w]
      BY <2>2, CartEffect, CallOrderEffect, CallPayEffect DEF Ground, Keeps
    <3>2. QED BY <1>2, <1>3, <1>4, <2>2, <3>1, CallsUnharmed
  <2>3. CASE Step(w) /\ ~ (Cart(w) \/ CallOrder(w) \/ CallPay(w))
    BY <1>2, <1>3, <1>4, <2>3, OthersUnharmed
  <2>4. QED BY <2>1, <2>2, <2>3
<1>6. QED BY <1>1, <1>3, <1>4, <1>5 DEF Framed, Unharmed, Untroubled

LEMMA FaultlessHolds == Spec => []Faultless
<1>1. Init => Faultless
  BY DEF Init, ServicesInit, Faultless, NoRecord
<1>2. Ground /\ Ground' /\ Faultless /\ [Next]_vars => Faultless'
  <2> SUFFICES ASSUME Ground, Ground', Faultless, [Next]_vars PROVE Faultless'
    OBVIOUS
  <2>1. CASE UNCHANGED vars
    BY <2>1 DEF vars, simulated, run, Faultless, Interrupted, CrashBoundary
  <2>2. QED BY <2>1, FaultlessStep DEF Next
<1>3. QED BY <1>1, <1>2, GroundHolds, PTL DEF Spec

-----------------------------------------------------------------------------
(* The judges of a run                                                     *)

(* The boundary of a run, and the size of its pool, never change.          *)
LEMMA DrivenHolds ==
    ASSUME Driven PROVE Spec => [](crash = CrashBoundary(scenario) \/ concurrency = 1)
<1>1. Init => crash = CrashBoundary(scenario) \/ concurrency = 1
  BY DEF Init, Driven
<1>2. Ground /\ (crash = CrashBoundary(scenario) \/ concurrency = 1) /\ [Next]_vars
         => (crash = CrashBoundary(scenario) \/ concurrency = 1)'
  <2> SUFFICES ASSUME Ground, crash = CrashBoundary(scenario) \/ concurrency = 1, [Next]_vars
               PROVE  (crash = CrashBoundary(scenario) \/ concurrency = 1)'
    OBVIOUS
  <2>1. UNCHANGED <<run, scenario>>
    BY BeginEffect, StepFramed DEF Next, Ground, Framed, vars, simulated
  <2>2. QED BY <2>1 DEF run, CrashBoundary
<1>3. QED BY <1>1, <1>2, GroundHolds, PTL DEF Spec

(* Neither evaluate_invariants nor evaluate_v2_invariants nor              *)
(* terminal_state_consistent ever objects to a record, at any moment of a  *)
(* run of the runner or of a single worker interrupted anywhere, when      *)
(* RetryPolicy tries a call more than once.                                *)
THEOREM NoViolation ==
    ASSUME MaxAttempts > 1, Driven
    PROVE  Spec => []NoViolationReported
<1>1. Ground /\ OrdersFollow /\ PaymentsFollow /\ Faultless
         /\ (crash = CrashBoundary(scenario) \/ concurrency = 1) => NoViolationReported
  <2> SUFFICES ASSUME Ground, OrdersFollow, PaymentsFollow, Faultless,
                      crash = CrashBoundary(scenario) \/ concurrency = 1, NEW k \in Keys
               PROVE  /\ ~ InvariantViolation(k) /\ TerminalStateConsistent(k)
                      /\ crash = CrashBoundary(scenario) => ~ V2Violation(k)
    BY DEF NoViolationReported
  <2>1. /\ Founded(k)
        /\ records[k].order => orders[k] # "NONE"
        /\ records[k].payment => k \in payments
        /\ records[k].state \in {"PAYMENT_COMPLETED", "COMPLETED"}
              => records[k].order /\ records[k].payment
    BY DEF Ground, SInv, RecordsBacked, Discipline
  <2>2. Sequential \/ Interrupted
    BY DEF Sequential, Interrupted
  <2>3. /\ records[k].state = "COMPENSATED" => orders[k] = "CANCELLED"
        /\ records[k].state = "FAILED" => orders[k] = "NONE"
    BY <2>2 DEF OrdersFollow, OrderOf, Faultless
  <2>4. crash = CrashBoundary(scenario) /\ records[k].state = "COMPENSATED" => k \notin payments
    BY DEF PaymentsFollow, Faultless, Interrupted
  <2>5. records[k] = NoRecord => records[k].state = "NONE" /\ ~ records[k].order
    BY DEF NoRecord
  <2>6. ~ InvariantViolation(k)
    BY <2>1, <2>3 DEF InvariantViolation, Completed, Compensated, ActiveOrder, HasOrder, Founded
  <2>7. TerminalStateConsistent(k)
    BY <2>1, <2>3, <2>5
       DEF TerminalStateConsistent, Completed, Compensated, ActiveOrder, HasOrder, Founded
  <2>8. crash = CrashBoundary(scenario) => ~ V2Violation(k)
    BY <2>1, <2>3, <2>4, <2>5
       DEF V2Violation, Completed, Compensated, ActiveOrder, HasOrder, Founded
  <2>9. QED BY <2>6, <2>7, <2>8
<1>2. QED BY <1>1, GroundHolds, OrdersHold, PaymentsHold, FaultlessHolds, DrivenHolds, PTL

-----------------------------------------------------------------------------
(* A worker with a record in its hands brings it forward, or leaves it as  *)
(* it is when it is somebody else's to bring forward.                      *)
Forwards(w, k) ==
    /\ Keeps(w)
    /\ ~ Executing(w) => pc[w] \in OnRecord /\ pc'[w] \in OnRecord \cup {"next"}
    /\ \/ records'[k].state \in Terminals
       \/ pc'[w] \in Ahead(records'[k].state)
       \/ records'[k] = records[k] /\ pc[w] \notin Ahead(records[k].state)

(* Every action on a record in hand brings it forward or leaves it to its  *)
(* owner.                                                                  *)
LEMMA WorkForwards ==
    ASSUME Ground, NEW w \in Requests, Work(w), pc'[w] # "escaped",
           Untroubled(w) \/ crash = "none", NEW k \in Keys, k = on[w]
    PROVE  Forwards(w, k)
<1>a. Placed(w)
  BY DEF Ground, Discipline
<1> USE DEF Ground, Forwards, Ahead, OnRecord, Tried, State, Placed, Execution, Executing,
            Terminals, Keeps, Untroubled
<1>1. CASE Cart(w)
  BY <1>a, <1>1, CartEffect
<1>2. CASE SetCart(w)
  BY <1>a, <1>2, SetCartEffect
<1>3. CASE Item(w)
  BY <1>a, <1>3, ItemEffect
<1>4. CASE CheckOrder(w)
  BY <1>a, <1>4, CheckOrderEffect
<1>5. CASE LookupOrder(w)
  BY <1>a, <1>5, LookupOrderEffect
<1>6. CASE CallOrder(w)
  BY <1>a, <1>6, CallOrderEffect
<1>7. CASE SetOrder(w)
  BY <1>a, <1>7, SetOrderEffect
<1>8. CASE CheckPending(w)
  BY <1>a, <1>8, CheckPendingEffect
<1>9. CASE SetPending(w)
  BY <1>a, <1>9, SetPendingEffect
<1>10. CASE CheckPay(w)
  BY <1>a, <1>10, CheckPayEffect
<1>11. CASE LookupPay(w)
  BY <1>a, <1>11, LookupPayEffect
<1>12. CASE CallPay(w)
  BY <1>a, <1>12, CallPayEffect
<1>13. CASE SetPay(w)
  BY <1>a, <1>13, SetPayEffect
<1>14. CASE CheckComplete(w)
  BY <1>a, <1>14, CheckCompleteEffect
<1>15. CASE Complete(w)
  BY <1>a, <1>15, CompleteEffect
<1>16. CASE Failed(w)
  BY <1>a, <1>16, FailedEffect
<1>17. CASE Cancel(w)
  BY <1>a, <1>17, CancelEffect
<1>18. CASE SetCancelled(w)
  BY <1>a, <1>18, SetCancelledEffect
<1>19. QED
  BY <1>1, <1>2, <1>3, <1>4, <1>5, <1>6, <1>7, <1>8, <1>9, <1>10, <1>11, <1>12, <1>13, <1>14,
     <1>15, <1>16, <1>17, <1>18 DEF Work

(* A step hands the debt on, to its worker or to the queue of a recovery.  *)
LEMMA OwedStep ==
    ASSUME Ground, Ground', PaymentsFollow, PaymentsFollow', Faultless, Faultless', Owed,
           NEW w \in Requests, Begin(w) \/ Step(w)
    PROVE  Owed'
<1>1. Framed(w) /\ crash' = crash /\ scenario' = scenario
  BY BeginEffect, StepFramed DEF Ground, Framed, run
<1>2. SUFFICES ASSUME crash = CrashBoundary(scenario), NEW j \in Keys,
                      records'[j].state \notin Terminals \cup {"NONE"}
               PROVE  \E v \in Requests : Owes(v, j)'
  BY <1>1 DEF Owed, CrashBoundary
<1>3. /\ Untroubled(w) \/ crash = "none"
      /\ pc'[w] # "escaped"
  BY <1>1, <1>2 DEF PaymentsFollow, Faultless, Interrupted, Untroubled, CrashBoundary
<1>4. ASSUME NEW v \in Requests \ {w}, records'[j] = records[j], Owes(v, j)
      PROVE  Owes(v, j)'
  BY <1>1, <1>4 DEF Framed, Owes, Executing, Ahead
<1>5. CASE j # on'[w]
  <2>1. records'[j] = records[j]
    BY <1>1, <1>5 DEF Framed
  <2>2. PICK v \in Requests : Owes(v, j)
    BY <1>2, <2>1 DEF Owed
  <2>3. CASE v # w
    BY <1>4, <2>1, <2>2, <2>3
  <2>4. CASE v = w
    <3>1. CASE Begin(w)
      BY <2>2, <2>4, <3>1, BeginEffect DEF Ground, Owes, Ahead, OnRecord
    <3>2. CASE Recover(w)
      BY <1>5, <2>2, <2>4, <3>2, RecoverEffect DEF Ground, Owes, OnRecord
    <3>3. CASE NextRecord(w)
      BY <1>5, <2>1, <2>2, <2>4, <3>3, NextRecordEffect DEF Ground, Owes, Ahead, OnRecord, Executing
    <3>4. CASE Report(w)
      BY <2>2, <2>4, <3>4, ReportEffect DEF Ground, Owes, Ahead, OnRecord
    <3>5. CASE Work(w)
      <4>1. PICK k \in Keys : k = on[w]
        BY <3>5, WorkFramed DEF Ground, Typed
      <4>2. Forwards(w, k)
        BY <1>3, <3>5, <4>1, WorkForwards
      <4>3. on'[w] = on[w] /\ queue'[w] = queue[w] /\ phase'[w] = phase[w]
        BY <4>2 DEF Forwards, Keeps
      <4>4. QED BY <1>5, <2>1, <2>2, <2>4, <4>2, <4>3 DEF Forwards, Owes, Executing
    <3>6. QED BY <3>1, <3>2, <3>3, <3>4, <3>5 DEF Step, Work
  <2>5. QED BY <2>3, <2>4
<1>6. CASE j = on'[w]
  <2>1. CASE Begin(w)
    <3>1. CASE pc'[w] = "cart" /\ records'[j].state = "STARTED"
      BY <1>6, <3>1 DEF Owes, Ahead
    <3>2. CASE records'[j] = records[j]
      <4>1. PICK v \in Requests : Owes(v, j)
        BY <1>2, <3>2 DEF Owed
      <4>2. v # w
        BY <2>1, <4>1, BeginEffect DEF Ground, Owes, Ahead, OnRecord
      <4>3. QED BY <1>4, <3>2, <4>1, <4>2
    <3>3. QED BY <1>6, <2>1, <3>1, <3>2, BeginEffect DEF Ground
  <2>2. CASE Recover(w) \/ NextRecord(w) \/ Report(w)
    <3>1. UNCHANGED <<records, created>>
      BY <2>2, RecoverEffect, NextRecordEffect, ReportEffect DEF Ground
    <3>2. PICK v \in Requests : Owes(v, j)
      BY <1>2, <3>1 DEF Owed
    <3>3. CASE v # w
      BY <1>4, <3>1, <3>2, <3>3
    <3>4. CASE v = w /\ Recover(w)
      <4>1. on[w] = j /\ records[j].state \in Recoverable
        BY <1>6, <3>2, <3>4, RecoverEffect DEF Ground, Owes, Ahead, OnRecord, Recoverable
      <4>2. j \in queue'[w]
        BY <3>4, <4>1, RecoverEffect
           DEF Ground, Intermediate, Discipline, Founded, Recoverable, Terminals
      <4>3. QED BY <3>1, <3>4, <4>1, <4>2, RecoverEffect DEF Ground, Owes, Recoverable, Executing
    <3>5. CASE v = w /\ NextRecord(w)
      <4>1. records[j].state \in Recoverable /\ queue[w] # {}
        BY <3>2, <3>5, NextRecordEffect DEF Ground, Owes, Ahead, Recoverable
      <4>2. pc'[w] = "order"
        BY <3>5, <4>1, NextRecordEffect DEF Ground
      <4>3. QED BY <1>6, <3>1, <3>5, <4>1, <4>2 DEF Owes, Ahead, Recoverable
    <3>6. CASE v = w /\ Report(w)
      BY <3>2, <3>6, ReportEffect DEF Ground, Owes, Ahead, OnRecord
    <3>7. QED BY <2>2, <3>3, <3>4, <3>5, <3>6
  <2>3. CASE Work(w)
    <3>1. PICK k \in Keys : k = on[w]
      BY <2>3, WorkFramed DEF Ground, Typed
    <3>2. Forwards(w, k)
      BY <1>3, <2>3, <3>1, WorkForwards
    <3>3. on'[w] = on[w] /\ queue'[w] = queue[w] /\ phase'[w] = phase[w] /\ k = j
      BY <1>6, <3>1, <3>2 DEF Forwards, Keeps
    <3>4. CASE pc'[w] \in Ahead(records'[j].state)
      BY <1>6, <3>4 DEF Owes, Ahead
    <3>5. CASE records'[j] = records[j] /\ pc[w] \notin Ahead(records[j].state)
      <4>1. PICK v \in Requests : Owes(v, j)
        BY <1>2, <3>5 DEF Owed
      <4>2. CASE v # w
        BY <1>4, <3>5, <4>1, <4>2
      <4>3. CASE v = w
        BY <3>2, <3>3, <3>5, <4>1, <4>3 DEF Forwards, Owes, Executing
      <4>4. QED BY <4>2, <4>3
    <3>6. QED BY <1>2, <3>2, <3>3, <3>4, <3>5 DEF Forwards
  <2>4. QED BY <2>1, <2>2, <2>3 DEF Step, Work
<1>7. QED BY <1>5, <1>6

(* So a record that is not final is always in the hands of some worker.    *)
LEMMA OwedHolds == ASSUME MaxAttempts > 1 PROVE Spec => []Owed
<1>1. Init => Owed
  BY DEF Init, Owed, NoRecord
<1>2. /\ Ground /\ Ground' /\ PaymentsFollow /\ PaymentsFollow' /\ Faultless /\ Faultless'
      /\ Owed /\ [Next]_vars
      => Owed'
  <2> SUFFICES ASSUME Ground, Ground', PaymentsFollow, PaymentsFollow', Faultless, Faultless', Owed,
                      [Next]_vars
               PROVE  Owed'
    OBVIOUS
  <2>1. CASE UNCHANGED vars
    BY <2>1 DEF vars, simulated, run, Owed, Owes, Executing, CrashBoundary, Ahead
  <2>2. QED BY <2>1, OwedStep DEF Next
<1>3. QED BY <1>1, <1>2, GroundHolds, PaymentsHold, FaultlessHolds, PTL DEF Spec

(* When all workers are done every record is final and agrees with the     *)
(* services, however executions and recoveries overlapped (execute and     *)
(* recover of orchestrators.py, execute_one of runner.py).                 *)
THEOREM SettledHolds == ASSUME MaxAttempts > 1 PROVE Spec => []Settled
<1>1. Ground /\ OrdersFollow /\ PaymentsFollow /\ Faultless /\ Owed => Settled
  <2> SUFFICES ASSUME Ground, OrdersFollow, PaymentsFollow, Faultless, Owed,
                      crash = CrashBoundary(scenario), \A w \in Requests : pc[w] = "done",
                      NEW k \in Keys
               PROVE  Agrees(k)
    BY DEF Settled
  <2>1. records[k].state \in Terminals \cup {"NONE"}
    BY DEF Owed, Owes, Ahead, OnRecord
  <2>2. /\ Founded(k) /\ records[k] \in Record
        /\ records[k].order => orders[k] # "NONE"
        /\ records[k].payment => k \in payments
        /\ records[k].state = "COMPLETED" => records[k].payment
        /\ orders[k] \in {"NONE", "ACTIVE", "CANCELLED"}
    BY DEF Ground, SInv, RecordsBacked, Discipline, Typed, TypeOK, ServicesTypeOK
  <2>3. crash = "none" \/ Interrupted
    BY DEF Interrupted
  <2>4. CASE records[k].state = "COMPLETED"
    <3>1. orders[k] = "ACTIVE"
      BY <2>2, <2>3, <2>4 DEF OrdersFollow, Sequential, OrderOf, Faultless, Founded
    <3>2. QED BY <2>2, <2>4, <3>1 DEF Agrees, Founded
  <2>5. CASE records[k].state \in {"COMPENSATED", "FAILED"}
    <3>1. crash = "none"
      BY <2>3, <2>5 DEF Faultless
    <3>2. /\ records[k].state = "COMPENSATED" => orders[k] = "CANCELLED" /\ k \notin payments
          /\ records[k].state = "FAILED" => orders[k] = "NONE" /\ k \notin payments
      BY <2>2, <3>1 DEF OrdersFollow, Sequential, OrderOf, PaymentsFollow, Founded
    <3>3. QED BY <2>2, <2>5, <3>2 DEF Agrees, Founded
  <2>6. CASE records[k].state = "NONE"
    <3>1. ~ records[k].order /\ ~ records[k].payment /\ items[k] = 0
      BY <2>2, <2>6 DEF Founded
    <3>2. records[k] = NoRecord
      BY <2>2, <2>6, <3>1 DEF Record, NoRecord
    <3>3. QED BY <3>1, <3>2 DEF Agrees, NoRecord
  <2>7. QED BY <2>1, <2>4, <2>5, <2>6 DEF Terminals
<1>2. QED BY <1>1, GroundHolds, OrdersHold, PaymentsHold, FaultlessHolds, OwedHolds, PTL

-----------------------------------------------------------------------------
(* A worker that is alone reports its own record.                          *)

(* The key of a request is fixed.                                          *)
LEMMA KeyKept ==
    ASSUME NEW w \in Requests, Framed(w), NEW v \in Requests
    PROVE  KeyOf(v)' = KeyOf(v)
BY DEF Framed, KeyOf

(* A worker that is alone has the record of its request in its hands.      *)
LEMMA OwnInHand ==
    ASSUME Ground, NEW w \in Requests, Own(w), NEW k \in Keys, k = KeyOf(w)
    PROVE  /\ Placed(w)
           /\ pc[w] # "idle" => on[w] = k
           /\ NoKey # k
BY SimulationAssumption DEF Ground, Discipline, Own

(* It brings that record to the state its place tells of,                  *)
LEMMA WorkOwn ==
    ASSUME Ground, NEW w \in Requests, Work(w), pc'[w] # "escaped",
           Untroubled(w) \/ crash = "none", Undisturbed(w), Own(w)
    PROVE  Own(w)'
<1>a. PICK k \in Keys : k = KeyOf(w)
  BY KeyOfTyped
<1>b. Placed(w) /\ on[w] = k /\ k # NoKey /\ KeyOf(w)' = k
  BY <1>a, OwnInHand, KeyKept, WorkFramed DEF Ground
<1> USE DEF Ground, Own, OnRecord, Tried, State, Placed, Execution, Executing, Terminals,
            Recoverable, Keeps, Untroubled, Undisturbed
<1>1. CASE Cart(w)
  BY <1>a, <1>b, <1>1, CartEffect
<1>2. CASE SetCart(w)
  BY <1>a, <1>b, <1>2, SetCartEffect
<1>3. CASE Item(w)
  BY <1>a, <1>b, <1>3, ItemEffect
<1>4. CASE CheckOrder(w)
  BY <1>a, <1>b, <1>4, CheckOrderEffect
<1>5. CASE LookupOrder(w)
  BY <1>a, <1>b, <1>5, LookupOrderEffect
<1>6. CASE CallOrder(w)
  BY <1>a, <1>b, <1>6, CallOrderEffect
<1>7. CASE SetOrder(w)
  BY <1>a, <1>b, <1>7, SetOrderEffect
<1>8. CASE CheckPending(w)
  BY <1>a, <1>b, <1>8, CheckPendingEffect
<1>9. CASE SetPending(w)
  BY <1>a, <1>b, <1>9, SetPendingEffect
<1>10. CASE CheckPay(w)
  BY <1>a, <1>b, <1>10, CheckPayEffect
<1>11. CASE LookupPay(w)
  BY <1>a, <1>b, <1>11, LookupPayEffect
<1>12. CASE CallPay(w)
  BY <1>a, <1>b, <1>12, CallPayEffect
<1>13. CASE SetPay(w)
  BY <1>a, <1>b, <1>13, SetPayEffect
<1>14. CASE CheckComplete(w)
  BY <1>a, <1>b, <1>14, CheckCompleteEffect
<1>15. CASE Complete(w)
  BY <1>a, <1>b, <1>15, CompleteEffect
<1>16. CASE Failed(w)
  BY <1>a, <1>b, <1>16, FailedEffect
<1>17. CASE Cancel(w)
  BY <1>a, <1>b, <1>17, CancelEffect
<1>18. CASE SetCancelled(w)
  BY <1>a, <1>b, <1>18, SetCancelledEffect
<1>19. QED
  BY <1>1, <1>2, <1>3, <1>4, <1>5, <1>6, <1>7, <1>8, <1>9, <1>10, <1>11, <1>12, <1>13, <1>14,
     <1>15, <1>16, <1>17, <1>18 DEF Work

(* In a run without a pool nobody else is at work.                         *)
LEMMA OthersAway ==
    ASSUME Ground, InTurn, concurrency = 1, NEW w \in Requests, Begin(w) \/ Step(w),
           NEW v \in Requests \ {w}
    PROVE  pc[v] \in {"idle", "done"}
<1>1. pc[w] # "done" /\ \A u \in 1 .. w - 1 : pc[u] = "done"
  <2>1. CASE Begin(w)
    BY <2>1, TakenAlone DEF Begin
  <2>2. CASE Step(w)
    BY <2>2, StepMoves DEF InTurn
  <2>3. QED BY <2>1, <2>2
<1>2. v \in 1 .. w - 1 \/ w \in 1 .. v - 1
  BY SimulationAssumption DEF Requests
<1>3. QED BY <1>1, <1>2 DEF InTurn

(* and a recovery finds no other, for every other is final.                *)
LEMMA OwnStep ==
    ASSUME Ground, Ground', Serial, PaymentsFollow', Faultless, Faultless', Owed, OwnRecord,
           NEW w \in Requests, Begin(w) \/ Step(w)
    PROVE  OwnRecord'
<1>1. Framed(w) /\ crash' = crash /\ concurrency' = concurrency /\ scenario' = scenario
  BY BeginEffect, StepFramed DEF Ground, Framed, run
<1>2. SUFFICES ASSUME concurrency = 1, crash = CrashBoundary(scenario), NEW v \in Requests
               PROVE  Own(v)'
  BY <1>1 DEF OwnRecord, CrashBoundary
<1>3. /\ Untroubled(w) \/ crash = "none"
      /\ pc'[w] # "escaped" /\ Own(w) /\ Own(v) /\ Undisturbed(w) /\ InTurn
  BY <1>1, <1>2
     DEF PaymentsFollow, Faultless, Interrupted, Untroubled, CrashBoundary, OwnRecord, Serial,
         Sequential
<1>4. \A u \in Requests \ {w} : pc[u] \in {"idle", "done"}
  BY <1>2, <1>3, OthersAway
<1>5. CASE v # w
  <2>1. Placed(v) /\ KeyOf(v)' = KeyOf(v)
    BY <1>1, KeyKept DEF Ground, Discipline
  <2>2. pc'[v] \in {"idle", "done"} /\ (pc[v] = "idle" => Executing(v))
    BY <1>1, <1>4, <1>5, <2>1 DEF Framed, Placed, Execution
  <2>3. QED BY <1>1, <1>3, <1>5, <2>1, <2>2 DEF Framed, Own, OnRecord, Executing
<1>6. CASE v = w
  <2>1. PICK k \in Keys : k = KeyOf(w)
    BY KeyOfTyped
  <2>2. KeyOf(w)' = k /\ Placed(w) /\ (pc[w] # "idle" => on[w] = k) /\ NoKey # k
    BY <1>1, <1>3, <2>1, KeyKept, OwnInHand
  <2>3. \A j \in Keys : records[j].state \notin Terminals \cup {"NONE"} => Owes(w, j)
    BY <1>2, <1>4 DEF Owed, Owes, Ahead, OnRecord
  <2>4. CASE Begin(w)
    <3>1. records[k].state \in Terminals \cup {"NONE"}
      BY <2>3, <2>4, BeginEffect DEF Ground, Owes, Ahead, OnRecord
    <3>2. \/ /\ records'[k].state \in Terminals
             /\ pc'[w] = "report" /\ answer'[w] = k /\ on'[w] = k
          \/ records'[k].state = "STARTED" /\ pc'[w] = "cart" /\ on'[w] = k
      <4>1. records[k].state = "NONE" => records[k] = NoRecord
        <5>1. /\ Founded(k) /\ records[k] \in Record /\ (records[k].payment => k \in payments)
          BY DEF Ground, Discipline, SInv, RecordsBacked, Typed, TypeOK
        <5>2. QED BY <5>1 DEF Founded, Record, NoRecord
      <4>2. QED BY <2>1, <2>4, <3>1, <4>1, BeginEffect DEF Ground
    <3>3. Executing(w)'
      BY <2>2, <2>4, BeginEffect DEF Ground, Placed, Execution, Executing
    <3>4. QED BY <2>2, <3>2, <3>3, <1>6 DEF Own, Executing
  <2>5. CASE Recover(w)
    <3>1. /\ UNCHANGED <<records, created>> /\ pc'[w] = "next" /\ on'[w] = k
          /\ queue'[w] = Intermediate /\ phase'[w] = "recover"
          /\ Executing(w) /\ pc[w] = "recover"
      BY <2>2, <2>5, RecoverEffect DEF Ground, Placed, Execution
    <3>2. records[k].state \in Recoverable
      BY <1>3, <2>1, <3>1 DEF Own
    <3>3. Intermediate \subseteq {k}
      <4>1. ASSUME NEW j \in Intermediate PROVE j = k
        <5>1. j \in Keys /\ records[j].state \notin Terminals
          BY DEF Intermediate, Ground, Typed, TypeOK, Range
        <5>2. records[j].state # "NONE"
          BY <5>1 DEF Intermediate, Ground, Discipline, Founded
        <5>3. Owes(w, j)
          BY <2>3, <5>1, <5>2
        <5>4. QED BY <2>2, <3>1, <5>3 DEF Owes, OnRecord
      <4>2. QED BY <4>1
    <3>4. k \in Intermediate
      BY <3>2 DEF Intermediate, Ground, Discipline, Founded, Recoverable, Terminals
    <3>5. QED BY <1>6, <2>2, <3>1, <3>2, <3>3, <3>4 DEF Own, Executing, OnRecord
  <2>6. CASE NextRecord(w)
    <3>1. /\ UNCHANGED <<records, phase, answer>> /\ pc[w] = "next" /\ ~ Executing(w)
      BY <2>2, <2>6, NextRecordEffect DEF Ground, Placed
    <3>2. CASE queue[w] = {} /\ pc'[w] = "report" /\ UNCHANGED <<on, queue>>
      BY <1>3, <1>6, <2>1, <2>2, <3>1, <3>2 DEF Own, Executing, OnRecord
    <3>3. CASE pc'[w] = "order" /\ on'[w] \in queue[w] /\ queue'[w] = queue[w] \ {on'[w]}
      <4>1. on'[w] = k /\ queue'[w] = {} /\ records[k].state \in Recoverable
        BY <1>3, <2>1, <3>1, <3>3 DEF Own
      <4>2. QED BY <1>6, <2>2, <3>1, <3>3, <4>1 DEF Own, Executing, OnRecord
    <3>4. QED BY <2>6, <3>2, <3>3, NextRecordEffect DEF Ground
  <2>7. CASE Report(w)
    <3>1. /\ pc[w] = "report" /\ UNCHANGED <<records, on, phase, queue>> /\ pc'[w] = "done"
          /\ answer'[w] = answer[w]
          /\ outcome'[w] = IF answer'[w] = NoKey THEN "FAILED" ELSE records[answer'[w]].state
      BY <1>3, <2>7, ReportEffect DEF Ground, Own
    <3>2. answer[w] = k /\ records[k].state \in Terminals
      BY <1>3, <2>1, <3>1 DEF Own
    <3>3. outcome'[w] \in Terminals
      BY <2>2, <3>1, <3>2
    <3>4. QED BY <1>3, <1>6, <2>1, <2>2, <3>1, <3>2, <3>3 DEF Own, Executing, OnRecord
  <2>8. CASE Work(w)
    BY <1>3, <1>6, <2>8, WorkOwn
  <2>9. QED BY <2>4, <2>5, <2>6, <2>7, <2>8 DEF Step, Work
<1>7. QED BY <1>5, <1>6

(* So every single worker reports the record of its own request.           *)
LEMMA OwnRecordHolds == ASSUME MaxAttempts > 1 PROVE Spec => []OwnRecord
<1>1. Init => OwnRecord
  BY DEF Init, OwnRecord, Own, Executing
<1>2. /\ Ground /\ Ground' /\ Serial /\ PaymentsFollow' /\ Faultless /\ Faultless' /\ Owed
      /\ OwnRecord /\ [Next]_vars
      => OwnRecord'
  <2> SUFFICES ASSUME Ground, Ground', Serial, PaymentsFollow', Faultless, Faultless', Owed,
                      OwnRecord, [Next]_vars
               PROVE  OwnRecord'
    OBVIOUS
  <2>1. CASE UNCHANGED vars
    BY <2>1 DEF vars, simulated, run, OwnRecord, Own, Executing, KeyOf, CrashBoundary
  <2>2. QED BY <2>1, OwnStep DEF Next
<1>3. QED
  BY <1>1, <1>2, GroundHolds, SerialHolds, PaymentsHold, FaultlessHolds, OwedHolds, PTL DEF Spec

(* Without a pool the record execute_one reports is that of its own        *)
(* request, in a final state, interrupted and recovered or not.            *)
THEOREM ReportsOwnRecordAloneHolds ==
    ASSUME MaxAttempts > 1 PROVE Spec => []ReportsOwnRecordAlone
<1>1. OwnRecord => ReportsOwnRecordAlone
  BY DEF OwnRecord, ReportsOwnRecordAlone, ReportsOwnRecord, Own
<1>2. QED BY <1>1, OwnRecordHolds, PTL
=============================================================================
