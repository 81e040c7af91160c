-------------------------- MODULE ServiceRunProofs --------------------------
(***************************************************************************)
(* Proofs that an inspected answer never raises a false alarm, that no     *)
(* count overstates the effects, for any workload, any number of workers   *)
(* and an orchestrator that is any implementation of EffectLedger.         *)
(***************************************************************************)
EXTENDS ServiceRunProperties, FiniteSetTheorems, TLAPS

Typing ==
    /\ record \in [Keys -> States \cup {"NONE"}]
    /\ order \in [Keys -> {"NONE", "ACTIVE", "CANCELLED"}]
    /\ paid \in [Keys -> BOOLEAN]
    /\ run \in Runs
    /\ results \in [Attempts -> Result]

(* The effects a state claims exist.                                       *)
Backed(s, k) ==
    /\ s = "COMPLETED" => order[k] # "NONE" /\ paid[k]
    /\ s = "COMPENSATED" => order[k] = "CANCELLED"

RecordsJustified == \A k \in Keys : Backed(record[k], k)

(* What an attempt for k knows is true and stays true: the answer is       *)
(* backed, and what the answer claims was seen by each read made after it. *)
Supported(r, k) ==
    /\ Backed(r.answer, k)
    /\ r.inspected => r.stage = "done"
    /\ r.counts.orders = 1 => order[k] # "NONE"
    /\ r.counts.payments = 1 => paid[k]
    /\ r.stage = "half" \/ r.inspected =>
          /\ r.answer = "COMPLETED" => r.counts.orders = 1
          /\ r.answer = "COMPENSATED" => r.counts.active = 0
    /\ r.inspected /\ r.answer = "COMPLETED" => r.counts.payments = 1

RInv ==
    /\ Typing
    /\ RecordsJustified
    /\ \A i \in Attempts : Supported(results[i], KeyOf(i))

-----------------------------------------------------------------------------

LEMMA KeyTyping ==
    ASSUME run \in Runs, NEW i \in Attempts
    PROVE  KeyOf(i) \in Keys
<1>1. run \in Run
  BY RunAssumption
<1>2. run.workload \in Seq(Keys)
  BY <1>1 DEF Run
<1>3. QED BY <1>2 DEF Attempts, KeyOf

(* A step of the orchestrator keeps its promises and takes nothing back.   *)
LEMMA LedgerKeeps ==
    ASSUME Typing, RecordsJustified, NEW k \in Keys, LedgerStep(k)
    PROVE  /\ record' \in [Keys -> States \cup {"NONE"}]
           /\ order' \in [Keys -> {"NONE", "ACTIVE", "CANCELLED"}]
           /\ paid' \in [Keys -> BOOLEAN]
           /\ RecordsJustified'
           /\ \A l \in Keys : /\ order[l] # "NONE" => order[l]' # "NONE"
                              /\ order[l] = "CANCELLED" => order[l]' = "CANCELLED"
                              /\ paid[l] => paid[l]'
<1> USE DEF Typing, RecordsJustified, Backed
<1>1. CASE Open(k)
  BY <1>1, RunAssumption DEF Open, States
<1>2. CASE Rewrite(k)
  <2>1. PICK s \in States :
            /\ Justified(s, order[k], paid[k])
            /\ record' = [record EXCEPT ![k] = s]
    BY <1>2 DEF Rewrite, States
  <2>2. Backed(s, k)
    <3>1. s = "COMPLETED" => order[k] # "NONE" /\ paid[k]
      BY <2>1 DEF Justified
    <3>2. s = "COMPENSATED" => order[k] = "CANCELLED"
      BY <2>1 DEF Justified
    <3>3. QED BY <3>1, <3>2
  <2>3. UNCHANGED <<order, paid>>
    BY <1>2 DEF Rewrite
  <2>4. QED BY <2>1, <2>2, <2>3
<1>3. CASE Place(k)
  BY <1>3 DEF Place
<1>4. CASE Cancel(k)
  BY <1>4 DEF Cancel
<1>5. CASE Pay(k)
  BY <1>5 DEF Pay
<1>6. QED BY <1>1, <1>2, <1>3, <1>4, <1>5 DEF LedgerStep

(* The orchestrator at work on any key. *)
LEMMA OrchestratorStep ==
    ASSUME RInv, Orchestrator
    PROVE  RInv'
<1>1. PICK k \in Keys : LedgerStep(k)
  BY KeyTyping DEF RInv, Typing, Orchestrator
<1>2. UNCHANGED <<run, results>>
  BY DEF Orchestrator, runner
<1>3. Typing'
  BY <1>1, <1>2, LedgerKeeps DEF RInv, Typing, Attempts
<1>4. RecordsJustified'
  BY <1>1, LedgerKeeps DEF RInv
<1>5. ASSUME NEW i \in Attempts PROVE Supported(results[i], KeyOf(i))'
  <2>1. PICK k0 \in Keys, r0 \in Result : k0 = KeyOf(i) /\ r0 = results[i]
    BY <1>5, KeyTyping DEF RInv, Typing
  <2>2. KeyOf(i)' = k0 /\ results'[i] = r0
    BY <1>2, <2>1 DEF KeyOf
  <2>3. Supported(r0, k0)
    BY <2>1 DEF RInv
  <2>4. /\ order[k0] # "NONE" => order'[k0] # "NONE"
        /\ order[k0] = "CANCELLED" => order'[k0] = "CANCELLED"
        /\ paid[k0] => paid'[k0]
    BY <1>1, LedgerKeeps DEF RInv
  <2>5. Supported(r0, k0)'
    BY <2>3, <2>4 DEF Supported, Backed
  <2>6. QED BY <2>2, <2>5 DEF Supported, Backed
<1>6. Attempts' = Attempts
  BY <1>2 DEF Attempts
<1>7. QED BY <1>3, <1>4, <1>5, <1>6 DEF RInv

(* A thread of the pool writes one result; what it writes must be known    *)
(* from the services.                                                      *)
LEMMA UpdateKeeps ==
    ASSUME RInv, NEW i \in Attempts, NEW r \in Result,
           Supported(r, KeyOf(i)), Update(i, r)
    PROVE  RInv'
<1>1. UNCHANGED <<record, order, paid, run>> /\ results' = [results EXCEPT ![i] = r]
  BY DEF Update, ledger
<1>2. Attempts' = Attempts /\ \A j \in Attempts : KeyOf(j)' = KeyOf(j)
  BY <1>1 DEF Attempts, KeyOf
<1>3. Typing'
  BY <1>1, <1>2 DEF RInv, Typing, States
<1>4. RecordsJustified'
  BY <1>1 DEF RInv, RecordsJustified, Backed
<1>5. ASSUME NEW j \in Attempts PROVE Supported(results[j], KeyOf(j))'
  <2>1. results'[j] = IF j = i THEN r ELSE results[j]
    BY <1>1 DEF RInv, Typing
  <2>2. Supported(results'[j], KeyOf(j))
    BY <2>1 DEF RInv
  <2>3. QED BY <1>1, <1>2, <2>2 DEF Supported, Backed
<1>6. QED BY <1>2, <1>3, <1>4, <1>5 DEF RInv

LEMMA ThreadStep ==
    ASSUME RInv, NEW i \in Attempts, Thread(i)
    PROVE  RInv'
<1> DEFINE r == results[i]
<1> DEFINE k == KeyOf(i)
<1>1. r \in Result /\ k \in Keys /\ Supported(r, k)
  BY KeyTyping DEF RInv, Typing
<1>2. /\ order[k] \in {"NONE", "ACTIVE", "CANCELLED"} /\ paid[k] \in BOOLEAN
      /\ record[k] \in States \cup {"NONE"} /\ Backed(record[k], k)
  BY <1>1 DEF RInv, Typing, RecordsJustified
<1> HIDE DEF k
<1>3. CASE Send(i)
  <2> DEFINE q == [r EXCEPT !.stage = "sent"]
  <2>1. r.stage = "queued" /\ Update(i, q)
    BY <1>3 DEF Send
  <2>2. q \in Result /\ Supported(q, k)
    BY <1>1, <2>1 DEF Result, Supported
  <2>3. QED BY <2>1, <2>2, UpdateKeeps DEF k
<1>4. CASE Answered(i)
  <2>1. PICK b \in BOOLEAN :
            Update(i, [r EXCEPT !.stage = "answered", !.recovered = b, !.answer = record[k]])
    BY <1>4 DEF Answered, k
  <2> DEFINE q == [r EXCEPT !.stage = "answered", !.recovered = b, !.answer = record[k]]
  <2>2. r.stage \in {"sent", "recovering"}
    BY <1>4 DEF Answered
  <2>3. q \in Result /\ Supported(q, k)
    BY <1>1, <1>2, <2>2 DEF Result, Supported
  <2>4. QED BY <2>1, <2>3, UpdateKeeps DEF k
<1>5. CASE Unanswered(i)
  <2> DEFINE q == [r EXCEPT !.stage = "answered"]
  <2>1. r.stage \in {"sent", "recovering"} /\ Update(i, q)
    BY <1>5 DEF Unanswered
  <2>2. q \in Result /\ Supported(q, k)
    BY <1>1, <2>1 DEF Result, Supported
  <2>3. QED BY <2>1, <2>2, UpdateKeeps DEF k
<1>6. CASE Interrupted(i)
  <2> DEFINE q == [r EXCEPT !.stage = "recovering"]
  <2>1. r.stage = "sent" /\ Update(i, q)
    BY <1>6 DEF Interrupted
  <2>2. q \in Result /\ Supported(q, k)
    BY <1>1, <2>1 DEF Result, Supported
  <2>3. QED BY <2>1, <2>2, UpdateKeeps DEF k
<1>7. CASE InspectOrders(i)
  <2> DEFINE o == IF order[k] # "NONE" THEN 1 ELSE 0
  <2> DEFINE a == IF order[k] = "ACTIVE" THEN 1 ELSE 0
  <2> DEFINE c == [r.counts EXCEPT !.orders = o, !.active = a]
  <2> DEFINE q == [r EXCEPT !.stage = "half", !.counts = c]
  <2>1. r.stage = "answered" /\ Update(i, q)
    BY <1>7 DEF InspectOrders, k
  <2>2. /\ o \in 0 .. 1 /\ a \in 0 .. 1
        /\ o = 1 <=> order[k] # "NONE"
        /\ a = 0 <=> order[k] # "ACTIVE"
    OBVIOUS
  <2> HIDE DEF o, a
  <2>3. /\ c \in Counts /\ c.orders = o /\ c.active = a
        /\ c.payments = r.counts.payments
    BY <1>1, <2>2 DEF Result, Counts
  <2> HIDE DEF c
  <2>4. /\ q \in Result
        /\ q.stage = "half" /\ q.answer = r.answer /\ q.inspected = r.inspected /\ q.counts = c
    BY <1>1, <2>3 DEF Result
  <2> HIDE DEF q
  <2>5. Supported(q, k)
    BY <1>1, <2>1, <2>2, <2>4, <2>3 DEF Supported, Backed
  <2>6. QED BY <2>1, <2>4, <2>5, UpdateKeeps DEF k
<1>8. CASE InspectPayments(i)
  <2> DEFINE c == [r.counts EXCEPT !.payments = IF paid[k] THEN 1 ELSE 0]
  <2> DEFINE q == [r EXCEPT !.stage = "done", !.inspected = TRUE, !.counts = c]
  <2>1. r.stage = "half" /\ Update(i, q)
    BY <1>8 DEF InspectPayments, k
  <2>2. /\ c \in Counts
        /\ c.orders = r.counts.orders /\ c.active = r.counts.active
        /\ c.payments = (IF paid[k] THEN 1 ELSE 0)
    BY <1>1 DEF Result, Counts
  <2> HIDE DEF c
  <2>3. /\ q \in Result
        /\ q.stage = "done" /\ q.answer = r.answer /\ q.inspected /\ q.counts = c
    BY <1>1, <2>2 DEF Result
  <2> HIDE DEF q
  <2>4. Supported(q, k)
    BY <1>1, <2>1, <2>2, <2>3 DEF Supported, Backed
  <2>5. QED BY <2>1, <2>3, <2>4, UpdateKeeps DEF k
<1>9. CASE InspectionLost(i)
  <2> DEFINE q == [r EXCEPT !.stage = "done", !.counts = Nothing]
  <2>1. r.stage \in {"answered", "half"} /\ Update(i, q)
    BY <1>9 DEF InspectionLost
  <2>2. Nothing \in Counts /\ Nothing.orders = 0 /\ Nothing.payments = 0
    BY DEF Nothing, Counts
  <2>3. /\ q \in Result
        /\ q.stage = "done" /\ q.answer = r.answer /\ q.inspected = r.inspected
        /\ q.counts = Nothing
    BY <1>1, <2>2 DEF Result
  <2> HIDE DEF q
  <2>4. Supported(q, k)
    BY <1>1, <2>1, <2>2, <2>3 DEF Supported
  <2>5. QED BY <2>1, <2>3, <2>4, UpdateKeeps DEF k
<1>10. QED
  BY <1>3, <1>4, <1>5, <1>6, <1>7, <1>8, <1>9 DEF Thread

(* The main thread writes neither the results of inspection nor anything   *)
(* the services hold.                                                      *)
LEMMA MainStep ==
    ASSUME Main
    PROVE  UNCHANGED <<record, order, paid, run, results>>
BY DEF Main, PoolEnds, Find, FindNothing, Settle, Recover, RecoverAnswered, RecoverFails,
       LoopEnds, Reconciled, CollectEvents, EventsCollected, WriteSummary, ledger

LEMMA Stays ==
    ASSUME RInv, UNCHANGED <<record, order, paid, run, results>>
    PROVE  RInv'
BY DEF RInv, Typing, RecordsJustified, Supported, Backed, Attempts, KeyOf

LEMMA InitEstablishes == Init => RInv
<1> SUFFICES ASSUME Init PROVE RInv
  OBVIOUS
<1>1. Fresh \in Result
  BY DEF Fresh, Result, Counts, Nothing
<1>2. Typing
  BY <1>1 DEF Init, LedgerInit, Typing, States
<1>3. RecordsJustified
  BY DEF Init, LedgerInit, RecordsJustified, Backed
<1>4. ASSUME NEW i \in Attempts PROVE Supported(results[i], KeyOf(i))
  <2>1. results[i] = Fresh
    BY DEF Init
  <2>2. QED BY <2>1 DEF Supported, Backed, Fresh, Nothing
<1>5. QED BY <1>2, <1>3, <1>4 DEF RInv

LEMMA NextKeeps == RInv /\ [Next]_vars => RInv'
<1> SUFFICES ASSUME RInv, [Next]_vars PROVE RInv'
  OBVIOUS
<1>1. CASE Orchestrator
  BY <1>1, OrchestratorStep
<1>2. CASE Pool
  BY <1>2, ThreadStep DEF Pool
<1>3. CASE Main
  BY <1>3, MainStep, Stays
<1>4. CASE DeadlinePasses
  BY <1>4, Stays DEF DeadlinePasses, ledger
<1>5. CASE UNCHANGED vars
  BY <1>5, Stays DEF vars, ledger, runner
<1>6. QED BY <1>1, <1>2, <1>3, <1>4, <1>5 DEF Next

(* Every behaviour of the runner keeps the invariant: an answer, and what  *)
(* was seen after it, is backed by the services from then on.              *)
THEOREM SupportHolds == Spec => []RInv
BY InitEstablishes, NextKeeps, PTL DEF Spec

(* Violation() finds nothing in a supported result.                        *)
LEMMA SeenIsSound ==
    ASSUME RInv, NEW i \in Attempts, results[i].inspected, results[i].answer # "NONE"
    PROVE  Violation(results[i]) = "none"
<1>1. PICK r \in Result : r = results[i] /\ Supported(r, KeyOf(i))
  BY DEF RInv, Typing
<1>2. r.counts.payments \in 0 .. 1 /\ r.counts.orders \in 0 .. 1 /\ r.counts.active \in 0 .. 1
  BY <1>1 DEF Result, Counts
<1>3. /\ r.answer = "COMPLETED" => r.counts.orders = 1 /\ r.counts.payments = 1
      /\ r.answer = "COMPENSATED" => r.counts.active = 0
  BY <1>1 DEF Supported
<1>4. QED BY <1>1, <1>2, <1>3 DEF Violation

(* An attempt that was answered and inspected reports no violation         *)
(* (service_backend.inspect), whatever the orchestrator does meanwhile.    *)
THEOREM FalseAlarmNever == Spec => []NoFalseAlarm
<1>1. RInv => NoFalseAlarm
  BY SeenIsSound DEF NoFalseAlarm
<1>2. QED BY <1>1, SupportHolds, PTL

(* The order and payment counts of an attempt (service_backend.inspect)    *)
(* name effects that exist then and ever after.                            *)
THEOREM CountsSound == Spec => []CountsNeverOverstate
<1>1. RInv => CountsNeverOverstate
  BY DEF RInv, Supported, CountsNeverOverstate
<1>2. QED BY <1>1, SupportHolds, PTL

-----------------------------------------------------------------------------
(* The verdicts of the main thread.                                        *)

(* What reconciliation wrote for a key that was run is backed, and of an   *)
(* attempted recovery it says one thing.                                   *)
VerdictSound(k) ==
    /\ k \in KeysRun => Backed(logical[k].final, k)
    /\ logical[k].completed => logical[k].attempted /\ Terminal(logical[k].final)
    /\ logical[k].failed => logical[k].attempted /\ ~ Terminal(logical[k].final)

(* The loop of reconciliation knows a state of its key, and only asks for  *)
(* the recovery of one that is not terminal.                               *)
PollSound ==
    /\ polling = [final |-> polling.final, attempted |-> polling.attempted,
                   asked |-> polling.asked]
    /\ polling.attempted \in BOOLEAN
    /\ polling # NotPolling => Reconciling
    /\ polling # NotPolling /\ Head(todo) \in KeysRun => Backed(polling.final, Head(todo))
    /\ polling.asked => polling # NotPolling /\ polling.attempted /\ ~ Terminal(polling.final)

MInv ==
    /\ RInv
    /\ logical = [k \in Keys |-> logical[k]]
    /\ \A k \in Keys : VerdictSound(k)
    /\ PollSound

LEMMA KeysRunTyping ==
    ASSUME run \in Runs
    PROVE  KeysRun \subseteq Keys
BY KeyTyping DEF KeysRun

(* _best_observed_state returns the status of one of the attempts.         *)
LEMMA BestBacked ==
    ASSUME RInv, NEW k \in KeysRun
    PROVE  Backed(BestObserved(k), k)
<1> DEFINE seen == {Status(results[i]) : i \in AttemptsOf(k)}
<1> DEFINE best == CHOOSE n \in DOMAIN Preference :
                      /\ Preference[n] \in seen
                      /\ \A m \in DOMAIN Preference : Preference[m] \in seen => n <= m
<1>1. DOMAIN Preference = 1 .. 9
  BY DEF Preference
<1>2. PICK i \in AttemptsOf(k) : TRUE
  BY DEF KeysRun, AttemptsOf
<1>3. Status(results[i]) \in States
  BY <1>2 DEF RInv, Typing, Status, Result, AttemptsOf, States, ClosedStates
<1>4. \A s \in States : \E n \in 1 .. 9 : Preference[n] = s
  BY RunAssumption DEF States, ClosedStates, Preference
<1>5. \E n \in 1 .. 9 : Preference[n] \in seen
  BY <1>2, <1>3, <1>4
<1> HIDE DEF seen
<1>6. \E n \in 1 .. 9 : /\ Preference[n] \in seen
                         /\ \A m \in 1 .. 9 : Preference[m] \in seen => n <= m
  BY <1>5
<1>7. Preference[best] \in seen
  BY <1>1, <1>6
<1> HIDE DEF best
<1>8. PICK j \in AttemptsOf(k) : Preference[best] = Status(results[j])
  BY <1>7 DEF seen
<1>9. Backed(results[j].answer, k)
  BY <1>8 DEF RInv, Supported, AttemptsOf
<1>10. Backed(Status(results[j]), k)
  BY <1>9 DEF Status, Backed
<1>11. BestObserved(k) = Preference[best]
  BY DEF BestObserved, best, seen
<1>12. QED BY <1>8, <1>10, <1>11

(* What the main thread knows outlasts the steps of the others.            *)
LEMMA OthersKeep ==
    ASSUME MInv, RInv', UNCHANGED <<run, phase, todo, polling, logical>>,
           \A l \in Keys : /\ order[l] # "NONE" => order'[l] # "NONE"
                           /\ order[l] = "CANCELLED" => order'[l] = "CANCELLED"
                           /\ paid[l] => paid'[l]
    PROVE  MInv'
<1>1. KeysRun' = KeysRun /\ KeysRun \subseteq Keys
  BY KeysRunTyping DEF KeysRun, Attempts, KeyOf, MInv, RInv, Typing
<1>2. \A l \in Keys : \A s :
         Backed(s, l) => /\ s = "COMPLETED" => order'[l] # "NONE" /\ paid'[l]
                         /\ s = "COMPENSATED" => order'[l] = "CANCELLED"
  BY DEF Backed
<1>3. ASSUME NEW k \in Keys PROVE VerdictSound(k)'
  BY <1>1, <1>2, <1>3 DEF MInv, VerdictSound, Backed, Terminal
<1>4. PollSound'
  BY <1>1, <1>2 DEF MInv, PollSound, Backed, Terminal, Reconciling
<1>5. QED BY <1>3, <1>4 DEF MInv

(* The verdict on the key at hand.                                         *)
LEMMA SettleKeeps ==
    ASSUME MInv, NEW final, NEW attempted \in BOOLEAN, NEW gaveUp \in BOOLEAN,
           Settle(final, attempted, gaveUp),
           Head(todo) \in KeysRun => Backed(final, Head(todo)),
           gaveUp => attempted /\ ~ Terminal(final)
    PROVE  MInv'
<1> DEFINE v == [final |-> final, attempted |-> attempted,
                 completed |-> attempted /\ Terminal(final), failed |-> gaveUp]
<1>1. /\ UNCHANGED <<record, order, paid, run, results>>
      /\ logical' = [logical EXCEPT ![Head(todo)] = v] /\ polling' = NotPolling
  BY DEF Settle, ledger
<1>2. RInv' /\ KeysRun' = KeysRun
  BY <1>1, Stays DEF MInv, KeysRun, Attempts, KeyOf
<1>3. v.final = final /\ v.attempted = attempted /\ v.failed = gaveUp
      /\ v.completed = (attempted /\ Terminal(final))
  OBVIOUS
<1> HIDE DEF v
<1>4. \A k \in Keys : logical'[k] = IF k = Head(todo) THEN v ELSE logical[k]
  BY <1>1 DEF MInv
<1>5. logical' = [k \in Keys |-> logical'[k]]
  BY <1>1 DEF MInv
<1>6. ASSUME NEW k \in Keys PROVE VerdictSound(k)'
  <2>1. CASE k = Head(todo)
    BY <2>1, <1>1, <1>2, <1>3, <1>4 DEF VerdictSound, Backed, Terminal
  <2>2. CASE k # Head(todo)
    BY <2>2, <1>1, <1>2, <1>4 DEF MInv, VerdictSound, Backed, Terminal
  <2>3. QED BY <2>1, <2>2
<1>7. PollSound'
  BY <1>1 DEF PollSound, NotPolling
<1>8. QED BY <1>2, <1>5, <1>6, <1>7 DEF MInv

LEMMA MainStepKeeps ==
    ASSUME MInv, Main
    PROVE  MInv'
<1>1. UNCHANGED <<record, order, paid, run, results>> /\ RInv'
  BY MainStep, Stays DEF MInv
<1>2. KeysRun' = KeysRun /\ KeysRun \subseteq Keys
  BY <1>1, KeysRunTyping DEF KeysRun, Attempts, KeyOf, MInv, RInv, Typing
<1>3. ASSUME UNCHANGED logical, PollSound' PROVE MInv'
  <2>1. ASSUME NEW k \in Keys PROVE VerdictSound(k)'
    BY <1>1, <1>2, <1>3 DEF MInv, VerdictSound, Backed, Terminal
  <2>2. QED BY <1>1, <1>3, <2>1 DEF MInv
<1>4. \A k : RecoveredOf(k) \in BOOLEAN
  BY DEF RecoveredOf
<1>5. CASE PoolEnds \/ Reconciled \/ CollectEvents \/ EventsCollected \/ WriteSummary
  <2>1. polling = NotPolling
    BY <1>5 DEF MInv, PollSound, Reconciling, PoolEnds, Reconciled, CollectEvents,
                EventsCollected, WriteSummary
  <2>2. UNCHANGED <<logical, polling>>
    BY <1>5 DEF PoolEnds, Reconciled, CollectEvents, EventsCollected, WriteSummary
  <2>3. PollSound'
    BY <2>1, <2>2 DEF PollSound, NotPolling
  <2>4. QED BY <1>3, <2>2, <2>3
<1>6. CASE Find
  <2>1. /\ polling' = [final |-> record[Head(todo)], attempted |-> RecoveredOf(Head(todo)),
                       asked |-> FALSE]
        /\ UNCHANGED <<phase, todo, logical>> /\ Reconciling
    BY <1>6 DEF Find
  <2>2. Head(todo) \in KeysRun => Backed(record[Head(todo)], Head(todo))
    BY <1>2 DEF MInv, RInv, RecordsJustified
  <2>3. PollSound'
    BY <1>1, <1>2, <1>4, <2>1, <2>2 DEF PollSound, Reconciling, Backed
  <2>4. QED BY <1>3, <2>1, <2>3
<1>7. CASE FindNothing
  <2>1. Settle(BestObserved(Head(todo)), RecoveredOf(Head(todo)), FALSE)
    BY <1>7 DEF FindNothing
  <2>2. Head(todo) \in KeysRun => Backed(BestObserved(Head(todo)), Head(todo))
    BY BestBacked DEF MInv
  <2>3. QED BY <1>4, <2>1, <2>2, SettleKeeps
<1>8. CASE Recover
  <2>1. /\ polling' = [polling EXCEPT !.attempted = TRUE, !.asked = TRUE]
        /\ UNCHANGED <<phase, todo, logical>> /\ Reconciling
        /\ polling # NotPolling /\ ~ Terminal(polling.final)
    BY <1>8 DEF Recover, Looping, PollsOn
  <2>2. polling' = [final |-> polling.final, attempted |-> TRUE, asked |-> TRUE]
    BY <2>1 DEF MInv, PollSound
  <2>3. polling'.attempted # NotPolling.attempted
    BY <2>2 DEF NotPolling
  <2>4. PollSound'
    BY <1>1, <1>2, <2>1, <2>2, <2>3 DEF MInv, PollSound, Reconciling, Backed, Terminal
  <2>5. QED BY <1>3, <2>1, <2>4
<1>9. CASE RecoverAnswered
  <2>1. /\ polling' = [polling EXCEPT !.final = record[Head(todo)], !.asked = FALSE]
        /\ UNCHANGED <<phase, todo, logical>> /\ Reconciling
    BY <1>9 DEF RecoverAnswered
  <2>2. /\ polling' = [final |-> record[Head(todo)], attempted |-> polling.attempted,
                       asked |-> FALSE]
        /\ polling.attempted \in BOOLEAN
    BY <2>1 DEF MInv, PollSound
  <2>3. Head(todo) \in KeysRun => Backed(record[Head(todo)], Head(todo))
    BY <1>2 DEF MInv, RInv, RecordsJustified
  <2>4. PollSound'
    BY <1>1, <1>2, <2>1, <2>2, <2>3 DEF PollSound, Reconciling, Backed
  <2>5. QED BY <1>3, <2>1, <2>4
<1>10. CASE RecoverFails
  <2>1. Settle(polling.final, TRUE, TRUE) /\ polling.asked
    BY <1>10 DEF RecoverFails
  <2>2. QED BY <2>1, SettleKeeps DEF MInv, PollSound
<1>11. CASE LoopEnds
  <2>1. /\ Settle(polling.final, polling.attempted,
                  polling.attempted /\ ~ Terminal(polling.final))
        /\ polling # NotPolling
    BY <1>11 DEF LoopEnds, Looping
  <2>2. polling.attempted \in BOOLEAN
    BY DEF MInv, PollSound
  <2>3. QED BY <2>1, <2>2, SettleKeeps DEF MInv, PollSound
<1>12. QED
  BY <1>5, <1>6, <1>7, <1>8, <1>9, <1>10, <1>11 DEF Main

LEMMA MInitEstablishes == Init => MInv
<1> SUFFICES ASSUME Init PROVE MInv
  OBVIOUS
<1>1. \A k \in Keys : logical[k] = Unsettled
  BY DEF Init
<1>2. logical = [k \in Keys |-> logical[k]]
  BY DEF Init
<1>3. ASSUME NEW k \in Keys PROVE VerdictSound(k)
  BY <1>1 DEF VerdictSound, Unsettled, Backed
<1>4. PollSound
  BY DEF Init, PollSound, NotPolling
<1>5. QED BY <1>2, <1>3, <1>4, InitEstablishes DEF MInv

LEMMA MNextKeeps == MInv /\ [Next]_vars => MInv'
<1> SUFFICES ASSUME MInv, [Next]_vars PROVE MInv'
  OBVIOUS
<1>1. RInv'
  BY NextKeeps DEF MInv
<1>2. CASE Orchestrator
  <2>1. PICK k \in Keys : LedgerStep(k)
    BY <1>2, KeyTyping DEF MInv, RInv, Typing, Orchestrator
  <2>2. UNCHANGED <<run, phase, todo, polling, logical>>
    BY <1>2 DEF Orchestrator, runner
  <2>3. QED BY <1>1, <2>1, <2>2, LedgerKeeps, OthersKeep DEF MInv, RInv
<1>3. CASE Pool
  <2>1. \E i \in Attempts : \E r : Update(i, r)
    BY <1>3 DEF Pool, Thread, Send, Answered, Unanswered, Interrupted, InspectOrders,
                InspectPayments, InspectionLost
  <2>2. UNCHANGED <<record, order, paid, run, phase, todo, polling, logical>>
    BY <2>1 DEF Update, ledger
  <2>3. QED BY <1>1, <2>2, OthersKeep
<1>4. CASE Main
  BY <1>4, MainStepKeeps
<1>5. CASE DeadlinePasses
  <2>1. UNCHANGED <<record, order, paid, run, phase, todo, polling, logical>>
    BY <1>5 DEF DeadlinePasses, ledger
  <2>2. QED BY <1>1, <2>1, OthersKeep
<1>6. CASE UNCHANGED vars
  <2>1. UNCHANGED <<record, order, paid, run, phase, todo, polling, logical>>
    BY <1>6 DEF vars, ledger, runner
  <2>2. QED BY <1>1, <2>1, OthersKeep
<1>7. QED BY <1>2, <1>3, <1>4, <1>5, <1>6 DEF Next

(* A workload is finite, and so are the keys it names.                     *)
LEMMA Finiteness ==
    ASSUME run \in Runs
    PROVE  IsFiniteSet(Attempts) /\ IsFiniteSet(KeysRun)
<1>1. PICK n \in Nat : Attempts = 1 .. n
  <2>1. run.workload \in Seq(Keys)
    BY RunAssumption DEF Run
  <2>2. QED BY <2>1 DEF Attempts
<1>2. IsFiniteSet(Attempts)
  BY <1>1, FS_Interval
<1> DEFINE f == [i \in Attempts |-> KeyOf(i)]
<1>3. f \in Surjection(Attempts, KeysRun)
  BY DEF Surjection, KeysRun
<1>4. QED BY <1>2, <1>3, FS_Surjection

(* Two parts of a finite set that do not meet count no more than the set.  *)
LEMMA PartsCount ==
    ASSUME NEW S, IsFiniteSet(S), NEW A \in SUBSET S, NEW B \in SUBSET S, A \cap B = {}
    PROVE  /\ IsFiniteSet(A \cup B) /\ Cardinality(A) \in Nat /\ Cardinality(B) \in Nat
           /\ Cardinality(A \cup B) = Cardinality(A) + Cardinality(B)
           /\ Cardinality(A) + Cardinality(B) <= Cardinality(S)
<1>1. /\ IsFiniteSet(A) /\ IsFiniteSet(B) /\ IsFiniteSet(A \cup B)
      /\ Cardinality(A \cup B) <= Cardinality(S)
  BY FS_Subset
<1>2. Cardinality(A) \in Nat /\ Cardinality(B) \in Nat
  BY <1>1, FS_CardinalityType
<1>3. Cardinality(A \cup B) = Cardinality(A) + Cardinality(B) - Cardinality({})
  BY <1>1, FS_Union
<1>4. QED BY <1>1, <1>2, <1>3, FS_EmptySet

LEMMA VerdictHolds == Spec => []MInv
BY MInitEstablishes, MNextKeeps, PTL DEF Spec

LEMMA LogicalStateBacked ==
    ASSUME MInv, NEW k \in KeysRun
    PROVE  Backed(LogicalState(k), k)
<1>1. k \in Keys
  BY KeysRunTyping DEF MInv, RInv, Typing
<1>2. QED BY <1>1, BestBacked DEF MInv, VerdictSound, LogicalState

(* Each column of the summary that counts attempts or keys stays within    *)
(* those it may count.                                                     *)
LEMMA ColumnsFit ==
    ASSUME MInv
    PROVE  /\ Summary.recoveryCompleted + Summary.recoveryFailed <= Summary.recoveryAttempted
           /\ Summary.completedLogical + Summary.terminalFailedLogical
                 + Summary.nonTerminalAfterRecovery <= Cardinality(KeysRun)
           /\ Summary.violations <=
                 Cardinality({i \in Attempts : results[i].answer = "NONE" \/ ~ results[i].inspected})
<1>1. IsFiniteSet(Attempts) /\ IsFiniteSet(KeysRun)
  BY Finiteness DEF MInv, RInv, Typing
<1>2. \A i \in Attempts : KeyOf(i) \in Keys
  BY KeyTyping DEF MInv, RInv, Typing
<1>3. Summary.recoveryCompleted + Summary.recoveryFailed <= Summary.recoveryAttempted
  <2> DEFINE tried == {i \in Attempts : logical[KeyOf(i)].attempted}
  <2> DEFINE completed == {i \in Attempts : logical[KeyOf(i)].completed}
  <2> DEFINE gaveUp == {i \in Attempts : logical[KeyOf(i)].failed}
  <2>1. IsFiniteSet(tried)
    BY <1>1, FS_Subset
  <2>2. completed \in SUBSET tried /\ gaveUp \in SUBSET tried /\ completed \cap gaveUp = {}
    BY <1>2 DEF MInv, VerdictSound
  <2>3. /\ Summary.recoveryCompleted = Cardinality(completed)
        /\ Summary.recoveryFailed = Cardinality(gaveUp)
        /\ Summary.recoveryAttempted = Cardinality(tried)
    BY DEF Summary
  <2> HIDE DEF tried, completed, gaveUp
  <2>4. Cardinality(completed) + Cardinality(gaveUp) <= Cardinality(tried)
    BY <2>1, <2>2, PartsCount
  <2>5. QED BY <2>3, <2>4
<1>4. Summary.completedLogical + Summary.terminalFailedLogical
         + Summary.nonTerminalAfterRecovery <= Cardinality(KeysRun)
  <2> DEFINE settled == CompletedKeys \cup TerminalFailedKeys
  <2>1. /\ CompletedKeys \in SUBSET KeysRun /\ TerminalFailedKeys \in SUBSET KeysRun
        /\ NonTerminalAfterRecovery \in SUBSET KeysRun /\ settled \in SUBSET KeysRun
        /\ CompletedKeys \cap TerminalFailedKeys = {}
        /\ settled \cap NonTerminalAfterRecovery = {}
    BY DEF CompletedKeys, TerminalFailedKeys, NonTerminalAfterRecovery, Terminal, ClosedStates
  <2>2. Cardinality(settled) = Cardinality(CompletedKeys) + Cardinality(TerminalFailedKeys)
    BY <1>1, <2>1, PartsCount
  <2>3. Cardinality(settled) + Cardinality(NonTerminalAfterRecovery) <= Cardinality(KeysRun)
    BY <1>1, <2>1, PartsCount
  <2>4. /\ Summary.completedLogical = Cardinality(CompletedKeys)
        /\ Summary.terminalFailedLogical = Cardinality(TerminalFailedKeys)
        /\ Summary.nonTerminalAfterRecovery = Cardinality(NonTerminalAfterRecovery)
    BY DEF Summary
  <2>5. QED BY <2>2, <2>3, <2>4
<1>5. Summary.violations <=
         Cardinality({i \in Attempts : results[i].answer = "NONE" \/ ~ results[i].inspected})
  <2> DEFINE alarms == {i \in Attempts : Violation(results[i]) # "none"}
  <2> DEFINE blind == {i \in Attempts : results[i].answer = "NONE" \/ ~ results[i].inspected}
  <2>1. alarms \in SUBSET blind
    BY SeenIsSound DEF MInv
  <2>2. IsFiniteSet(blind)
    BY <1>1, FS_Subset
  <2>3. Summary.violations = Cardinality(alarms)
    BY DEF Summary
  <2> HIDE DEF alarms
  <2>4. QED BY <2>1, <2>2, <2>3, FS_Subset
<1>6. QED BY <1>3, <1>4, <1>5

(* What the summary counts is backed by the services and its columns fit   *)
(* together (write_summary, _logical_metrics), for every workload.         *)
THEOREM OutcomesSound == Spec => []OutcomesBacked
<1>1. MInv => OutcomesBacked
  <2> SUFFICES ASSUME MInv PROVE OutcomesBacked
    OBVIOUS
  <2>1. ASSUME NEW k \in KeysRun
        PROVE  /\ k \in CompletedKeys => order[k] # "NONE" /\ paid[k]
               /\ LogicalState(k) = "COMPENSATED" => order[k] = "CANCELLED"
    BY <2>1, LogicalStateBacked DEF CompletedKeys, Backed
  <2>2. QED BY <2>1, ColumnsFit DEF OutcomesBacked
<1>2. QED BY <1>1, VerdictHolds, PTL

-----------------------------------------------------------------------------
(* Types.  The phases go through the keys as by_key lists them.            *)

(* The members of a finite set of numbers, each numbered by how many are   *)
(* no greater, take every number up to the size of the set.                *)
LEMMA Ranking ==
    ASSUME NEW S \in SUBSET Nat, IsFiniteSet(S), NEW n \in 1 .. Cardinality(S)
    PROVE  \E i \in S : Cardinality({j \in S : j <= i}) = n
<1> DEFINE m == Cardinality(S)
<1> DEFINE upTo(i) == {j \in S : j <= i}
<1> DEFINE rank == [i \in S |-> Cardinality(upTo(i))]
<1>1. m \in Nat
  BY FS_CardinalityType
<1>2. ASSUME NEW i \in S PROVE IsFiniteSet(upTo(i)) /\ rank[i] \in 1 .. m
  <2>1. upTo(i) \in SUBSET S /\ i \in upTo(i)
    OBVIOUS
  <2> HIDE DEF upTo
  <2>2. IsFiniteSet(upTo(i)) /\ Cardinality(upTo(i)) <= m
    BY <2>1, FS_Subset
  <2>3. Cardinality(upTo(i)) \in Nat /\ Cardinality(upTo(i)) # 0
    BY <2>1, <2>2, FS_CardinalityType, FS_EmptySet
  <2>4. QED BY <1>1, <2>2, <2>3
<1>3. ASSUME NEW i \in S, NEW j \in S, i < j PROVE rank[i] # rank[j]
  <2>1. upTo(i) \in SUBSET upTo(j) /\ j \in upTo(j) /\ j \notin upTo(i)
    <3> HIDE DEF rank, m
    <3>1. i \in Nat /\ j \in Nat /\ \A l \in S : l \in Nat
      OBVIOUS
    <3>2. \A l \in S : l <= i => l <= j
      BY <1>3, <3>1
    <3>3. upTo(i) \in SUBSET upTo(j)
      BY <3>2
    <3>4. ~ j <= i /\ j <= j
      BY <1>3, <3>1
    <3>5. QED BY <3>3, <3>4
  <2> HIDE DEF upTo
  <2>2. Cardinality(upTo(j)) # Cardinality(upTo(i))
    BY <1>2, <2>1, FS_Subset
  <2>3. QED BY <2>2
<1>4. rank \in [S -> 1 .. m]
  BY <1>2
<1> HIDE DEF rank, m
<1>5. rank \in Injection(S, 1 .. m)
  <2>1. \A i, j \in S : i = j \/ i < j \/ j < i
    OBVIOUS
  <2>2. QED BY <1>3, <1>4, <2>1 DEF Injection, IsInjective
<1>6. IsFiniteSet(1 .. m) /\ Cardinality(1 .. m) = m
  BY <1>1, FS_Interval
<1>7. rank \in Surjection(S, 1 .. m)
  BY <1>5, <1>6, FS_Injection DEF m
<1>8. PICK i \in S : rank[i] = n
  BY <1>7 DEF Surjection, m
<1>9. QED BY <1>8 DEF rank

(* by_key is a list of keys of the run.                                    *)
LEMMA InOrderTyping ==
    ASSUME run \in Runs
    PROVE  KeysInOrder \in Seq(KeysRun)
<1> DEFINE firsts == {i \in Attempts : FirstOf(i)}
<1> DEFINE at(n) == CHOOSE i \in firsts : Cardinality({j \in firsts : j <= i}) = n
<1>1. IsFiniteSet(firsts) /\ firsts \in SUBSET Nat
  <2>1. run.workload \in Seq(Keys)
    BY RunAssumption DEF Run
  <2>2. Attempts \subseteq Nat
    BY <2>1 DEF Attempts
  <2>3. QED BY <2>2, Finiteness, FS_Subset
<1>2. Cardinality(firsts) \in Nat
  BY <1>1, FS_CardinalityType
<1>3. firsts \subseteq Attempts
  OBVIOUS
<1>4. KeysInOrder = [n \in 1 .. Cardinality(firsts) |-> KeyOf(at(n))]
  BY DEF KeysInOrder
<1> HIDE DEF firsts
<1>5. ASSUME NEW n \in 1 .. Cardinality(firsts) PROVE KeyOf(at(n)) \in KeysRun
  <2>1. \E i \in firsts : Cardinality({j \in firsts : j <= i}) = n
    BY <1>1, Ranking
  <2>2. at(n) \in firsts
    BY <2>1
  <2>3. QED BY <1>3, <2>2 DEF KeysRun
<1> HIDE DEF at
<1>6. QED BY <1>2, <1>4, <1>5

(* What no thread of the pool writes.  A key that is polled has a record,  *)
(* so that the answer of a recovery is a state.                            *)
MainTyping ==
    /\ phase \in {"pool", "reconcile", "events", "summary", "done"}
    /\ todo \in Seq(KeysRun)
    /\ polling \in Poll \cup {NotPolling}
    /\ polling # NotPolling => record[Head(todo)] # "NONE"
    /\ expired \in BOOLEAN
    /\ logical \in [Keys -> Verdict \cup {Unsettled}]
    /\ uncollected \subseteq Keys

TInv == MInv /\ MainTyping

LEMMA SeqTyping ==
    ASSUME NEW S, NEW T, S \subseteq T, NEW s \in Seq(S)
    PROVE  s \in Seq(T)
OBVIOUS

LEMMA TypedState == TInv => TypeOK
<1> SUFFICES ASSUME TInv PROVE TypeOK
  OBVIOUS
<1>1. Typing /\ MainTyping
  BY DEF TInv, MInv, RInv
<1>2. todo \in Seq(Keys)
  BY <1>1, KeysRunTyping, SeqTyping DEF Typing, MainTyping
<1>3. QED BY <1>1, <1>2 DEF Typing, MainTyping, TypeOK

(* Every answer is one of the states that can be preferred.                *)
LEMMA BestTyping ==
    ASSUME RInv, NEW k \in KeysRun
    PROVE  BestObserved(k) \in States
<1> DEFINE seen == {Status(results[i]) : i \in AttemptsOf(k)}
<1> DEFINE best == CHOOSE n \in DOMAIN Preference :
                      /\ Preference[n] \in seen
                      /\ \A m \in DOMAIN Preference : Preference[m] \in seen => n <= m
<1>1. DOMAIN Preference = 1 .. 9
  BY DEF Preference
<1>2. seen \subseteq States /\ seen # {}
  BY DEF RInv, Typing, Status, Result, AttemptsOf, States, ClosedStates, KeysRun
<1>3. \A s \in States : \E n \in 1 .. 9 : Preference[n] = s
  BY RunAssumption DEF States, ClosedStates, Preference
<1> HIDE DEF seen
<1>4. \E n \in 1 .. 9 : Preference[n] \in seen
  BY <1>2, <1>3
<1>5. \E n \in 1 .. 9 : /\ Preference[n] \in seen
                         /\ \A m \in 1 .. 9 : Preference[m] \in seen => n <= m
  BY <1>4
<1>6. Preference[best] \in seen
  BY <1>1, <1>5
<1>7. BestObserved(k) = Preference[best]
  BY DEF BestObserved, seen
<1>8. QED BY <1>2, <1>6, <1>7

LEMMA SettleTyping ==
    ASSUME TInv, NEW final \in States, NEW attempted \in BOOLEAN, NEW gaveUp \in BOOLEAN,
           todo # <<>>, Settle(final, attempted, gaveUp)
    PROVE  MainTyping'
<1> DEFINE v == [final |-> final, attempted |-> attempted,
                 completed |-> attempted /\ Terminal(final), failed |-> gaveUp]
<1>1. v \in Verdict
  BY DEF Verdict, Terminal
<1>2. /\ UNCHANGED <<phase, expired, uncollected, run>>
      /\ logical' = [logical EXCEPT ![Head(todo)] = v]
      /\ todo' = Tail(todo) /\ polling' = NotPolling
  BY DEF Settle
<1> HIDE DEF v
<1>3. KeysRun' = KeysRun
  BY <1>2 DEF KeysRun, Attempts, KeyOf
<1>4. logical' \in [Keys -> Verdict \cup {Unsettled}]
  BY <1>1, <1>2 DEF TInv, MainTyping
<1>5. Tail(todo) \in Seq(KeysRun)
  BY DEF TInv, MainTyping
<1>6. QED BY <1>2, <1>3, <1>4, <1>5 DEF TInv, MainTyping, Poll, States, NotPolling, Verdict, Unsettled

LEMMA GoToTyping ==
    ASSUME TInv, NEW p \in {"reconcile", "events", "summary", "done"}, GoTo(p),
           UNCHANGED <<record, run, polling, expired, logical, uncollected>>,
           polling = NotPolling
    PROVE  MainTyping'
<1>1. KeysRun' = KeysRun
  BY DEF KeysRun, Attempts, KeyOf
<1>2. KeysInOrder \in Seq(KeysRun)
  BY InOrderTyping DEF TInv, MInv, RInv, Typing
<1>3. <<>> \in Seq(KeysRun)
  OBVIOUS
<1>4. phase' = p /\ todo' \in Seq(KeysRun)
  BY <1>2, <1>3 DEF GoTo
<1>5. QED BY <1>1, <1>4 DEF TInv, MainTyping, Poll, States, NotPolling, Verdict, Unsettled

(* A poll under way goes on with a state of the record or the one it had.  *)
LEMMA PollTyping ==
    ASSUME TInv, NEW p \in Poll, polling' = p, record[Head(todo)] # "NONE",
           UNCHANGED <<record, run, phase, todo, expired, logical, uncollected>>
    PROVE  MainTyping'
<1>1. KeysRun' = KeysRun
  BY DEF KeysRun, Attempts, KeyOf
<1>2. QED
  BY <1>1 DEF TInv, MainTyping, Poll, States, NotPolling, Verdict, Unsettled

LEMMA MainTypingStep ==
    ASSUME TInv, Main
    PROVE  MainTyping'
<1>1. UNCHANGED <<record, run>>
  BY MainStep
<1>2. \A k : RecoveredOf(k) \in BOOLEAN
  BY DEF RecoveredOf
<1>3. ASSUME todo # <<>>
      PROVE  /\ Head(todo) \in KeysRun /\ Head(todo) \in Keys
             /\ record[Head(todo)] \in States \cup {"NONE"}
  <2>1. Head(todo) \in KeysRun
    BY <1>3 DEF TInv, MainTyping
  <2>2. QED BY <2>1, KeysRunTyping DEF TInv, MInv, RInv, Typing
<1>4. polling # NotPolling =>
         /\ polling \in Poll /\ Reconciling /\ record[Head(todo)] # "NONE"
  BY DEF TInv, MInv, PollSound, MainTyping
<1>5. CASE PoolEnds \/ Reconciled \/ EventsCollected \/ WriteSummary
  <2>1. polling = NotPolling
    BY <1>4, <1>5 DEF Reconciling, PoolEnds, Reconciled, EventsCollected, WriteSummary
  <2>2. \E p \in {"reconcile", "events", "summary", "done"} : GoTo(p)
    BY <1>5 DEF PoolEnds, Reconciled, EventsCollected, WriteSummary
  <2>3. UNCHANGED <<polling, expired, logical, uncollected>>
    BY <1>5 DEF PoolEnds, Reconciled, EventsCollected, WriteSummary
  <2>4. QED BY <1>1, <2>1, <2>2, <2>3, GoToTyping
<1>6. CASE CollectEvents
  <2>1. /\ todo # <<>> /\ todo' = Tail(todo) /\ phase = "events"
        /\ UNCHANGED <<phase, polling, expired, logical>>
        /\ uncollected' \subseteq uncollected \cup {Head(todo)}
    BY <1>6 DEF CollectEvents
  <2>2. polling = NotPolling
    BY <1>4, <2>1 DEF Reconciling
  <2>3. KeysRun' = KeysRun /\ Tail(todo) \in Seq(KeysRun)
    BY <1>1, <2>1 DEF KeysRun, Attempts, KeyOf, TInv, MainTyping
  <2>4. uncollected' \subseteq Keys
    BY <1>3, <2>1 DEF TInv, MainTyping
  <2>5. QED
    BY <2>1, <2>2, <2>3, <2>4
       DEF TInv, MainTyping, Poll, States, NotPolling, Verdict, Unsettled
<1>7. CASE Find
  <2> DEFINE p == [final |-> record[Head(todo)], attempted |-> RecoveredOf(Head(todo)),
                   asked |-> FALSE]
  <2>1. /\ todo # <<>> /\ record[Head(todo)] # "NONE" /\ polling' = p
        /\ UNCHANGED <<phase, todo, expired, logical, uncollected>>
    BY <1>7 DEF Find, Reconciling
  <2>2. p \in Poll
    BY <1>2, <1>3, <2>1 DEF Poll
  <2>3. QED BY <1>1, <2>1, <2>2, PollTyping
<1>8. CASE FindNothing
  <2>1. todo # <<>> /\ Settle(BestObserved(Head(todo)), RecoveredOf(Head(todo)), FALSE)
    BY <1>8 DEF FindNothing, Reconciling
  <2>2. BestObserved(Head(todo)) \in States
    BY <1>3, <2>1, BestTyping DEF TInv, MInv
  <2>3. QED BY <1>2, <2>1, <2>2, SettleTyping
<1>9. CASE Recover
  <2> DEFINE p == [polling EXCEPT !.attempted = TRUE, !.asked = TRUE]
  <2>1. /\ polling # NotPolling /\ polling' = p
        /\ UNCHANGED <<phase, todo, expired, logical, uncollected>>
    BY <1>9 DEF Recover, Looping
  <2>2. p \in Poll
    BY <1>4, <2>1 DEF Poll
  <2>3. QED BY <1>1, <1>4, <2>1, <2>2, PollTyping
<1>10. CASE RecoverAnswered
  <2> DEFINE p == [polling EXCEPT !.final = record[Head(todo)], !.asked = FALSE]
  <2>1. /\ polling.asked /\ todo # <<>> /\ polling' = p
        /\ UNCHANGED <<phase, todo, expired, logical, uncollected>>
    BY <1>10 DEF RecoverAnswered, Reconciling
  <2>2. polling # NotPolling
    BY <2>1 DEF NotPolling
  <2>3. p \in Poll
    BY <1>3, <1>4, <2>1, <2>2 DEF Poll
  <2>4. QED BY <1>1, <1>4, <2>1, <2>2, <2>3, PollTyping
<1>11. CASE RecoverFails
  <2>1. todo # <<>> /\ polling.asked /\ Settle(polling.final, TRUE, TRUE)
    BY <1>11 DEF RecoverFails, Reconciling
  <2>2. polling # NotPolling
    BY <2>1 DEF NotPolling
  <2>3. polling.final \in States
    BY <1>4, <2>2 DEF Poll
  <2>4. QED BY <2>1, <2>3, SettleTyping
<1>12. CASE LoopEnds
  <2>1. /\ polling # NotPolling /\ todo # <<>>
        /\ Settle(polling.final, polling.attempted,
                  polling.attempted /\ ~ Terminal(polling.final))
    BY <1>12 DEF LoopEnds, Looping, Reconciling
  <2>2. polling.final \in States /\ polling.attempted \in BOOLEAN
    BY <1>4, <2>1 DEF Poll
  <2>3. QED BY <2>1, <2>2, SettleTyping
<1>13. QED
  BY <1>5, <1>6, <1>7, <1>8, <1>9, <1>10, <1>11, <1>12 DEF Main

(* A record is never taken away.                                           *)
LEMMA RecordStays ==
    ASSUME Typing, NEW k \in Keys, LedgerStep(k), NEW l \in Keys, record[l] # "NONE"
    PROVE  record'[l] # "NONE"
<1>1. CASE Open(k)
  BY <1>1 DEF Open, Typing
<1>2. CASE Rewrite(k)
  <2>1. PICK s \in States : record' = [record EXCEPT ![k] = s]
    BY <1>2 DEF Rewrite, States
  <2>2. s # "NONE"
    BY RunAssumption DEF States, ClosedStates
  <2>3. QED BY <2>1, <2>2 DEF Typing
<1>3. CASE Place(k) \/ Cancel(k) \/ Pay(k)
  BY <1>3 DEF Place, Cancel, Pay
<1>4. QED BY <1>1, <1>2, <1>3 DEF LedgerStep

LEMMA OthersTyping ==
    ASSUME TInv, UNCHANGED <<run, phase, todo, polling, logical, uncollected>>,
           expired' \in BOOLEAN,
           polling # NotPolling => record'[Head(todo)] # "NONE"
    PROVE  MainTyping'
<1>1. KeysRun' = KeysRun
  BY DEF KeysRun, Attempts, KeyOf
<1>2. QED BY <1>1 DEF TInv, MainTyping, Poll, States, NotPolling, Verdict, Unsettled

LEMMA TInitEstablishes == Init => TInv
<1> SUFFICES ASSUME Init PROVE TInv
  OBVIOUS
<1>1. <<>> \in Seq(KeysRun)
  OBVIOUS
<1>2. MainTyping
  BY <1>1 DEF Init, MainTyping
<1>3. QED BY <1>2, MInitEstablishes DEF TInv

LEMMA TNextKeeps == TInv /\ [Next]_vars => TInv'
<1> SUFFICES ASSUME TInv, [Next]_vars PROVE MainTyping'
  BY MNextKeeps DEF TInv
<1>1. polling # NotPolling => Head(todo) \in Keys /\ record[Head(todo)] # "NONE"
  <2>1. polling # NotPolling => Head(todo) \in KeysRun
    BY DEF TInv, MInv, PollSound, Reconciling, MainTyping
  <2>2. QED BY <2>1, KeysRunTyping DEF TInv, MInv, RInv, Typing, MainTyping
<1>2. expired \in BOOLEAN
  BY DEF TInv, MainTyping
<1>3. CASE Orchestrator
  <2>1. PICK k \in Keys : LedgerStep(k)
    BY <1>3, KeyTyping DEF TInv, MInv, RInv, Typing, Orchestrator
  <2>2. UNCHANGED runner
    BY <1>3 DEF Orchestrator
  <2>3. polling # NotPolling => record'[Head(todo)] # "NONE"
    BY <1>1, <2>1, RecordStays DEF TInv, MInv, RInv
  <2>4. QED BY <1>2, <2>2, <2>3, OthersTyping DEF runner
<1>4. CASE Pool
  <2>1. \E i \in Attempts : \E r : Update(i, r)
    BY <1>4 DEF Pool, Thread, Send, Answered, Unanswered, Interrupted, InspectOrders,
                InspectPayments, InspectionLost
  <2>2. UNCHANGED <<record, run, phase, todo, polling, expired, logical, uncollected>>
    BY <2>1 DEF Update, ledger
  <2>3. QED BY <1>1, <1>2, <2>2, OthersTyping
<1>5. CASE Main
  BY <1>5, MainTypingStep
<1>6. CASE DeadlinePasses
  BY <1>1, <1>6, OthersTyping DEF DeadlinePasses, ledger
<1>7. CASE UNCHANGED vars
  BY <1>1, <1>2, <1>7, OthersTyping DEF vars, ledger, runner
<1>8. QED BY <1>3, <1>4, <1>5, <1>6, <1>7 DEF Next

(* Types are preserved for every workload: in particular the recovery of a *)
(* key under reconciliation always answers a state, because a record once  *)
(* found is never taken away, and by_key lists keys of the workload only.  *)
THEOREM RunTyped == Spec => []TypeOK
BY TInitEstablishes, TNextKeeps, TypedState, PTL DEF Spec
=============================================================================
