-------------------------- MODULE SequentialProofs --------------------------
(***************************************************************************)
(* Machine-checked proofs of what TransactionProperties promises when      *)
(* requests do not overlap, for any number of keys, transactions and       *)
(* threads: a recovery that answers has settled its record, terminal       *)
(* states agree with the services and are final, and what can be seen of a *)
(* purchase is a behaviour of PurchaseSaga.                                *)
(***************************************************************************)
EXTENDS TransactionProofs, SagaRefinement, FiniteSetTheorems

(* One request at a time, no call lost but by injection, at most one       *)
(* crash, enough attempts to outlast the injected unavailability (the      *)
(* payment service answers the third attempt), every mechanism switched    *)
(* on.  Without any of these, TLC refutes what is proved from them here.   *)
SequentialRuns ==
    /\ MaxActive = 1
    /\ Faults = {}
    /\ MaxCrashes <= 1
    /\ MaxAttempts >= 3
    /\ Configurations \subseteq {"HISTORICAL", "C8"}

-----------------------------------------------------------------------------
(* One thread at a time.                                                   *)

LINV == IInv /\ AloneInv

(* Nobody is there when a thread starts                                    *)
LEMMA StartsAlone ==
    ASSUME MaxActive = 1, Sole, NEW w \in Threads, MayStart(w)
    PROVE  pc[w] = "idle" /\ \A v \in Threads : pc[v] \notin Waiting
<1>1. pc[w] = "idle" /\ Cardinality(Active) < 1
  BY DEF MayStart
<1>2. ASSUME NEW v \in Threads, pc[v] \in Waiting PROVE FALSE
  <2>1. Active = {v}
    BY <1>2 DEF Sole, Active
  <2>2. QED BY <1>1, <2>1, FS_Singleton
<1>3. QED BY <1>1, <1>2

(* What a step of thread w leaves to the others                            *)
Leaves(w) ==
    /\ OthersKept(w)
    /\ \A v \in Threads \ {w} : prev'[v] = prev[v] /\ rounds'[v] = rounds[v]

LEMMA AloneStep ==
    ASSUME LINV, NEW w \in Threads, Leaves(w), Current(w)', LoopsOnce(w)',
           pc[w] \in Waiting \/ \A v \in Threads : pc[v] \notin Waiting,
           w \in Recoveries /\ pc'[w] = "done" => rec'[w].state \in Terminals \cup {"COMPENSATING"}
    PROVE  AloneInv'
<1>1. \A v \in Threads \ {w} : /\ pc'[v] = pc[v] /\ pc[v] \notin Waiting /\ rec'[v] = rec[v]
                               /\ queue'[v] = queue[v] /\ prev'[v] = prev[v]
                               /\ rounds'[v] = rounds[v]
  BY DEF LINV, AloneInv, Sole, Leaves, OthersKept
<1>2. Sole'
  BY <1>1 DEF Sole
<1>3. ASSUME NEW v \in Threads \ {w} PROVE Current(v)' /\ LoopsOnce(v)'
  <2>1. Current(v)'
    BY <1>1, <1>3 DEF Current, Waiting, Holding
  <2>2. LoopsOnce(v)'
    BY <1>1, <1>3 DEF LoopsOnce, Waiting, LINV, AloneInv
  <2>3. QED BY <2>1, <2>2
<1>4. RecoverySettles'
  BY <1>1 DEF LINV, AloneInv, RecoverySettles, Threads
<1>5. QED BY <1>2, <1>3, <1>4 DEF AloneInv

LEMMA StageFacts ==
    /\ \A s \in States : StageOf(s) = 0 => s \in Terminals \cup {"COMPENSATING"}
    /\ \A s : StageOf(s) \in 0 .. 5
    /\ StageOf("ORDER_CREATED") = 3
BY DEF StageOf, States, Terminals

(* It enters continueResilient with a record that is current               *)
LEMMA EnterCurrent ==
    ASSUME IInv, NEW w \in Threads, NEW r \in Row, NEW from \in 1 .. 5, Enter(w, r, from),
           db[r.key] = r, UNCHANGED db, \A q \in queue'[w] : db[q.key] = q /\ q.key # r.key
    PROVE  /\ Current(w)' /\ rec'[w] = r
           /\ pc'[w] \in {"done", "returned", "lookup", "call", "save"}
           /\ StageOf(r.state) >= from => pc'[w] \in {"lookup", "call", "save"}
<1>1. /\ rec'[w] = r
      /\ pc'[w] \in {"done", "returned", "lookup", "call", "save"}
      /\ pc'[w] = "save" => to'[w] \in {"PAYMENT_PENDING", "COMPLETED"}
  BY EnterFacts DEF IInv, TypeOK
<1>2. ASSUME StageOf(r.state) >= from PROVE pc'[w] \in {"lookup", "call", "save"}
  <2>1. ~ StageOf(r.state) < from
    BY <1>2, StageFacts
  <2>2. QED BY <1>2, <2>1 DEF Enter, Attempt, IInv, TypeOK
<1>3. Current(w)'
  BY <1>1 DEF Current
<1>4. QED BY <1>1, <1>2, <1>3

(* ... from inside of it, or from its loop                                 *)
LEMMA EnterAlone ==
    ASSUME LINV, NEW w \in Threads, NEW r \in Row, NEW from \in 1 .. 5, Enter(w, r, from),
           db[r.key] = r, UNCHANGED <<db, comp>>,
           \A q \in queue'[w] : db[q.key] = q /\ q.key # r.key,
           w \notin Sweeps => queue'[w] = {},
           w \in Recoveries => StageOf(r.state) >= from,
           \A v \in Threads \ {w} :
               queue'[v] = queue[v] /\ prev'[v] = prev[v] /\ rounds'[v] = rounds[v],
           pc[w] \in Waiting \/ \A v \in Threads : pc[v] \notin Waiting
    PROVE  AloneInv'
<1>1. /\ rec' = [rec EXCEPT ![w] = r]
      /\ \A v \in Threads \ {w} : pc'[v] = pc[v] /\ to'[v] = to[v]
  BY EnterFacts DEF LINV, IInv
<1>2. Leaves(w)
  BY <1>1 DEF Leaves, OthersKept, LINV, IInv, TypeOK
<1>3. /\ Current(w)'
      /\ pc'[w] \in {"done", "returned", "lookup", "call", "save"}
      /\ StageOf(r.state) >= from => pc'[w] \in {"lookup", "call", "save"}
  BY EnterCurrent DEF LINV
<1>4. LoopsOnce(w)'
  BY <1>3 DEF LoopsOnce
<1>5. QED BY <1>2, <1>3, <1>4, AloneStep

(* It moves on inside of continueResilient                                 *)
LEMMA MoveAlone ==
    ASSUME LINV, NEW w \in Threads, pc[w] \in Holding, pc'[w] \in Holding \cup {"error"},
           UNCHANGED <<db, rec, comp, loop>>,
           \A v \in Threads \ {w} : pc'[v] = pc[v] /\ to'[v] = to[v],
           Current(w)'
    PROVE  AloneInv'
<1>1. Leaves(w) /\ pc[w] \in Waiting
  BY DEF Leaves, OthersKept, loop, Holding, Waiting
<1>2. LoopsOnce(w)'
  BY <1>1 DEF LoopsOnce, Holding, Waiting, LINV, AloneInv, loop
<1>3. QED BY <1>1, <1>2, AloneStep DEF Holding

-----------------------------------------------------------------------------

LEMMA ExecuteAlone ==
    ASSUME MaxActive = 1, LINV, NEW w \in Threads, Execute(w)
    PROVE  AloneInv'
<1>1. PICK k \in Keys, t \in Txs :
          \/ /\ db[k] # NoRow
             /\ Enter(w, db[k], 1)
          \/ /\ db[k] = NoRow
             /\ rec' = [rec EXCEPT ![w] = Unsaved(k, t)]
             /\ pc' = [pc EXCEPT ![w] = "insert"]
             /\ UNCHANGED <<to, tries>>
  BY DEF Execute
<1>2. pc[w] = "idle" /\ \A v \in Threads : pc[v] \notin Waiting
  BY StartsAlone DEF Execute, LINV, AloneInv
<1>3. /\ w \notin Recoveries /\ queue'[w] = {} /\ UNCHANGED <<db, comp, loop>>
      /\ \A v \in Threads \ {w} :
             queue'[v] = queue[v] /\ prev'[v] = prev[v] /\ rounds'[v] = rounds[v]
  BY <1>2, OrchestratorAssumption DEF Execute, LINV, AloneInv, LoopsOnce, loop
<1>4. CASE db[k] # NoRow
  <2>1. db[k] \in Row /\ db[k].key = k
    BY <1>4, ReadPins DEF LINV
  <2>2. db[db[k].key] = db[k]
    BY <2>1
  <2>3. Enter(w, db[k], 1)
    BY <1>1, <1>4
  <2>4. QED BY <1>2, <1>3, <2>1, <2>2, <2>3, EnterAlone
<1>5. CASE db[k] = NoRow
  <2>1. /\ rec' = [rec EXCEPT ![w] = Unsaved(k, t)] /\ rec'[w] = Unsaved(k, t)
        /\ pc' = [pc EXCEPT ![w] = "insert"] /\ pc'[w] = "insert"
        /\ UNCHANGED to
    BY <1>1, <1>5 DEF LINV, IInv, TypeOK
  <2>2. Leaves(w)
    BY <1>3, <2>1 DEF Leaves, OthersKept
  <2>3. Current(w)' /\ LoopsOnce(w)'
    BY <1>3, <1>5, <2>1 DEF Execute, Current, LoopsOnce, Unsaved, Holding, Waiting
  <2>4. QED BY <1>2, <2>1, <2>2, <2>3, AloneStep
<1>6. QED BY <1>4, <1>5

LEMMA InsertAlone ==
    ASSUME LINV, NEW w \in Threads, Insert(w)
    PROVE  AloneInv'
<1> DEFINE k == rec[w].key
           r == [rec[w] EXCEPT !.state = "STARTED"]
<1>1. /\ pc[w] = "insert" /\ pc[w] \in Waiting /\ k \in Keys /\ rec[w] \in Row \cup Blank
      /\ db[k] = NoRow /\ queue[w] \subseteq Row /\ \A q \in queue[w] : db[q.key] = q
  BY DEF Insert, LINV, IInv, TypeOK, IdentityInv, LocalsPinned, AloneInv, Current, Waiting
<1>2. /\ Leaves(w) /\ UNCHANGED <<rec, comp, to, loop>>
      /\ pc'[w] = "created"
  BY DEF Insert, Leaves, OthersKept, loop, LINV, IInv, TypeOK
<1>3. /\ db'[k].state \in {"NONE", "STARTED"}
      /\ \A j \in Keys \ {k} : db'[j] = db[j]
  <2>1. CASE UNCHANGED db
    BY <1>1, <2>1, NoRowFacts
  <2>2. CASE db' = [db EXCEPT ![k] = r]
    BY <1>1, <2>2 DEF LINV, IInv, TypeOK, Row, Blank, NoRow, Unsaved
  <2>3. QED BY <2>1, <2>2 DEF Insert
<1>4. \A q \in queue[w] : db'[q.key] = q
  BY <1>1, <1>3, NoRowFacts
<1>5. Current(w)' /\ LoopsOnce(w)'
  BY <1>1, <1>2, <1>3, <1>4 DEF Current, LoopsOnce, Holding, Waiting, loop, LINV, AloneInv
<1>6. QED BY <1>1, <1>2, <1>5, AloneStep

LEMMA ReadCreatedAlone ==
    ASSUME LINV, NEW w \in Threads, ReadCreated(w)
    PROVE  AloneInv'
<1>1. /\ pc[w] = "created" /\ pc[w] \in Waiting /\ rec[w].key \in Keys
      /\ db[rec[w].key].state \in {"NONE", "STARTED"}
      /\ w \notin Sweeps => queue[w] = {}
  BY DEF ReadCreated, LINV, IInv, IdentityInv, LocalsPinned, AloneInv, Current, LoopsOnce, Waiting
<1>2. UNCHANGED <<db, comp, loop>> /\ \A q \in queue[w] : db[q.key] = q
  BY <1>1 DEF ReadCreated, LINV, AloneInv, Current
<1>3. w \in Executions /\ w \notin Sweeps /\ w \notin Recoveries /\ queue[w] = {}
  BY <1>1, OrchestratorAssumption DEF LINV, AloneInv, LoopsOnce
<1>4. CASE db[rec[w].key] # NoRow
  <2>1. PICK r : r = db[rec[w].key]
    OBVIOUS
  <2>2. r \in Row /\ r.key = rec[w].key
    BY <1>1, <1>4, <2>1, ReadPins DEF LINV
  <2>3. db[r.key] = r
    BY <2>1, <2>2
  <2>4. Enter(w, r, 1)
    BY <1>4, <2>1 DEF ReadCreated
  <2>5. QED BY <1>1, <1>2, <1>3, <2>2, <2>3, <2>4, EnterAlone DEF loop
<1>5. CASE db[rec[w].key] = NoRow
  <2>1. Leaves(w) /\ pc'[w] = "error"
    BY <1>5 DEF ReadCreated, Leaves, OthersKept, loop, LINV, IInv, TypeOK
  <2>2. QED
    BY <1>1, <1>2, <2>1, AloneStep DEF Current, LoopsOnce, Waiting, Holding
<1>6. QED BY <1>4, <1>5

LEMMA RecoverOneAlone ==
    ASSUME MaxActive = 1, LINV, NEW w \in Threads, RecoverOne(w)
    PROVE  AloneInv'
<1>1. PICK k \in Keys :
          \/ /\ pc' = [pc EXCEPT ![w] = "error"]
             /\ UNCHANGED rec
          \/ /\ db[k] # NoRow
             /\ rec' = [rec EXCEPT ![w] = db[k]]
             /\ pc' = [pc EXCEPT ![w] = "returned"]
  BY DEF RecoverOne
<1>2. pc[w] = "idle" /\ \A v \in Threads : pc[v] \notin Waiting
  BY StartsAlone DEF RecoverOne, LINV, AloneInv
<1>3. /\ queue[w] = {} /\ prev[w] = "NONE" /\ rounds[w] = 0
      /\ UNCHANGED <<db, comp, to, loop>>
  BY <1>2 DEF RecoverOne, LINV, AloneInv, LoopsOnce
<1>4. CASE pc' = [pc EXCEPT ![w] = "error"] /\ UNCHANGED rec
  <2>1. Leaves(w) /\ pc'[w] = "error"
    BY <1>3, <1>4 DEF Leaves, OthersKept, loop, LINV, IInv, TypeOK
  <2>2. QED
    BY <1>2, <2>1, AloneStep DEF Current, LoopsOnce, Waiting, Holding
<1>5. CASE /\ db[k] # NoRow
           /\ rec' = [rec EXCEPT ![w] = db[k]]
           /\ pc' = [pc EXCEPT ![w] = "returned"]
  <2>1. db[k].key = k
    BY <1>5, ReadPins DEF LINV
  <2>2. Leaves(w) /\ pc'[w] = "returned" /\ rec'[w] = db[k]
    BY <1>3, <1>5 DEF Leaves, OthersKept, loop, LINV, IInv, TypeOK
  <2>3. Current(w)' /\ LoopsOnce(w)'
    BY <1>3, <2>1, <2>2 DEF Current, LoopsOnce, Holding, Waiting, loop
  <2>4. QED BY <1>2, <2>2, <2>3, AloneStep
<1>6. QED BY <1>1, <1>4, <1>5

LEMMA LoopAlone ==
    ASSUME LINV, NEW w \in Threads, Loop(w)
    PROVE  AloneInv'
<1>1. /\ pc[w] = "returned" /\ pc[w] \in Waiting /\ w \in Recoveries /\ w \notin Sweeps
      /\ db[rec[w].key] = rec[w] /\ queue[w] = {} /\ UNCHANGED <<db, comp, queue>>
  BY OrchestratorAssumption DEF Loop, LINV, AloneInv, Current, LoopsOnce, Waiting
<1>2. rec[w] \in Row /\ rec[w].state \in States
  BY LocalRow, NoRowFacts DEF Loop, LINV, IInv, IdentityInv, LocalsPinned
<1>3. CASE ContinuesLoop(w)
  <2>1. StageOf(rec[w].state) >= 1
    BY <1>3, StageFacts DEF ContinuesLoop
  <2>2. Enter(w, rec[w], 1) /\ \A v \in Threads \ {w} : prev'[v] = prev[v] /\ rounds'[v] = rounds[v]
    BY <1>3 DEF Loop, LINV, IInv, TypeOK
  <2>3. QED BY <1>1, <1>2, <2>1, <2>2, EnterAlone
<1>4. CASE ~ ContinuesLoop(w)
  <2>1. rec[w].state \in Terminals \cup {"COMPENSATING"}
    <3>1. CASE prev[w] = "NONE" /\ rounds[w] = 0
      <4>1. rec[w].state # prev[w] /\ rounds[w] < MaxAttempts
        BY <1>2, <3>1, NoRowFacts, OrchestratorAssumption
      <4>2. StageOf(rec[w].state) = 0
        BY <1>4, <4>1, StageFacts DEF ContinuesLoop
      <4>3. QED BY <1>2, <4>2, StageFacts
    <3>2. QED BY <1>1, <3>1 DEF LINV, AloneInv, LoopsOnce
  <2>2. Leaves(w) /\ pc'[w] = "done" /\ rec'[w] = rec[w]
    BY <1>1, <1>4 DEF Loop, Leaves, OthersKept, LINV, IInv, TypeOK
  <2>3. QED
    BY <1>1, <2>1, <2>2, AloneStep DEF Current, LoopsOnce, Waiting, Holding
<1>5. QED BY <1>3, <1>4

LEMMA SweepAlone ==
    ASSUME MaxActive = 1, LINV, NEW w \in Threads, Sweep(w)
    PROVE  AloneInv'
<1>1. pc[w] = "idle" /\ \A v \in Threads : pc[v] \notin Waiting
  BY StartsAlone DEF Sweep, LINV, AloneInv
<1>2. /\ UNCHANGED <<db, rec, comp, to, prev, rounds>> /\ pc'[w] = "returned"
      /\ w \notin Recoveries /\ Leaves(w)
  BY OrchestratorAssumption DEF Sweep, Leaves, OthersKept, LINV, IInv, TypeOK
<1>3. \A q \in queue'[w] : db[q.key] = q
  BY ReadPins, NoRowFacts DEF Sweep, LINV, IInv, TypeOK
<1>4. Current(w)' /\ LoopsOnce(w)'
  BY <1>2, <1>3 DEF Sweep, Current, LoopsOnce, Holding, Waiting
<1>5. QED BY <1>1, <1>2, <1>4, AloneStep

LEMMA NextRecordAlone ==
    ASSUME LINV, NEW w \in Threads, NextRecord(w)
    PROVE  AloneInv'
<1>1. /\ pc[w] = "returned" /\ pc[w] \in Waiting /\ w \in Sweeps /\ w \notin Recoveries
      /\ \A q \in queue[w] : db[q.key] = q
      /\ UNCHANGED <<db, comp, prev, rounds>>
  BY OrchestratorAssumption DEF NextRecord, LINV, AloneInv, Current, Waiting
<1>2. CASE \E r \in queue[w] : queue' = [queue EXCEPT ![w] = @ \ {r}] /\ Enter(w, r, 1)
  <2>1. PICK r \in queue[w] : queue' = [queue EXCEPT ![w] = @ \ {r}] /\ Enter(w, r, 1)
    BY <1>2
  <2>2. r \in Row /\ db[r.key] = r
    BY <1>1 DEF LINV, IInv, TypeOK
  <2>3. \A q \in queue'[w] : db[q.key] = q /\ q.key # r.key
    BY <1>1, <2>1, <2>2 DEF LINV, IInv, TypeOK
  <2>4. \A v \in Threads \ {w} : queue'[v] = queue[v] /\ prev'[v] = prev[v] /\ rounds'[v] = rounds[v]
    BY <1>1, <2>1 DEF LINV, IInv, TypeOK
  <2>5. QED BY <1>1, <2>1, <2>2, <2>3, <2>4, EnterAlone
<1>3. CASE pc' = [pc EXCEPT ![w] = "done"] /\ UNCHANGED <<rec, to, tries, queue>>
  <2>1. Leaves(w) /\ pc'[w] = "done"
    BY <1>1, <1>3 DEF Leaves, OthersKept, LINV, IInv, TypeOK
  <2>2. QED
    BY <1>1, <2>1, AloneStep DEF Current, LoopsOnce, Waiting, Holding
<1>4. QED BY <1>2, <1>3 DEF NextRecord

(* The attempts of an operation and what follows from their outcome        *)
LEMMA AttemptAlone ==
    ASSUME LINV, NEW w \in Threads, pc[w] \in {"lookup", "call", "reconcile"},
           pc'[w] \in {"lookup", "call", "reconcile", "save"},
           pc'[w] = "save" => to'[w] # "COMPENSATED",
           UNCHANGED <<db, rec, comp, loop>>,
           \A v \in Threads \ {w} : pc'[v] = pc[v] /\ to'[v] = to[v]
    PROVE  AloneInv'
<1>1. Current(w)'
  BY DEF Current, LINV, AloneInv, Waiting, Holding, loop
<1>2. QED BY <1>1, MoveAlone DEF Holding

LEMMA FailureAlone ==
    ASSUME LINV, NEW w \in Threads, pc[w] \in {"lookup", "call", "reconcile"},
           UNCHANGED <<db, comp, loop>>,
           \/ \E reply : AttemptFails(w, reply)
           \/ GiveUp(w)
           \/ SaveAs(w, StateAfter(Operation(w)))
    PROVE  AloneInv'
<1>1. CASE \E reply : AttemptFails(w, reply)
  BY <1>1, AttemptFailsFacts, AttemptAlone DEF LINV, IInv
<1>2. CASE GiveUp(w) \/ SaveAs(w, StateAfter(Operation(w)))
  BY <1>2, StateAfterFacts, AttemptAlone DEF GiveUp, SaveAs, LINV, IInv, TypeOK
<1>3. QED BY <1>1, <1>2

LEMMA CallsAlone ==
    ASSUME LINV, NEW w \in Threads,
           \/ Lookup(w) \/ LookupLost(w) \/ Call(w) \/ CallLost(w)
           \/ Reconcile(w) \/ ReconcileLost(w)
    PROVE  AloneInv'
<1>1. CASE Lookup(w)
  <2>1. CASE pc' = [pc EXCEPT ![w] = "call"] /\ UNCHANGED <<rec, to, tries>>
    BY <1>1, <2>1, AttemptAlone DEF Lookup, LINV, IInv, TypeOK
  <2>2. QED BY <1>1, <2>1, FailureAlone DEF Lookup
<1>2. QED
  BY <1>1, FailureAlone DEF LookupLost, Call, CallLost, Reconcile, ReconcileLost

LEMMA SaveAlone ==
    ASSUME LINV, NEW w \in Threads, Save(w)
    PROVE  AloneInv'
<1> DEFINE r == Outgoing(w)
           k == rec[w].key
<1>1. /\ pc[w] = "save" /\ pc[w] \in Waiting /\ r \in Row /\ Pinned(r) /\ r.state = to[w]
      /\ rec[w] \in Row /\ k \in Keys
  BY OutgoingFacts, LocalRow, NoRowFacts
     DEF Save, LINV, IInv, IdentityInv, LocalsPinned, Holding, Waiting
<1>2. r.key = k /\ (to[w] = "COMPENSATING" => r = Compensated(w))
  BY <1>1 DEF Outgoing, Compensated, Current, LINV, AloneInv, Row
<1>3. /\ db'[k] = r /\ \A j \in Keys \ {k} : db'[j] = db[j]
  <2>1. db' = [j \in Keys |-> IF db[j].tx = r.tx THEN [r EXCEPT !.key = j] ELSE db[j]]
    BY DEF Save
  <2>2. \A j \in Keys : db[j].tx = r.tx <=> j = k
    BY <1>1, <1>2 DEF Pinned, LINV, IInv, IdentityInv
  <2>3. [r EXCEPT !.key = k] = r
    BY <1>1, <1>2 DEF Row
  <2>4. QED BY <1>1, <2>1, <2>2, <2>3
<1>4. /\ Leaves(w) /\ UNCHANGED <<rec, comp, to, loop>> /\ pc'[w] = "reread"
  BY DEF Save, Leaves, OthersKept, loop, LINV, IInv, TypeOK
<1>5. \A q \in queue[w] : q.key # k /\ db'[q.key] = q
  <2>1. \A q \in queue[w] : q.key # k /\ db[q.key] = q /\ q.key \in Keys
    BY <1>1, NoRowFacts DEF LINV, IInv, TypeOK, AloneInv, Current, Holding
  <2>2. QED BY <1>3, <2>1
<1>6. Current(w)' /\ LoopsOnce(w)'
  BY <1>1, <1>2, <1>3, <1>4, <1>5
     DEF Current, LoopsOnce, Compensated, Holding, Waiting, loop, LINV, AloneInv
<1>7. QED BY <1>1, <1>4, <1>6, AloneStep

LEMMA AfterOrderAlone ==
    ASSUME LINV, NEW w \in Threads, NEW r \in Row, AfterOrder(w, r), db[r.key] = r,
           r.state = "ORDER_CREATED", r.key = rec[w].key, pc[w] \in {"reread", "held"},
           UNCHANGED <<db, comp, loop>>
    PROVE  AloneInv'
<1>1. CASE pc' = [pc EXCEPT ![w] = "error"] /\ UNCHANGED <<rec, to, tries>>
  <2>1. /\ pc'[w] = "error" /\ pc[w] \in Holding
        /\ \A v \in Threads \ {w} : pc'[v] = pc[v] /\ to'[v] = to[v]
    BY <1>1 DEF LINV, IInv, TypeOK, Holding
  <2>2. Current(w)'
    BY <2>1 DEF Current, Waiting, Holding
  <2>3. QED BY <1>1, <2>1, <2>2, MoveAlone
<1>2. CASE Enter(w, r, 3)
  <2>1. /\ pc[w] \in Waiting /\ \A q \in queue'[w] : db[q.key] = q /\ q.key # r.key
        /\ w \notin Sweeps => queue'[w] = {}
    BY DEF LINV, AloneInv, Current, LoopsOnce, Waiting, Holding, loop
  <2>2. QED BY <1>2, <2>1, StageFacts, EnterAlone DEF loop
<1>3. QED BY <1>1, <1>2 DEF AfterOrder

LEMMA ReleaseAlone ==
    ASSUME LINV, NEW w \in Threads, Release(w)
    PROVE  AloneInv'
<1>1. rec[w] \in Row
  BY LocalRow DEF Release, LINV, IInv, IdentityInv, LocalsPinned, Holding
<1>2. pc[w] = "held" /\ db[rec[w].key] = rec[w] /\ rec[w].state = "ORDER_CREATED"
  BY DEF Release, LINV, AloneInv, Current
<1>3. QED BY <1>1, <1>2, AfterOrderAlone DEF Release

LEMMA RereadAlone ==
    ASSUME LINV, NEW w \in Threads, Reread(w)
    PROVE  AloneInv'
<1>1. PICK r : r = db[rec[w].key]
  OBVIOUS
<1>2. /\ pc[w] = "reread" /\ pc[w] \in Waiting /\ pc[w] \in Holding /\ rec[w].key \in Keys
      /\ r \in Row /\ r.key = rec[w].key /\ db[r.key] = r /\ r.state = to[w]
      /\ to[w] = "COMPENSATING" => r = Compensated(w)
  <2>1. rec[w] \in Row /\ db[rec[w].key] # NoRow /\ rec[w].key \in Keys
    BY LocalRow, NoRowFacts DEF Reread, LINV, IInv, IdentityInv, LocalsPinned, Holding
  <2>2. QED
    BY <1>1, <2>1, ReadPins DEF Reread, LINV, AloneInv, Current, Waiting, Holding
<1>3. UNCHANGED <<db, loop>>
  BY DEF Reread
<1>4. /\ \A q \in queue'[w] : db[q.key] = q /\ q.key # r.key
      /\ w \notin Sweeps => queue'[w] = {}
  BY <1>2, <1>3 DEF LINV, AloneInv, Current, LoopsOnce, loop
<1>5. CASE to[w] \in {"CART_CREATED", "PAYMENT_PENDING", "PAYMENT_COMPLETED"}
  <2>1. StageOf(to[w]) \in 1 .. 5 /\ StageOf(r.state) >= StageOf(to[w])
    BY <1>2, <1>5 DEF StageOf
  <2>2. Enter(w, r, StageOf(to[w])) /\ UNCHANGED comp
    BY <1>1, <1>5 DEF Reread, Terminals
  <2>3. QED BY <1>2, <1>3, <1>4, <2>1, <2>2, EnterAlone DEF loop
<1>6. CASE to[w] = "ORDER_CREATED" /\ ~ armed[w]
  BY <1>1, <1>2, <1>3, <1>6, AfterOrderAlone DEF Reread, Terminals
<1>7. CASE to[w] = "ORDER_CREATED" /\ armed[w]
  <2>1. /\ rec' = [rec EXCEPT ![w] = r] /\ rec'[w] = r
        /\ pc' = [pc EXCEPT ![w] = "held"] /\ pc'[w] = "held"
        /\ UNCHANGED <<to, comp>>
    BY <1>1, <1>7 DEF Reread, Terminals, LINV, IInv, TypeOK
  <2>2. Leaves(w)
    BY <1>3, <2>1 DEF Leaves, OthersKept, loop
  <2>3. Current(w)' /\ LoopsOnce(w)'
    BY <1>2, <1>3, <1>4, <1>7, <2>1 DEF Current, LoopsOnce, Waiting, Holding
  <2>4. QED BY <1>2, <2>1, <2>2, <2>3, AloneStep
<1>8. CASE to[w] = "COMPENSATING"
  <2>1. /\ comp' = [comp EXCEPT ![w] = r] /\ comp'[w] = r
        /\ pc' = [pc EXCEPT ![w] = "cancel"] /\ pc'[w] = "cancel"
        /\ UNCHANGED <<to, rec>>
    BY <1>1, <1>8 DEF Reread, Terminals, LINV, IInv, TypeOK
  <2>2. Leaves(w)
    BY <1>3, <2>1 DEF Leaves, OthersKept, loop
  <2>3. Current(w)' /\ LoopsOnce(w)'
    BY <1>2, <1>3, <1>4, <1>8, <2>1 DEF Current, LoopsOnce, Compensated, Waiting, Holding
  <2>4. QED BY <1>2, <2>1, <2>2, <2>3, AloneStep
<1>9. CASE to[w] \in Terminals
  <2>1. Return(w, r) /\ UNCHANGED comp
    BY <1>1, <1>9 DEF Reread, Terminals
  <2>2. /\ rec' = [rec EXCEPT ![w] = r] /\ rec'[w] = r
        /\ pc' = [pc EXCEPT ![w] = IF w \in Executions THEN "done" ELSE "returned"]
        /\ pc'[w] = IF w \in Executions THEN "done" ELSE "returned"
        /\ UNCHANGED to
    BY <2>1 DEF Return, LINV, IInv, TypeOK
  <2>3. Leaves(w)
    BY <1>3, <2>1, <2>2 DEF Leaves, OthersKept, loop
  <2>4. Current(w)' /\ LoopsOnce(w)'
    BY <1>2, <1>3, <1>4, <1>9, <2>2 DEF Current, LoopsOnce, Waiting, Holding
  <2>5. QED BY <1>2, <1>9, <2>2, <2>3, <2>4, AloneStep
<1>10. QED BY <1>5, <1>6, <1>7, <1>8, <1>9 DEF Reread

LEMMA CancelAlone ==
    ASSUME LINV, NEW w \in Threads, Cancel(w) \/ CancelLost(w)
    PROVE  AloneInv'
<1>1. /\ pc[w] = "cancel" /\ comp[w] = Compensated(w) /\ db[rec[w].key] = Compensated(w)
      /\ UNCHANGED <<db, comp, loop>>
  BY DEF Cancel, CancelLost, LINV, AloneInv, Current
<1>2. SaveAs(w, "COMPENSATED") \/ CancelFails(w)
  BY DEF Cancel, CancelLost
<1>3. /\ UNCHANGED rec
      /\ \A v \in Threads \ {w} : pc'[v] = pc[v] /\ to'[v] = to[v]
      /\ pc'[w] \in {"cancel", "save"}
      /\ pc'[w] = "save" => to'[w] \in {"FAILED", "COMPENSATED"}
  BY <1>1, <1>2, CancelFailsFacts DEF SaveAs, LINV, IInv, TypeOK
<1>4. Current(w)'
  BY <1>1, <1>3 DEF Current, Compensated, Waiting, Holding, loop, LINV, AloneInv
<1>5. QED BY <1>1, <1>3, <1>4, MoveAlone DEF Holding

LEMMA CrashAlone ==
    ASSUME LINV, Crash
    PROVE  AloneInv'
<1>1. \A w \in Active : pc'[w] = "lost"
  BY DEF Crash, Forget, Active
<1>2. \A w \in Threads \ Active :
          /\ pc'[w] = pc[w] /\ pc[w] \notin Waiting /\ rec'[w] = rec[w]
          /\ prev'[w] = prev[w] /\ rounds'[w] = rounds[w] /\ queue'[w] = queue[w]
  BY DEF Crash, Forget, Active
<1>3. \A w \in Threads : pc'[w] \notin Waiting
  BY <1>1, <1>2 DEF Waiting
<1>4. Sole' /\ \A w \in Threads : Current(w)'
  BY <1>3 DEF Sole, Current, Waiting, Holding
<1>5. \A w \in Threads : LoopsOnce(w)'
  BY <1>1, <1>2, <1>3 DEF LoopsOnce, Waiting, LINV, AloneInv
<1>6. RecoverySettles'
  BY <1>1, <1>2 DEF RecoverySettles, Threads, LINV, AloneInv
<1>7. QED BY <1>4, <1>5, <1>6 DEF AloneInv

LEMMA AloneNext ==
    ASSUME MaxActive = 1, LINV, [Next]_vars
    PROVE  AloneInv'
<1>1. ASSUME NEW w \in Threads, Execute(w) \/ RecoverOne(w) \/ Sweep(w) \/ Step(w)
      PROVE  AloneInv'
  BY <1>1, ExecuteAlone, RecoverOneAlone, SweepAlone, InsertAlone, ReadCreatedAlone, LoopAlone,
     NextRecordAlone, CallsAlone, SaveAlone, RereadAlone, ReleaseAlone, CancelAlone DEF Step
<1>2. CASE (\E m \in net : Deliver(m)) \/ UNCHANGED vars
  <2>1. UNCHANGED <<db, pc, rec, comp, to, loop>>
    BY <1>2 DEF Deliver, vars
  <2>2. QED
    BY <2>1 DEF LINV, AloneInv, Sole, Current, Compensated, LoopsOnce, RecoverySettles, loop
<1>3. QED BY <1>1, <1>2, CrashAlone DEF Next

LEMMA AloneInit == Init => AloneInv
BY DEF Init, AloneInv, Sole, Current, LoopsOnce, RecoverySettles, Waiting, Holding, Threads

(* Where requests do not overlap, a recovery that answers has brought its  *)
(* record to a terminal state, unless it found it compensating: whatever   *)
(* fails, gets lost or is killed, for any number of purchases and crashes. *)
THEOREM RecoverySettlesHolds ==
    ASSUME MaxActive = 1
    PROVE  Spec => []RecoverySettles
<1>1. IInv /\ AloneInv /\ [Next]_vars => AloneInv'
  BY AloneNext DEF LINV
<1>2. AloneInv => RecoverySettles
  BY DEF AloneInv
<1>3. QED BY <1>1, <1>2, AloneInit, Inductive, PTL DEF Spec

-----------------------------------------------------------------------------
(* One thread at a time, one crash, and no failures but the injected.      *)

SInv == EInv /\ AloneInv /\ SequentialInv

(* Every mechanism is on                                                   *)
Complete == configuration \in {"HISTORICAL", "C8"}

LEMMA Mechanisms ==
    ASSUME Complete, NEW w
    PROVE  Retries(w) /\ Reconciles(w) /\ Compensates(w)
BY DEF Complete, Retries, Reconciles, Compensates, PolicyOf

(* A recovery meets no injected failure                                    *)
LEMMA BlockedFacts ==
    ASSUME NEW op, NEW t, NEW w
    PROVE  /\ Blocked(op, t, ScenarioOf(w)) => Blocked(op, t, scenario)
           /\ w \in Executions => ScenarioOf(w) = scenario
           /\ Blocked(op, t, scenario) => scenario # "f9-orchestrator-interruption-after-order"
BY DEF Blocked, Rejects, Stalls, ScenarioOf, InjectedError, NoFailure

LEMMA ReplyFacts ==
    ASSUME NEW op \in {"create_cart", "create_order", "execute_payment"}, NEW t, NEW sc
    PROVE  /\ Reply(op, t, sc) \in {"ok", "http500", "http503", "timeout"}
           /\ Reply(op, t, sc) = "http500" => Blocked(op, t, sc)
           /\ Reply(op, t, sc) = "timeout" => Blocked(op, t, sc) \/ Passes(op, t, sc)
           /\ Reply(op, t, sc) = "http503" => /\ op = "execute_payment" /\ Counts(op, t, sc)
                                              /\ attempts[op][t] + 1 <= 2
           /\ op = "execute_payment" /\ Counts(op, t, sc) =>
                 Reply(op, t, sc) \in {"ok", "http503"}
<1>1. /\ ~ Rejects(op, t, sc) /\ ~ Stalls(op, t, sc) /\ ~ Unavailable(op, t, sc)
            => Passes(op, t, sc)
      /\ Unavailable(op, t, sc) => /\ op = "execute_payment" /\ Counts(op, t, sc)
                                   /\ attempts[op][t] + 1 <= 2
  BY DEF Passes, Unavailable, Counts, FailingAttempts
<1>2. op = "execute_payment" /\ Counts(op, t, sc) =>
         /\ ~ Rejects(op, t, sc) /\ ~ Stalls(op, t, sc)
         /\ <<op, sc>> \notin InjectedLoss
  BY DEF Counts, Rejects, Stalls, InjectedError, InjectedLoss
<1>3. QED BY <1>1, <1>2 DEF Reply, Blocked

(* What handling a request does to the rows of its transaction             *)
LEMMA ServeAt ==
    ASSUME ServicesTypeOK, NEW op \in Operations, NEW k \in Keys, NEW t \in Txs, NEW sc,
           Serve(op, k, t, sc)
    PROVE  /\ \A u \in Txs \ {t} : /\ carts'[u] = carts[u] /\ orders'[u] = orders[u]
                                   /\ payments'[u] = payments[u]
           /\ Blocked(op, t, sc) => UNCHANGED <<carts, orders, payments>>
           /\ op # "create_cart" => UNCHANGED carts
           /\ op # "execute_payment" => UNCHANGED payments
           /\ op \notin {"create_order", "cancel_order"} => UNCHANGED orders
           /\ op = "create_order" => \/ orders'[t] = orders[t]
                                     \/ orders[t].status = "NONE" /\ orders'[t].status = "ACTIVE"
           /\ op = "cancel_order" => \/ orders'[t] = orders[t]
                                     \/ orders[t].status # "NONE" /\ orders'[t].status = "CANCELLED"
           /\ UNCHANGED selected
<1>1. CASE op = "create_cart"
  BY <1>1 DEF Serve, CreateCart, ServicesTypeOK, Passes, Blocked
<1>2. CASE op = "create_order"
  BY <1>2 DEF Serve, CreateOrder, ServicesTypeOK, Passes, Blocked
<1>3. CASE op = "execute_payment"
  BY <1>3 DEF Serve, ExecutePayment, ServicesTypeOK, Passes, Blocked
<1>4. CASE op = "cancel_order"
  BY <1>4 DEF Serve, CancelOrder, ServicesTypeOK, OrderRow, Passes, Blocked
<1>5. QED BY <1>1, <1>2, <1>3, <1>4 DEF Operations

(* ... and to the attempts it counts                                       *)
LEMMA ServeCounts ==
    ASSUME ServicesTypeOK, NEW op \in Operations, NEW k \in Keys, NEW t \in Txs, NEW sc,
           Serve(op, k, t, sc)
    PROVE  /\ \A o \in CountedOperations, u \in Txs : attempts'[o][u] >= attempts[o][u]
           /\ Counts(op, t, sc) /\ op \in CountedOperations /\ attempts[op][t] < AttemptsCap =>
                 attempts'[op][t] = attempts[op][t] + 1
<1>1. \A o \in CountedOperations, u \in Txs : attempts[o][u] \in 0 .. 3
  BY DEF ServicesTypeOK, AttemptsCap
<1>2. CASE op \in CountedOperations
  <2>1. Count(op, t, sc)
    BY <1>2 DEF Serve, ExecutePayment, CancelOrder, CountedOperations
  <2>2. CASE Counts(op, t, sc) /\ attempts[op][t] < AttemptsCap
    <3>1. attempts' = [attempts EXCEPT ![op][t] = @ + 1]
      BY <2>1, <2>2 DEF Count
    <3>2. /\ attempts'[op][t] = attempts[op][t] + 1
          /\ \A o \in CountedOperations, u \in Txs :
                o # op \/ u # t => attempts'[o][u] = attempts[o][u]
      BY <1>2, <3>1 DEF ServicesTypeOK
    <3>3. QED BY <1>1, <1>2, <3>2
  <2>3. CASE ~ (Counts(op, t, sc) /\ attempts[op][t] < AttemptsCap)
    BY <1>1, <2>1, <2>3 DEF Count
  <2>4. QED BY <2>2, <2>3
<1>3. CASE op \notin CountedOperations
  BY <1>1, <1>3 DEF Serve, CreateCart, CreateOrder, CountedOperations, Operations
<1>4. QED BY <1>2, <1>3

-----------------------------------------------------------------------------
(* What holds on through a step of the services.                           *)

LEMMA ServeFollows ==
    ASSUME SInv, EffectsKept, NEW op \in Operations, NEW k \in Keys, NEW t \in Txs, NEW sc,
           Serve(op, k, t, sc), UNCHANGED db, HasRow(k), db[k].tx = t,
           \/ Blocked(op, t, sc)
           \/ op = "create_cart"
           \/ op = "create_order" /\ db[k].state \notin {"STARTED", "FAILED"}
           \/ op = "execute_payment"
              /\ db[k].state \in {"PAYMENT_PENDING", "PAYMENT_COMPLETED", "COMPLETED"}
           \/ op = "cancel_order" /\ db[k].state = "COMPENSATING"
    PROVE  \A j \in Keys : HasRow(j)' => EffectsFollow(j)'
<1> SUFFICES ASSUME NEW j \in Keys, HasRow(j) PROVE EffectsFollow(j)'
  BY DEF HasRow
<1>1. ServicesTypeOK /\ EffectsFollow(j)
  BY DEF SInv, EInv, IInv, TypeOK, SequentialInv
<1>2. CASE j # k
  <2>1. db[j].tx \in Txs \ {t}
    BY <1>2, RowTyping, NoRowFacts DEF SInv, EInv, IInv, IdentityInv
  <2>2. QED BY <1>1, <2>1, ServeAt DEF EffectsFollow
<1>3. CASE j = k
  BY <1>1, <1>3, ServeAt DEF EffectsFollow
<1>4. QED BY <1>2, <1>3

LEMMA ServeUnspoiled ==
    ASSUME SInv, NEW op \in Operations, NEW k \in Keys, NEW t \in Txs, NEW sc,
           Serve(op, k, t, sc), UNCHANGED <<db, scenario>>, HasRow(k), db[k].tx = t,
           \A j \in Keys, s \in States : Recorded(j, s) => Recorded(j, s)',
           Blocked(op, t, scenario) =>
              \/ Blocked(op, t, sc) \/ op \in {"create_cart", "cancel_order"}
              \/ op = "create_order" /\ Recorded(k, "ORDER_CREATED")'
              \/ op = "execute_payment" /\ Recorded(k, "PAYMENT_COMPLETED")'
    PROVE  \A j \in Keys : HasRow(j)' => Unspoiled(j)'
<1> SUFFICES ASSUME NEW j \in Keys, HasRow(j) PROVE Unspoiled(j)'
  BY DEF HasRow
<1>1. ServicesTypeOK /\ Unspoiled(j) /\ UNCHANGED selected
  BY ServeAt DEF SInv, EInv, IInv, TypeOK, SequentialInv
<1>2. "ORDER_CREATED" \in States /\ "PAYMENT_COMPLETED" \in States
  BY DEF States
<1>3. CASE j # k
  <2>1. db[j].tx \in Txs \ {t}
    BY <1>3, RowTyping, NoRowFacts DEF SInv, EInv, IInv, IdentityInv
  <2>2. QED BY <1>1, <1>2, <2>1, ServeAt DEF Unspoiled, Blocked, Rejects, Stalls
<1>4. CASE j = k
  <2>1. orders'[t].status # "NONE" => \/ orders[t].status # "NONE"
                                      \/ op = "create_order" /\ ~ Blocked(op, t, sc)
    BY <1>1, ServeAt DEF EffectsKept
  <2>2. payments'[t] # NoKey => \/ payments[t] # NoKey
                                \/ op = "execute_payment" /\ ~ Blocked(op, t, sc)
    BY <1>1, ServeAt
  <2>3. QED BY <1>1, <1>2, <1>4, <2>1, <2>2 DEF Unspoiled, Blocked, Rejects, Stalls
<1>5. QED BY <1>3, <1>4

(* Nobody takes hold of a record that is being compensated                 *)
KeepsAway ==
    \A v \in Threads : pc'[v] \in Holding =>
        \/ pc[v] \in Holding /\ rec'[v].key = rec[v].key
        \/ db[rec'[v].key].state # "COMPENSATING"

LEMMA HarmlessStays ==
    ASSUME SInv, EffectsKept, UNCHANGED <<db, scenario, selected>>, KeepsAway, NEW m \in net
    PROVE  Harmless(m)'
<1>1. Harmless(m) /\ m.tx \in Txs
  BY DEF SInv, SequentialInv, EInv, IInv, TypeOK, Message
<1>2. carts[m.tx] # NoKey => carts'[m.tx] # NoKey
  BY <1>1 DEF EffectsKept
<1>3. m.op = "cancel_order" => \A v \in Threads : pc'[v] \in Holding => rec'[v].key # m.key
  BY <1>1 DEF KeepsAway, Harmless
<1>4. QED BY <1>1, <1>2, <1>3 DEF Harmless, Blocked, Rejects, Stalls

(* Before anything was broken off, every open purchase is the one thread's *)
LEMMA Mine ==
    ASSUME SInv, Unbroken, NEW w \in Threads, \A v \in Threads \ {w} : pc[v] \notin Waiting,
           NEW k \in Keys, HasRow(k), db[k].state \notin Terminals
    PROVE  pc[w] \in Holding \cup {"created"} /\ rec[w].key = k
BY DEF SInv, SequentialInv, Attentive, Holding, Waiting

LEMMA AttentiveStep ==
    ASSUME SInv, NEW w \in Threads, UNCHANGED cell,
           \A v \in Threads \ {w} : pc[v] \notin Waiting /\ pc'[v] = pc[v],
           Unbroken =>
              /\ pc'[w] \in Holding => w \in Executions
              /\ \A k \in Keys : HasRow(k)' /\ db'[k].state \notin Terminals =>
                    pc'[w] \in Holding \cup {"created"} /\ rec'[w].key = k
    PROVE  Attentive'
BY DEF Attentive, Unbroken, cell, Holding, Waiting

(* A step of thread w inside the orchestrator                              *)
LEMMA QuietStep ==
    ASSUME SInv, NEW w \in Threads, UNCHANGED <<services, db, net, cell>>, pc[w] # "save",
           \A v \in Threads \ {w} : pc[v] \notin Waiting /\ pc'[v] = pc[v] /\ rec'[v] = rec[v],
           Deserved(w)',
           pc'[w] \in Holding => \/ pc[w] \in Holding /\ rec'[w].key = rec[w].key
                                 \/ db[rec'[w].key].state # "COMPENSATING",
           Unbroken =>
              /\ pc'[w] \in Holding => w \in Executions
              /\ \A k \in Keys : HasRow(k) /\ db[k].state \notin Terminals =>
                    pc'[w] \in Holding \cup {"created"} /\ rec'[w].key = k
    PROVE  SequentialInv'
<1>1. UNCHANGED <<carts, orders, payments, attempts, selected, configuration, scenario, crashes>>
  BY DEF services, cell
<1>2. \A k \in Keys : HasRow(k)' => EffectsFollow(k)' /\ Unspoiled(k)'
  <2> SUFFICES ASSUME NEW k \in Keys, HasRow(k) PROVE EffectsFollow(k)' /\ Unspoiled(k)'
    BY DEF HasRow
  <2>1. EffectsFollow(k) /\ Unspoiled(k)
    BY DEF SInv, SequentialInv
  <2>2. \A s : Recorded(k, s) => Recorded(k, s)'
    BY DEF Recorded, Waiting
  <2>3. EffectsFollow(k)'
    BY <1>1, <2>1 DEF EffectsFollow
  <2>4. Unspoiled(k)'
    BY <1>1, <2>1, <2>2 DEF Unspoiled, Blocked, Rejects, Stalls
  <2>5. QED BY <2>3, <2>4
<1>3. \A m \in net' : Harmless(m)'
  <2>1. KeepsAway
    BY DEF KeepsAway, Holding, Waiting
  <2>2. EffectsKept
    BY IdleKeeps DEF SInv, EInv, IInv, TypeOK
  <2>3. QED BY <1>1, <2>1, <2>2, HarmlessStays
<1>4. \A v \in Threads : Deserved(v)'
  BY DEF Deserved, Waiting
<1>5. Attentive'
  BY AttentiveStep DEF HasRow
<1>6. QED BY <1>1, <1>2, <1>3, <1>4, <1>5 DEF SInv, SequentialInv

(* Thread w goes on with the record it has                                 *)
LEMMA KeepStep ==
    ASSUME SInv, NEW w \in Threads, UNCHANGED <<services, db, net, cell>>,
           pc[w] \in Holding \ {"save"}, pc'[w] \in Holding, rec'[w].key = rec[w].key,
           \A v \in Threads \ {w} : pc'[v] = pc[v] /\ rec'[v] = rec[v],
           Deserved(w)'
    PROVE  SequentialInv'
<1>1. \A v \in Threads \ {w} : pc[v] \notin Waiting
  BY DEF SInv, AloneInv, Sole, Holding, Waiting
<1>2. Unbroken => /\ w \in Executions
                  /\ \A k \in Keys : HasRow(k) /\ db[k].state \notin Terminals =>
                        rec'[w].key = k
  BY <1>1, Mine DEF SInv, SequentialInv, Attentive
<1>3. QED BY <1>1, <1>2, QuietStep

(* It lets go of its record, or has none                                   *)
LEMMA EndStep ==
    ASSUME SInv, NEW w \in Threads, UNCHANGED <<services, db, net, cell>>,
           pc[w] # "save", pc'[w] \notin Holding,
           pc[w] \in Waiting \/ \A v \in Threads : pc[v] \notin Waiting,
           \A v \in Threads \ {w} : pc'[v] = pc[v] /\ rec'[v] = rec[v],
           Unbroken => \/ pc[w] \notin Holding \cup {"created"}
                       \/ db[rec[w].key].state \in Terminals \cup {"NONE"}
    PROVE  SequentialInv'
<1>1. \A v \in Threads \ {w} : pc[v] \notin Waiting
  BY DEF SInv, AloneInv, Sole
<1>2. Unbroken => \A k \in Keys : HasRow(k) => db[k].state \in Terminals
  BY <1>1, Mine DEF HasRow
<1>3. Deserved(w)'
  BY DEF Deserved, Holding
<1>4. QED BY <1>1, <1>2, <1>3, QuietStep

LEMMA EnterDeserves ==
    ASSUME IInv, NEW w \in Threads, NEW r \in Row, NEW from \in 1 .. 5, Enter(w, r, from),
           db[r.key] = r, UNCHANGED <<services, db>>
    PROVE  /\ Deserved(w)' /\ rec'[w] = r
           /\ pc'[w] \in Holding => StageOf(r.state) >= from /\ r.state # "COMPENSATING"
           /\ StageOf(r.state) >= from => pc'[w] \in Holding
<1>1. rec'[w] = r /\ db'[r.key] = r /\ r.tx \in Txs
  BY EnterFacts, NoRowFacts DEF IInv, TypeOK
<1>2. CASE StageOf(r.state) < from /\ Return(w, r)
  <2>1. pc'[w] \in {"done", "returned"} /\ ~ StageOf(r.state) >= from
    BY <1>2, StageFacts DEF Return, IInv, TypeOK
  <2>2. QED BY <1>1, <2>1 DEF Deserved, Holding
<1>3. CASE /\ StageOf(r.state) >= from
           /\ r.state \in {"STARTED", "CART_CREATED", "PAYMENT_PENDING"}
           /\ tries' = [tries EXCEPT ![w] = 0]
           /\ pc' = [pc EXCEPT ![w] = Attempt(w)]
  <2>1. pc'[w] \in {"lookup", "call"} /\ tries'[w] = 0
    BY <1>3 DEF Attempt, IInv, TypeOK
  <2>2. 0 <= attempts'["execute_payment"][r.tx]
    BY <1>1 DEF IInv, TypeOK, ServicesTypeOK, services, CountedOperations, AttemptsCap
  <2>3. QED BY <1>1, <1>3, <2>1, <2>2 DEF Deserved, Holding
<1>4. CASE /\ StageOf(r.state) >= from
           /\ r.state \in {"ORDER_CREATED", "PAYMENT_COMPLETED"}
           /\ to' = [to EXCEPT ![w] = IF r.state = "ORDER_CREATED" THEN "PAYMENT_PENDING"
                                                                   ELSE "COMPLETED"]
           /\ pc' = [pc EXCEPT ![w] = "save"]
  <2>1. /\ pc'[w] = "save"
        /\ to'[w] = IF r.state = "ORDER_CREATED" THEN "PAYMENT_PENDING" ELSE "COMPLETED"
    BY <1>4 DEF IInv, TypeOK
  <2>2. QED BY <1>1, <1>4, <2>1 DEF Deserved, Holding, Follows
<1>5. QED BY <1>2, <1>3, <1>4 DEF Enter

LEMMA EnterSequential ==
    ASSUME SInv, NEW w \in Threads, NEW r \in Row, NEW from \in 1 .. 5, Enter(w, r, from),
           db[r.key] = r, UNCHANGED <<services, db, net, cell>>, pc[w] # "save",
           pc[w] \in Waiting \/ \A v \in Threads : pc[v] \notin Waiting,
           pc[w] \in Holding \cup {"created"} =>
              \/ w \in Executions /\ r.key = rec[w].key /\ StageOf(r.state) >= from
              \/ ~ Unbroken
    PROVE  SequentialInv'
<1>1. /\ rec' = [rec EXCEPT ![w] = r]
      /\ \A v \in Threads \ {w} : pc'[v] = pc[v]
  BY EnterFacts DEF SInv, EInv, IInv
<1>2. \A v \in Threads \ {w} : pc[v] \notin Waiting /\ pc'[v] = pc[v] /\ rec'[v] = rec[v]
  BY <1>1 DEF SInv, EInv, IInv, TypeOK, AloneInv, Sole
<1>3. /\ Deserved(w)' /\ rec'[w] = r
      /\ pc'[w] \in Holding => StageOf(r.state) >= from /\ r.state # "COMPENSATING"
      /\ StageOf(r.state) >= from => pc'[w] \in Holding
  BY EnterDeserves DEF SInv, EInv
<1>4. ASSUME Unbroken
      PROVE  /\ pc'[w] \in Holding => w \in Executions
             /\ \A k \in Keys : HasRow(k) /\ db[k].state \notin Terminals =>
                   pc'[w] \in Holding \cup {"created"} /\ rec'[w].key = k
  <2>1. CASE pc[w] \in Holding \cup {"created"}
    <3>1. w \in Executions /\ r.key = rec[w].key /\ StageOf(r.state) >= from
      BY <1>4, <2>1
    <3>2. QED BY <1>2, <1>3, <1>4, <3>1, Mine
  <2>2. CASE pc[w] \notin Holding \cup {"created"}
    <3>1. \A k \in Keys : HasRow(k) => db[k].state \in Terminals
      BY <1>2, <1>4, <2>2, Mine
    <3>2. HasRow(r.key) /\ r.key \in Keys
      BY NoRowFacts DEF HasRow
    <3>3. StageOf(r.state) = 0
      BY <3>1, <3>2 DEF StageOf, Terminals
    <3>4. QED BY <1>3, <3>1, <3>3
  <2>3. QED BY <2>1, <2>2
<1>5. QED BY <1>2, <1>3, <1>4, QuietStep

-----------------------------------------------------------------------------

LEMMA ExecuteSequential ==
    ASSUME MaxActive = 1, SInv, NEW w \in Threads, Execute(w)
    PROVE  SequentialInv'
<1>1. PICK k \in Keys, t \in Txs :
          \/ /\ db[k] # NoRow
             /\ Enter(w, db[k], 1)
          \/ /\ db[k] = NoRow
             /\ rec' = [rec EXCEPT ![w] = Unsaved(k, t)]
             /\ pc' = [pc EXCEPT ![w] = "insert"]
  BY DEF Execute
<1>2. pc[w] = "idle" /\ \A v \in Threads : pc[v] \notin Waiting
  BY StartsAlone DEF Execute, SInv, AloneInv
<1>3. UNCHANGED <<services, db, net, cell>> /\ pc[w] \notin Holding \cup {"created"}
  BY <1>2 DEF Execute, Holding
<1>4. CASE db[k] # NoRow
  <2>1. db[k] \in Row /\ db[k].key = k
    BY <1>4, ReadPins DEF SInv, EInv
  <2>2. Enter(w, db[k], 1) /\ db[db[k].key] = db[k]
    BY <1>1, <1>4, <2>1
  <2>3. QED BY <1>2, <1>3, <2>1, <2>2, EnterSequential
<1>5. CASE db[k] = NoRow
  <2>1. /\ pc'[w] = "insert"
        /\ \A v \in Threads \ {w} : pc'[v] = pc[v] /\ rec'[v] = rec[v]
    BY <1>1, <1>5 DEF SInv, EInv, IInv, TypeOK
  <2>2. QED BY <1>2, <1>3, <2>1, EndStep DEF Holding
<1>6. QED BY <1>4, <1>5

LEMMA ReadCreatedSequential ==
    ASSUME SInv, NEW w \in Threads, ReadCreated(w)
    PROVE  SequentialInv'
<1>1. /\ pc[w] = "created" /\ pc[w] \in Waiting /\ rec[w].key \in Keys
      /\ db[rec[w].key].state \in {"NONE", "STARTED"} /\ w \in Executions
      /\ UNCHANGED <<services, db, net, cell>>
  BY DEF ReadCreated, SInv, EInv, IInv, IdentityInv, LocalsPinned, AloneInv, Current,
         LoopsOnce, Waiting
<1>2. CASE db[rec[w].key] # NoRow
  <2>1. PICK r : r = db[rec[w].key]
    OBVIOUS
  <2>2. r \in Row /\ r.key = rec[w].key
    BY <1>1, <1>2, <2>1, ReadPins DEF SInv, EInv
  <2>3. db[r.key] = r /\ r.state = "STARTED"
    BY <1>1, <2>1, <2>2, NoRowFacts
  <2>4. Enter(w, r, 1) /\ StageOf(r.state) >= 1
    BY <1>2, <2>1, <2>3 DEF ReadCreated, StageOf
  <2>5. QED BY <1>1, <2>2, <2>3, <2>4, EnterSequential
<1>3. CASE db[rec[w].key] = NoRow
  <2>1. /\ pc'[w] = "error" /\ db[rec[w].key].state = "NONE"
        /\ \A v \in Threads \ {w} : pc'[v] = pc[v] /\ rec'[v] = rec[v]
    BY <1>3, NoRowFacts DEF ReadCreated, SInv, EInv, IInv, TypeOK
  <2>2. QED BY <1>1, <2>1, EndStep DEF Holding
<1>4. QED BY <1>2, <1>3

LEMMA RecoverOneSequential ==
    ASSUME MaxActive = 1, SInv, NEW w \in Threads, RecoverOne(w)
    PROVE  SequentialInv'
<1>1. pc[w] = "idle" /\ \A v \in Threads : pc[v] \notin Waiting
  BY StartsAlone DEF RecoverOne, SInv, AloneInv
<1>2. /\ UNCHANGED <<services, db, net, cell>> /\ pc'[w] \in {"error", "returned"}
      /\ \A v \in Threads \ {w} : pc'[v] = pc[v] /\ rec'[v] = rec[v]
  BY DEF RecoverOne, SInv, EInv, IInv, TypeOK
<1>3. QED BY <1>1, <1>2, EndStep DEF Holding

LEMMA LoopSequential ==
    ASSUME SInv, NEW w \in Threads, Loop(w)
    PROVE  SequentialInv'
<1>1. /\ pc[w] = "returned" /\ pc[w] \in Waiting /\ pc[w] \notin Holding \cup {"created"}
      /\ db[rec[w].key] = rec[w] /\ UNCHANGED <<services, db, net, cell>>
  BY DEF Loop, SInv, AloneInv, Current, Waiting, Holding
<1>2. rec[w] \in Row
  BY LocalRow DEF Loop, SInv, EInv, IInv, IdentityInv, LocalsPinned
<1>3. CASE Enter(w, rec[w], 1)
  BY <1>1, <1>2, <1>3, EnterSequential
<1>4. CASE pc' = [pc EXCEPT ![w] = "done"] /\ UNCHANGED rec
  <2>1. pc'[w] = "done" /\ \A v \in Threads \ {w} : pc'[v] = pc[v] /\ rec'[v] = rec[v]
    BY <1>4 DEF SInv, EInv, IInv, TypeOK
  <2>2. QED BY <1>1, <2>1, EndStep DEF Holding
<1>5. QED BY <1>3, <1>4 DEF Loop

LEMMA SweepSequential ==
    ASSUME MaxActive = 1, SInv, NEW w \in Threads, Sweep(w)
    PROVE  SequentialInv'
<1>1. pc[w] = "idle" /\ \A v \in Threads : pc[v] \notin Waiting
  BY StartsAlone DEF Sweep, SInv, AloneInv
<1>2. /\ UNCHANGED <<services, db, net, cell>> /\ pc'[w] = "returned"
      /\ \A v \in Threads \ {w} : pc'[v] = pc[v] /\ rec'[v] = rec[v]
  BY DEF Sweep, SInv, EInv, IInv, TypeOK
<1>3. QED BY <1>1, <1>2, EndStep DEF Holding

LEMMA NextRecordSequential ==
    ASSUME SInv, NEW w \in Threads, NextRecord(w)
    PROVE  SequentialInv'
<1>1. /\ pc[w] = "returned" /\ pc[w] \in Waiting /\ pc[w] \notin Holding \cup {"created"}
      /\ \A q \in queue[w] : q \in Row /\ db[q.key] = q
      /\ UNCHANGED <<services, db, net, cell>>
  BY DEF NextRecord, SInv, EInv, IInv, TypeOK, AloneInv, Current, Waiting, Holding
<1>2. CASE \E r \in queue[w] : Enter(w, r, 1)
  BY <1>1, <1>2, EnterSequential
<1>3. CASE pc' = [pc EXCEPT ![w] = "done"] /\ UNCHANGED rec
  <2>1. pc'[w] = "done" /\ \A v \in Threads \ {w} : pc'[v] = pc[v] /\ rec'[v] = rec[v]
    BY <1>3 DEF SInv, EInv, IInv, TypeOK
  <2>2. QED BY <1>1, <2>1, EndStep DEF Holding
<1>4. QED BY <1>2, <1>3 DEF NextRecord

(* What a thread knows that is about to make a call                        *)
LEMMA AtCall ==
    ASSUME SInv, NEW w \in Threads, pc[w] \in {"lookup", "call", "reconcile"}
    PROVE  /\ rec[w] \in Row /\ Pinned(rec[w]) /\ Backed(rec[w]) /\ rec[w].state \in Calling
           /\ rec[w].key \in Keys /\ rec[w].tx \in Txs /\ db[rec[w].key] = rec[w]
           /\ HasRow(rec[w].key) /\ EffectsFollow(rec[w].key) /\ Unspoiled(rec[w].key)
           /\ pc[w] \in Holding \ {"save"}
<1>1. rec[w] \in Row /\ Pinned(rec[w]) /\ Backed(rec[w])
  BY LocalRow, LocalBacked DEF SInv, EInv, IInv, IdentityInv, LocalsPinned, Holding
<1>2. rec[w].state \in Calling /\ db[rec[w].key] = rec[w]
  BY DEF SInv, EInv, EvidenceInv, LocalsBacked, AloneInv, Current
<1>3. QED BY <1>1, <1>2, NoRowFacts DEF Pinned, SInv, SequentialInv, Holding

(* The effect of a call is known, its record will be saved                 *)
LEMMA AdvanceDeserves ==
    ASSUME SInv, NEW w \in Threads, pc[w] \in {"lookup", "call", "reconcile"},
           SaveAs(w, StateAfter(Operation(w))), UNCHANGED db
    PROVE  /\ Deserved(w)' /\ pc'[w] = "save" /\ rec' = rec
           /\ to'[w] = StateAfter(Operation(w))
<1>1. rec[w].state \in Calling /\ db[rec[w].key] = rec[w]
  BY AtCall
<1>2. pc'[w] = "save" /\ rec' = rec /\ to'[w] = StateAfter(Operation(w))
  BY StateAfterFacts DEF SaveAs, SInv, EInv, IInv, TypeOK
<1>3. to'[w] \in Follows(rec[w].state) /\ to'[w] \notin {"FAILED", "COMPENSATING"}
  BY <1>1, <1>2 DEF Calling, Operation, OperationOf, StateAfter, Follows
<1>4. QED BY <1>1, <1>2, <1>3 DEF Deserved

(* It gives up on a call that cannot succeed any more                      *)
LEMMA GiveUpDeserves ==
    ASSUME SInv, Complete, NEW w \in Threads, pc[w] \in {"call", "reconcile"}, GiveUp(w),
           UNCHANGED <<db, scenario, selected>>,
           rec[w].state = "STARTED" => \/ carts'[rec[w].tx] # NoKey
                                       \/ Blocked("create_cart", rec[w].tx, scenario),
           rec[w].state # "STARTED" => Blocked(Operation(w), rec[w].tx, scenario)
    PROVE  Deserved(w)' /\ pc'[w] = "save" /\ rec' = rec
<1>1. /\ rec[w].state \in Calling /\ db[rec[w].key] = rec[w] /\ EffectsFollow(rec[w].key)
      /\ Backed(rec[w]) /\ rec[w].order \in BOOLEAN
  BY AtCall DEF Row
<1>2. /\ pc'[w] = "save" /\ rec' = rec
      /\ to'[w] = IF rec[w].order THEN "COMPENSATING" ELSE "FAILED"
  BY Mechanisms DEF GiveUp, SaveAs, SInv, EInv, IInv, TypeOK
<1>3. rec[w].order <=> rec[w].state = "PAYMENT_PENDING"
  BY <1>1 DEF EffectsFollow, Calling, Backed, Identified, ClaimsOrder, ClaimsCart, States
<1>4. to'[w] \in Follows(rec[w].state)
  BY <1>1, <1>2, <1>3 DEF Calling, Follows
<1>5. /\ rec[w].state = "CART_CREATED" => Operation(w) = "create_order"
      /\ rec[w].state = "PAYMENT_PENDING" => Operation(w) = "execute_payment"
  BY DEF Operation, OperationOf
<1>6. QED
  BY <1>1, <1>2, <1>3, <1>4, <1>5 DEF Calling, Deserved, Blocked, Rejects, Stalls

LEMMA LookupSequential ==
    ASSUME SInv, NEW w \in Threads, Lookup(w)
    PROVE  SequentialInv'
<1>1. /\ pc[w] \in Holding \ {"save"} /\ pc[w] = "lookup"
      /\ UNCHANGED <<services, db, net, cell>>
  BY DEF Lookup, Holding
<1>2. CASE SaveAs(w, StateAfter(Operation(w)))
  <2>1. Deserved(w)' /\ pc'[w] = "save" /\ rec' = rec
    BY <1>1, <1>2, AdvanceDeserves
  <2>2. \A v \in Threads \ {w} : pc'[v] = pc[v]
    BY <1>2 DEF SaveAs, SInv, EInv, IInv, TypeOK
  <2>3. QED BY <1>1, <2>1, <2>2, KeepStep DEF Holding
<1>3. CASE pc' = [pc EXCEPT ![w] = "call"] /\ UNCHANGED <<rec, to, tries>>
  <2>1. pc'[w] = "call" /\ \A v \in Threads \ {w} : pc'[v] = pc[v]
    BY <1>3 DEF SInv, EInv, IInv, TypeOK
  <2>2. Deserved(w)'
    BY <1>1, <1>3, <2>1
       DEF SInv, SequentialInv, Deserved, Operation, Counts, ScenarioOf, services, cell
  <2>3. QED BY <1>1, <1>3, <2>1, <2>2, KeepStep DEF Holding
<1>4. QED BY <1>2, <1>3 DEF Lookup

LEMMA ReconcileSequential ==
    ASSUME SInv, Complete, NEW w \in Threads, Reconcile(w)
    PROVE  SequentialInv'
<1>1. /\ pc[w] = "reconcile" /\ UNCHANGED <<services, db, net, cell>>
      /\ UNCHANGED <<scenario, selected, carts>>
  BY DEF Reconcile, cell, services
<1>2. CASE SaveAs(w, StateAfter(Operation(w)))
  <2>1. Deserved(w)' /\ pc'[w] = "save" /\ rec' = rec
    BY <1>1, <1>2, AdvanceDeserves
  <2>2. \A v \in Threads \ {w} : pc'[v] = pc[v]
    BY <1>2 DEF SaveAs, SInv, EInv, IInv, TypeOK
  <2>3. QED BY <1>1, <2>1, <2>2, KeepStep DEF Holding
<1>3. CASE ~ Inspect(Operation(w), rec[w].key) /\ GiveUp(w)
  <2>1. rec[w] \in Row /\ Pinned(rec[w]) /\ rec[w].tx \in Txs /\ rec[w].key # NoKey
    BY <1>1, AtCall, ServicesAssumption
  <2>2. /\ Operation(w) = "create_order" => orders[rec[w].tx].status = "NONE"
        /\ Operation(w) = "execute_payment" => payments[rec[w].tx] = NoKey
    <3>1. orders[rec[w].tx].status # "NONE" <=> orders[rec[w].tx].key # NoKey
      BY <2>1 DEF SInv, EInv, IInv, IdentityInv, EffectsPinned
    <3>2. QED BY <1>3, <2>1, <3>1, InspectedMine DEF Inspect, SInv
  <2>3. Operation(w) # "create_cart" /\ Blocked(Operation(w), rec[w].tx, scenario)
    BY <1>1, <2>2 DEF SInv, SequentialInv, Deserved
  <2>4. rec[w].state # "STARTED"
    BY <2>3 DEF Operation, OperationOf
  <2>5. Deserved(w)' /\ pc'[w] = "save" /\ rec' = rec
    BY <1>1, <1>3, <2>3, <2>4, GiveUpDeserves
  <2>6. \A v \in Threads \ {w} : pc'[v] = pc[v]
    BY <1>3 DEF GiveUp, SaveAs, SInv, EInv, IInv, TypeOK
  <2>7. QED BY <1>1, <2>5, <2>6, KeepStep DEF Holding
<1>4. QED BY <1>2, <1>3 DEF Reconcile

LEMMA AfterOrderSequential ==
    ASSUME SInv, NEW w \in Threads, NEW r \in Row, AfterOrder(w, r), db[r.key] = r,
           r.state = "ORDER_CREATED", r.key = rec[w].key, pc[w] \in {"reread", "held"},
           UNCHANGED <<services, db, net, cell>>
    PROVE  SequentialInv'
<1>1. pc[w] \in Waiting /\ pc[w] \in Holding /\ pc[w] # "save"
  BY DEF Waiting, Holding
<1>2. CASE /\ ScenarioOf(w) = "f9-orchestrator-interruption-after-order"
           /\ pc' = [pc EXCEPT ![w] = "error"] /\ UNCHANGED <<rec, to, tries>>
  <2>1. /\ pc'[w] = "error" /\ ~ Unbroken
        /\ \A v \in Threads \ {w} : pc'[v] = pc[v] /\ rec'[v] = rec[v]
    BY <1>2 DEF SInv, EInv, IInv, TypeOK, Unbroken, ScenarioOf, NoFailure
  <2>2. QED BY <1>1, <2>1, EndStep DEF Holding
<1>3. CASE Enter(w, r, 3)
  <2>1. StageOf(r.state) >= 3
    BY StageFacts
  <2>2. Unbroken => w \in Executions
    BY <1>1 DEF SInv, SequentialInv, Attentive
  <2>3. QED BY <1>1, <1>3, <2>1, <2>2, EnterSequential
<1>4. QED BY <1>2, <1>3 DEF AfterOrder

LEMMA ReleaseSequential ==
    ASSUME SInv, NEW w \in Threads, Release(w)
    PROVE  SequentialInv'
<1>1. rec[w] \in Row
  BY LocalRow DEF Release, SInv, EInv, IInv, IdentityInv, LocalsPinned, Holding
<1>2. pc[w] = "held" /\ db[rec[w].key] = rec[w] /\ rec[w].state = "ORDER_CREATED"
  BY DEF Release, SInv, AloneInv, Current
<1>3. QED BY <1>1, <1>2, AfterOrderSequential DEF Release

LEMMA RereadSequential ==
    ASSUME SInv, NEW w \in Threads, Reread(w)
    PROVE  SequentialInv'
<1>1. PICK r : r = db[rec[w].key]
  OBVIOUS
<1>2. /\ pc[w] = "reread" /\ pc[w] \in Waiting /\ pc[w] \in Holding \ {"save"}
      /\ rec[w].key \in Keys /\ r \in Row /\ r.key = rec[w].key /\ db[r.key] = r
      /\ r.state = to[w] /\ r.tx \in Txs /\ rec[w] \in Row
  <2>1. rec[w] \in Row /\ db[rec[w].key] # NoRow /\ rec[w].key \in Keys
    BY LocalRow, NoRowFacts DEF Reread, SInv, EInv, IInv, IdentityInv, LocalsPinned, Holding
  <2>2. QED
    BY <1>1, <2>1, ReadPins, NoRowFacts
       DEF Reread, SInv, EInv, AloneInv, Current, Waiting, Holding
<1>3. UNCHANGED <<services, db, net, cell>>
  BY DEF Reread
<1>4. CASE to[w] \in {"CART_CREATED", "PAYMENT_PENDING", "PAYMENT_COMPLETED"}
  <2>1. StageOf(to[w]) \in 1 .. 5 /\ StageOf(r.state) >= StageOf(to[w])
    BY <1>2, <1>4 DEF StageOf
  <2>2. Enter(w, r, StageOf(to[w]))
    BY <1>1, <1>4 DEF Reread, Terminals
  <2>3. Unbroken => w \in Executions
    BY <1>2 DEF SInv, SequentialInv, Attentive
  <2>4. QED BY <1>2, <1>3, <2>1, <2>2, <2>3, EnterSequential
<1>5. CASE to[w] = "ORDER_CREATED" /\ ~ armed[w]
  BY <1>1, <1>2, <1>3, <1>5, AfterOrderSequential DEF Reread, Terminals
<1>6. CASE to[w] = "ORDER_CREATED" /\ armed[w]
  <2>1. /\ rec' = [rec EXCEPT ![w] = r] /\ rec'[w] = r
        /\ pc' = [pc EXCEPT ![w] = "held"] /\ pc'[w] = "held"
    BY <1>1, <1>6 DEF Reread, Terminals, SInv, EInv, IInv, TypeOK
  <2>2. Deserved(w)'
    BY <2>1 DEF Deserved
  <2>3. QED
    BY <1>2, <1>3, <2>1, <2>2, KeepStep DEF Holding, SInv, EInv, IInv, TypeOK
<1>7. CASE to[w] = "COMPENSATING"
  <2>1. /\ tries' = [tries EXCEPT ![w] = 0] /\ tries'[w] = 0
        /\ pc' = [pc EXCEPT ![w] = "cancel"] /\ pc'[w] = "cancel"
        /\ UNCHANGED rec
    BY <1>1, <1>7 DEF Reread, Terminals, SInv, EInv, IInv, TypeOK
  <2>2. Deserved(w)'
    BY <2>1 DEF Deserved
  <2>3. QED
    BY <1>2, <1>3, <2>1, <2>2, KeepStep DEF Holding, SInv, EInv, IInv, TypeOK
<1>8. CASE to[w] \in Terminals
  <2>1. Return(w, r)
    BY <1>1, <1>8 DEF Reread, Terminals
  <2>2. /\ pc'[w] \in {"done", "returned"}
        /\ \A v \in Threads \ {w} : pc'[v] = pc[v] /\ rec'[v] = rec[v]
    BY <2>1 DEF Return, SInv, EInv, IInv, TypeOK
  <2>3. db[rec[w].key].state \in Terminals
    BY <1>1, <1>2, <1>8
  <2>4. QED BY <1>2, <1>3, <2>2, <2>3, EndStep DEF Holding
<1>9. QED BY <1>4, <1>5, <1>6, <1>7, <1>8 DEF Reread

-----------------------------------------------------------------------------

(* A call that is let through leaves its effect                            *)
LEMMA PassedEffect ==
    ASSUME EInv, NEW r \in Row, Pinned(r), NEW sc,
           NEW op \in {"create_cart", "create_order", "execute_payment"},
           Serve(op, r.key, r.tx, sc), Passes(op, r.tx, sc)
    PROVE  /\ op = "create_cart" => carts'[r.tx] = r.key
           /\ op = "create_order" => orders'[r.tx].key = r.key
           /\ op = "execute_payment" => payments'[r.tx] = r.key
<1>1. r.tx \in Txs /\ ServicesTypeOK
  BY NoRowFacts DEF EInv, IInv, TypeOK
<1>2. /\ carts[r.tx] # NoKey => carts[r.tx] = r.key
      /\ orders[r.tx].key # NoKey => orders[r.tx].key = r.key
      /\ payments[r.tx] # NoKey => payments[r.tx] = r.key
      /\ orders[r.tx].status # "NONE" <=> orders[r.tx].key # NoKey
  BY <1>1, InspectedMine DEF EInv, IInv, IdentityInv, EffectsPinned
<1>3. CASE op = "create_cart"
  BY <1>1, <1>2, <1>3 DEF Serve, CreateCart, ServicesTypeOK
<1>4. CASE op = "create_order"
  BY <1>1, <1>2, <1>4 DEF Serve, CreateOrder, ServicesTypeOK
<1>5. CASE op = "execute_payment"
  BY <1>1, <1>2, <1>5 DEF Serve, ExecutePayment, ServicesTypeOK
<1>6. QED BY <1>3, <1>4, <1>5

(* A step of thread w in which a service handles its request               *)
LEMMA ServiceStep ==
    ASSUME SInv, EffectsKept, NEW w \in Threads, pc[w] \in {"call", "cancel"},
           NEW op \in Operations, NEW k \in Keys, NEW t \in Txs, NEW sc,
           Serve(op, k, t, sc), HasRow(k), db[k].tx = t,
           UNCHANGED <<db, net, cell, rec>>, pc'[w] \in Holding,
           \A v \in Threads \ {w} : pc'[v] = pc[v],
           \/ op = "create_cart"
           \/ op = "create_order" /\ db[k].state = "CART_CREATED"
           \/ op = "execute_payment" /\ db[k].state = "PAYMENT_PENDING"
           \/ op = "cancel_order" /\ db[k].state = "COMPENSATING",
           Blocked(op, t, scenario) =>
              \/ Blocked(op, t, sc) \/ op \in {"create_cart", "cancel_order"}
              \/ op = "create_order" /\ Recorded(k, "ORDER_CREATED")'
              \/ op = "execute_payment" /\ Recorded(k, "PAYMENT_COMPLETED")',
           Deserved(w)'
    PROVE  SequentialInv'
<1>1. /\ pc[w] \in Waiting /\ pc[w] \in Holding /\ UNCHANGED <<scenario, configuration>>
      /\ \A v \in Threads \ {w} : pc[v] \notin Waiting
  BY DEF Waiting, Holding, SInv, AloneInv, Sole, cell
<1>2. \A j \in Keys : HasRow(j)' => EffectsFollow(j)'
  BY ServeFollows
<1>3. \A j \in Keys : HasRow(j)' => Unspoiled(j)'
  <2>1. \A j, s : ~ Recorded(j, s)
    BY <1>1 DEF Recorded, Waiting
  <2>2. QED BY <1>1, <2>1, ServeUnspoiled
<1>4. \A m \in net' : Harmless(m)'
  <2>1. KeepsAway
    BY <1>1 DEF KeepsAway, Holding, Waiting
  <2>2. UNCHANGED selected
    BY ServeAt DEF SInv, EInv, IInv, TypeOK
  <2>3. QED BY <1>1, <2>1, <2>2, HarmlessStays
<1>5. \A v \in Threads : Deserved(v)'
  BY <1>1 DEF Deserved, Waiting
<1>6. Attentive'
  <2>1. Unbroken => /\ w \in Executions
                    /\ \A j \in Keys : HasRow(j) /\ db[j].state \notin Terminals =>
                          rec[w].key = j
    BY <1>1, Mine DEF SInv, SequentialInv, Attentive
  <2>2. QED BY <1>1, <2>1, AttentiveStep DEF HasRow
<1>7. QED BY <1>1, <1>2, <1>3, <1>4, <1>5, <1>6 DEF SInv, SequentialInv

LEMMA CallDeserves ==
    ASSUME MaxAttempts >= 3, SInv, IInv', Complete, NEW w \in Threads, Call(w)
    PROVE  Deserved(w)' /\ pc'[w] \in Holding /\ rec' = rec
<1> DEFINE op == Operation(w)
           t == rec[w].tx
           sc == ScenarioOf(w)
           reply == Reply(op, t, sc)
<1>1. /\ rec[w] \in Row /\ Pinned(rec[w]) /\ rec[w].state \in Calling
      /\ rec[w].key \in Keys /\ t \in Txs /\ rec[w].key # NoKey
      /\ db[rec[w].key] = rec[w] /\ op \in {"create_cart", "create_order", "execute_payment"}
      /\ op \in Operations /\ pc[w] = "call"
  BY AtCall, OperationFacts, ServicesAssumption DEF Call
<1>2. /\ Serve(op, rec[w].key, t, sc) /\ UNCHANGED <<db, cell>> /\ UNCHANGED scenario
      /\ UNCHANGED selected
  <2>1. Serve(op, rec[w].key, t, sc) /\ UNCHANGED <<db, cell>>
    BY DEF Call
  <2>2. QED BY <1>1, <2>1, ServeAt DEF cell, SInv, EInv, IInv, TypeOK
<1>3. CASE reply = "ok"
  <2>1. SaveAs(w, StateAfter(op))
    BY <1>3 DEF Call
  <2>2. QED BY <1>1, <1>2, <2>1, AdvanceDeserves DEF Holding
<1>4. CASE reply # "ok"
  <2>1. AttemptFails(w, reply) /\ Retries(w) /\ Reconciles(w) /\ rec' = rec
    BY <1>4, Mechanisms, AttemptFailsFacts DEF Call, SInv, EInv, IInv
  <2>2. /\ reply \in {"http500", "http503", "timeout"}
        /\ reply = "http500" => Blocked(op, t, scenario)
        /\ reply = "timeout" => Blocked(op, t, scenario) \/ Passes(op, t, sc)
        /\ reply = "http503" => /\ op = "execute_payment" /\ Counts(op, t, sc)
                                /\ attempts[op][t] + 1 <= 2
        /\ op = "execute_payment" /\ Counts(op, t, sc) => reply \in {"ok", "http503"}
    <3>1. /\ reply \in {"ok", "http500", "http503", "timeout"}
          /\ reply = "http500" => Blocked(op, t, sc)
          /\ reply = "timeout" => Blocked(op, t, sc) \/ Passes(op, t, sc)
          /\ reply = "http503" => /\ op = "execute_payment" /\ Counts(op, t, sc)
                                  /\ attempts[op][t] + 1 <= 2
          /\ op = "execute_payment" /\ Counts(op, t, sc) => reply \in {"ok", "http503"}
      BY <1>1, ReplyFacts
    <3>2. Blocked(op, t, sc) => Blocked(op, t, scenario)
      BY BlockedFacts
    <3>3. QED BY <1>4, <3>1, <3>2
  <2>3. op = "execute_payment" /\ Counts(op, t, sc) =>
           /\ tries[w] <= attempts[op][t] /\ attempts[op][t] + 1 <= 2
           /\ attempts'[op][t] = attempts[op][t] + 1
           /\ tries[w] \in Nat /\ attempts[op][t] \in Nat
    <3> SUFFICES ASSUME op = "execute_payment", Counts(op, t, sc)
                 PROVE  /\ tries[w] <= attempts[op][t] /\ attempts[op][t] + 1 <= 2
                        /\ attempts'[op][t] = attempts[op][t] + 1
                        /\ tries[w] \in Nat /\ attempts[op][t] \in Nat
      OBVIOUS
    <3>1. op \in CountedOperations /\ attempts[op][t] + 1 <= 2
      BY <1>4, <2>2 DEF CountedOperations
    <3>2. attempts[op][t] \in 0 .. 3 /\ tries[w] \in Nat
      BY <1>1, <3>1, OrchestratorAssumption
         DEF SInv, EInv, IInv, TypeOK, ServicesTypeOK, AttemptsCap
    <3>3. attempts[op][t] < AttemptsCap
      BY <3>1, <3>2 DEF AttemptsCap
    <3>4. attempts'[op][t] = attempts[op][t] + 1
      BY <1>1, <1>2, <3>1, <3>3, ServeCounts DEF SInv, EInv, IInv, TypeOK
    <3>5. tries[w] <= attempts[op][t]
      BY <1>1 DEF SInv, SequentialInv, Deserved
    <3>6. QED BY <3>1, <3>2, <3>4, <3>5
  <2>4. CASE /\ tries' = [tries EXCEPT ![w] = @ + 1]
             /\ pc' = [pc EXCEPT ![w] = Attempt(w)]
    <3>1. pc'[w] \in {"lookup", "call"} /\ tries'[w] = tries[w] + 1
      BY <2>4 DEF Attempt, SInv, EInv, IInv, TypeOK
    <3>2. op = "execute_payment" /\ Counts(op, t, sc) => tries'[w] <= attempts'[op][t]
      BY <2>3, <3>1
    <3>3. QED
      BY <1>2, <2>1, <3>1, <3>2 DEF Deserved, Operation, Counts, ScenarioOf, Holding
  <2>5. CASE ReconcilesAfter(w, reply) /\ pc' = [pc EXCEPT ![w] = "reconcile"]
    <3>1. pc'[w] = "reconcile" /\ reply = "timeout" /\ op # "create_cart"
      BY <2>5 DEF ReconcilesAfter, SInv, EInv, IInv, TypeOK
    <3>2. \/ op = "create_order" /\ orders'[t].status # "NONE"
          \/ op = "execute_payment" /\ payments'[t] # NoKey
          \/ Blocked(op, t, scenario)
      <4>1. orders'[t].status # "NONE" <=> orders'[t].key # NoKey
        BY <1>1 DEF IInv, IdentityInv, EffectsPinned
      <4>2. Passes(op, t, sc) => /\ op = "create_order" => orders'[t].key = rec[w].key
                                 /\ op = "execute_payment" => payments'[t] = rec[w].key
        BY <1>1, <1>2, PassedEffect DEF SInv
      <4>3. QED BY <1>1, <2>2, <3>1, <4>1, <4>2
    <3>3. QED
      BY <1>2, <2>1, <3>1, <3>2 DEF Deserved, Operation, Blocked, Rejects, Stalls, Holding
  <2>6. CASE ~ RetriesAfter(w, reply) /\ ~ ReconcilesAfter(w, reply) /\ GiveUp(w)
    <3>1. reply = "timeout" => op = "create_cart"
      BY <2>1, <2>6 DEF ReconcilesAfter
    <3>2. reply # "http503"
      <4>1. ASSUME reply = "http503" PROVE tries[w] + 1 < MaxAttempts
        BY <2>2, <2>3, <4>1, OrchestratorAssumption
      <4>2. QED BY <2>1, <2>6, <4>1 DEF RetriesAfter, Transient
    <3>3. rec[w].state = "STARTED" <=> op = "create_cart"
      BY DEF Operation, OperationOf
    <3>4. op = "create_cart" /\ Passes(op, t, sc) => carts'[t] # NoKey
      BY <1>1, <1>2, PassedEffect DEF SInv
    <3>5. QED
      BY <1>1, <1>2, <2>2, <2>6, <3>1, <3>2, <3>3, <3>4, GiveUpDeserves DEF Holding
  <2>7. QED BY <2>1, <2>4, <2>5, <2>6 DEF AttemptFails
<1>5. QED BY <1>3, <1>4

LEMMA CallSequential ==
    ASSUME MaxAttempts >= 3, SInv, IInv', Complete, NEW w \in Threads, Call(w)
    PROVE  SequentialInv'
<1> DEFINE op == Operation(w)
           k == rec[w].key
           t == rec[w].tx
           sc == ScenarioOf(w)
<1>1. /\ rec[w] \in Row /\ Pinned(rec[w]) /\ rec[w].state \in Calling
      /\ k \in Keys /\ t \in Txs /\ db[k] = rec[w] /\ HasRow(k)
      /\ op \in {"create_cart", "create_order", "execute_payment"}
      /\ op \in Operations /\ pc[w] = "call"
  BY AtCall, OperationFacts DEF Call
<1>2. Serve(op, k, t, sc) /\ UNCHANGED <<db, net, cell>>
  BY DEF Call
<1>3. Deserved(w)' /\ pc'[w] \in Holding /\ rec' = rec
  BY CallDeserves
<1>4. \A v \in Threads \ {w} : pc'[v] = pc[v]
  BY AttemptFailsFacts DEF Call, SaveAs, SInv, EInv, IInv, TypeOK
<1>5. /\ op = "create_order" => db[k].state = "CART_CREATED"
      /\ op = "execute_payment" => db[k].state = "PAYMENT_PENDING"
  BY <1>1 DEF Operation, OperationOf, Calling
<1>6. ASSUME Blocked(op, t, scenario), ~ Blocked(op, t, sc)
      PROVE  /\ op = "create_order" => Recorded(k, "ORDER_CREATED")'
             /\ op = "execute_payment" => Recorded(k, "PAYMENT_COMPLETED")'
  <2>1. w \notin Executions /\ sc = NoFailure
    BY <1>6 DEF ScenarioOf
  <2>2. SaveAs(w, StateAfter(op))
    BY <1>1, <2>1, RepliesOk DEF Call
  <2>3. pc'[w] = "save" /\ to'[w] = StateAfter(op)
    BY <2>2 DEF SaveAs, SInv, EInv, IInv, TypeOK
  <2>4. QED BY <1>3, <2>1, <2>3 DEF Recorded, StateAfter
<1>7. EffectsKept
  BY CallKeeps DEF SInv, EInv
<1>8. QED BY <1>1, <1>2, <1>3, <1>4, <1>5, <1>6, <1>7, ServiceStep

LEMMA CancelSequential ==
    ASSUME MaxAttempts >= 3, SInv, NEW w \in Threads, Cancel(w)
    PROVE  SequentialInv'
<1> DEFINE k == rec[w].key
           t == rec[w].tx
           sc == ScenarioOf(w)
<1>1. /\ pc[w] = "cancel" /\ rec[w] \in Row /\ comp[w] = Compensated(w)
      /\ db[k] = Compensated(w) /\ k \in Keys /\ t \in Txs
  BY LocalRow, NoRowFacts
     DEF Cancel, SInv, EInv, IInv, IdentityInv, LocalsPinned, Holding, AloneInv, Current
<1>2. /\ comp[w].tx = t /\ comp[w].key = k /\ comp[w].state = "COMPENSATING"
      /\ db[k].tx = t /\ db[k].state = "COMPENSATING" /\ HasRow(k)
  BY <1>1 DEF Compensated, Row, HasRow
<1>3. comp[w].order /\ orders[t].status # "NONE"
  <2>1. Backed(comp[w])
    BY <1>2, LocalBacked DEF SInv
  <2>2. comp[w].order /\ orders[t].key = k
    BY <1>2, <2>1 DEF Backed, Identified, ClaimsOrder, ClaimsCart, States
  <2>3. QED
    BY <1>1, <2>2, ServicesAssumption DEF SInv, EInv, IInv, IdentityInv, EffectsPinned
<1>4. /\ CancelOrder(t, sc) /\ UNCHANGED <<db, net, cell, comp>>
      /\ Serve("cancel_order", k, t, sc) /\ UNCHANGED scenario
      /\ IF Reply("cancel_order", t, sc) = "ok" THEN SaveAs(w, "COMPENSATED") ELSE CancelFails(w)
  BY <1>2, <1>3 DEF Cancel, Serve, cell
<1>5. Reply("cancel_order", t, sc) = "ok" \/ Unavailable("cancel_order", t, sc)
  BY <1>3 DEF Reply, Rejects, Stalls, InjectedError, InjectedLoss
<1>6. CASE Reply("cancel_order", t, sc) = "ok"
  <2>1. pc'[w] = "save" /\ to'[w] = "COMPENSATED" /\ UNCHANGED rec
    BY <1>4, <1>6 DEF SaveAs, SInv, EInv, IInv, TypeOK
  <2>2. Deserved(w)'
    BY <1>2, <1>4, <2>1 DEF Deserved, Follows
  <2>3. \A v \in Threads \ {w} : pc'[v] = pc[v]
    BY <1>4, <1>6 DEF SaveAs, SInv, EInv, IInv, TypeOK
  <2>4. EffectsKept
    BY CallKeeps DEF SInv, EInv
  <2>5. QED
    BY <1>1, <1>2, <1>4, <2>1, <2>2, <2>3, <2>4, ServiceStep DEF Operations, Holding
<1>7. CASE Unavailable("cancel_order", t, sc) /\ Reply("cancel_order", t, sc) # "ok"
  <2>1. /\ Counts("cancel_order", t, sc) /\ attempts["cancel_order"][t] + 1 <= 1
        /\ attempts["cancel_order"][t] \in 0 .. 3 /\ "cancel_order" \in CountedOperations
    BY <1>1, <1>7
       DEF Unavailable, FailingAttempts, SInv, EInv, IInv, TypeOK, ServicesTypeOK,
           CountedOperations, AttemptsCap
  <2>2. tries[w] = 0
    BY <1>1, <2>1 DEF SInv, SequentialInv, Deserved
  <2>3. attempts'["cancel_order"][t] >= 1
    <3>1. attempts["cancel_order"][t] < AttemptsCap
      BY <2>1 DEF AttemptsCap
    <3>2. attempts'["cancel_order"][t] = attempts["cancel_order"][t] + 1
      BY <1>1, <1>4, <2>1, <3>1, ServeCounts DEF SInv, EInv, IInv, TypeOK, Operations
    <3>3. QED BY <2>1, <3>2
  <2>4. UNCHANGED <<pc, rec, to>>
    <3>1. tries[w] + 1 < MaxAttempts /\ ~ tries[w] + 1 >= MaxAttempts
      BY <2>2, OrchestratorAssumption
    <3>2. QED BY <1>4, <1>7, <3>1 DEF CancelFails
  <2>5. Deserved(w)'
    BY <1>1, <2>3, <2>4 DEF Deserved
  <2>6. EffectsKept
    BY CallKeeps DEF SInv, EInv
  <2>7. QED
    BY <1>1, <1>2, <1>4, <2>4, <2>5, <2>6, ServiceStep DEF Operations, Holding
<1>8. QED BY <1>5, <1>6, <1>7

-----------------------------------------------------------------------------

(* What thread w writes, and where                                         *)
LEMMA SaveFacts ==
    ASSUME SInv, NEW w \in Threads, Save(w)
    PROVE  /\ rec[w] \in Row /\ rec[w].key \in Keys /\ HasRow(rec[w].key)
           /\ db[rec[w].key].tx = rec[w].tx /\ rec[w].tx \in Txs
           /\ db'[rec[w].key].state = to[w] /\ db'[rec[w].key].tx = rec[w].tx
           /\ \A j \in Keys \ {rec[w].key} : db'[j] = db[j]
           /\ to[w] = "CART_CREATED" => db'[rec[w].key].order = db[rec[w].key].order
           /\ to[w] \in States /\ to[w] \in Follows(db[rec[w].key].state)
           /\ UNCHANGED <<services, net, cell, rec, to>> /\ pc[w] = "save" /\ pc'[w] = "reread"
           /\ \A v \in Threads \ {w} : pc[v] \notin Waiting /\ pc'[v] = pc[v]
<1> DEFINE r == Outgoing(w)
           k == rec[w].key
<1>1. /\ pc[w] = "save" /\ r \in Row /\ Pinned(r) /\ r.state = to[w] /\ to[w] \in States
      /\ rec[w] \in Row /\ Pinned(rec[w]) /\ k \in Keys /\ rec[w].tx \in Txs
  BY OutgoingFacts, LocalRow, NoRowFacts
     DEF Save, SInv, EInv, IInv, IdentityInv, LocalsPinned, Holding
<1>2. /\ r.key = k /\ r.tx = rec[w].tx
      /\ to[w] = "CART_CREATED" => r.order = db[k].order
  BY <1>1 DEF Outgoing, Compensated, Current, SInv, AloneInv, Row
<1>3. /\ db'[k] = r /\ \A j \in Keys \ {k} : db'[j] = db[j]
  <2>1. db' = [j \in Keys |-> IF db[j].tx = r.tx THEN [r EXCEPT !.key = j] ELSE db[j]]
    BY DEF Save
  <2>2. \A j \in Keys : db[j].tx = r.tx <=> j = k
    BY <1>1, <1>2 DEF Pinned, SInv, EInv, IInv, IdentityInv
  <2>3. [r EXCEPT !.key = k] = r
    BY <1>1, <1>2 DEF Row
  <2>4. QED BY <1>1, <2>1, <2>2, <2>3
<1>4. to[w] \in Follows(db[k].state)
  BY <1>1 DEF SInv, SequentialInv, Deserved
<1>5. /\ UNCHANGED <<services, net, cell, rec, to>> /\ pc'[w] = "reread"
      /\ \A v \in Threads \ {w} : pc[v] \notin Waiting /\ pc'[v] = pc[v]
  BY <1>1 DEF Save, SInv, EInv, IInv, TypeOK, AloneInv, Sole, Waiting
<1>6. QED BY <1>1, <1>2, <1>3, <1>4, <1>5 DEF Pinned

LEMMA SaveSequential ==
    ASSUME SInv, NEW w \in Threads, Save(w)
    PROVE  SequentialInv'
<1> DEFINE k == rec[w].key
           t == rec[w].tx
           s == db[k].state
<1>1. /\ rec[w] \in Row /\ k \in Keys /\ HasRow(k) /\ db[k].tx = t /\ t \in Txs
      /\ db'[k].state = to[w] /\ db'[k].tx = t
      /\ \A j \in Keys \ {k} : db'[j] = db[j]
      /\ to[w] = "CART_CREATED" => db'[k].order = db[k].order
      /\ to[w] \in States /\ to[w] \in Follows(s)
      /\ UNCHANGED <<services, net, cell, rec, to>> /\ pc[w] = "save" /\ pc'[w] = "reread"
      /\ \A v \in Threads \ {w} : pc[v] \notin Waiting /\ pc'[v] = pc[v]
  BY SaveFacts
<1>2. /\ UNCHANGED <<carts, orders, payments, selected, configuration, scenario>>
      /\ EffectsFollow(k) /\ Unspoiled(k) /\ Deserved(w)
      /\ to[w] # "NONE"
  BY <1>1, NoRowFacts DEF services, cell, SInv, SequentialInv
<1>3. \A j \in Keys : \A st : Recorded(j, st) => j = k /\ st = to[w]
  BY <1>1 DEF Recorded, Waiting
<1>4. /\ to[w] = "FAILED" => orders[t].status = "NONE"
      /\ to[w] = "COMPENSATING" => payments[t] = NoKey /\ Blocked("execute_payment", t, scenario)
  <2>1. to[w] = "FAILED" /\ s = "STARTED" => orders[t].status = "NONE"
    BY <1>1, <1>2 DEF EffectsFollow
  <2>2. to[w] = "FAILED" /\ s # "STARTED" => orders[t].status = "NONE"
    BY <1>1, <1>2, <1>3 DEF Deserved, Unspoiled
  <2>3. to[w] = "COMPENSATING" => s = "PAYMENT_PENDING" /\ Blocked("execute_payment", t, scenario)
    BY <1>1, <1>2 DEF Deserved, Follows
  <2>4. to[w] = "COMPENSATING" => payments[t] = NoKey
    BY <1>1, <1>2, <1>3, <2>3 DEF Unspoiled
  <2>5. QED BY <2>1, <2>2, <2>3, <2>4
<1>5. EffectsFollow(k)'
  <2>1. s \in {"STARTED", "CART_CREATED", "ORDER_CREATED", "PAYMENT_PENDING",
               "PAYMENT_COMPLETED", "COMPENSATING"}
    BY <1>1 DEF Follows
  <2>2. QED BY <1>1, <1>2, <1>4, <2>1 DEF EffectsFollow, Follows
<1>6. Unspoiled(k)'
  <2>1. to[w] = "CART_CREATED" => s = "STARTED"
    BY <1>1 DEF Follows
  <2>2. to[w] = "PAYMENT_PENDING" => s = "ORDER_CREATED"
    BY <1>1 DEF Follows
  <2>3. QED BY <1>1, <1>2, <2>1, <2>2 DEF EffectsFollow, Unspoiled
<1>7. \A j \in Keys : HasRow(j)' => EffectsFollow(j)' /\ Unspoiled(j)'
  <2> SUFFICES ASSUME NEW j \in Keys \ {k}, HasRow(j) PROVE EffectsFollow(j)' /\ Unspoiled(j)'
    BY <1>1, <1>5, <1>6 DEF HasRow
  <2>1. EffectsFollow(j) /\ Unspoiled(j) /\ db'[j] = db[j] /\ \A st : ~ Recorded(j, st)
    BY <1>1, <1>3 DEF SInv, SequentialInv
  <2>2. EffectsFollow(j)'
    BY <1>2, <2>1 DEF EffectsFollow
  <2>3. Unspoiled(j)'
    BY <1>2, <2>1 DEF Unspoiled, Blocked, Rejects, Stalls
  <2>4. QED BY <2>2, <2>3
<1>8. \A m \in net' : Harmless(m)'
  <2> SUFFICES ASSUME NEW m \in net PROVE Harmless(m)'
    BY <1>1
  <2>1. Harmless(m) /\ m.key \in Keys /\ HasRow(m.key) /\ db[m.key].tx = m.tx
    BY DEF SInv, SequentialInv, EInv, IInv, TypeOK, Message, IdentityInv, EffectsPinned
  <2>2. \A v \in Threads : pc'[v] \in Holding => pc[v] \in Holding /\ rec'[v] = rec[v]
    BY <1>1 DEF Holding
  <2>3. CASE m.key # k
    BY <1>1, <1>2, <2>1, <2>2, <2>3 DEF Harmless, Blocked, Rejects, Stalls
  <2>4. CASE m.key = k
    <3>1. m.tx = t /\ m.op # "cancel_order" /\ m.op \in Operations
      BY <1>1, <2>1, <2>4 DEF Harmless, Holding, SInv, EInv, IInv, TypeOK, Message
    <3>2. m.op = "create_cart" /\ to[w] = "FAILED" =>
             carts[t] # NoKey \/ Blocked("create_cart", t, scenario)
      <4>1. s = "CART_CREATED" => carts[t] # NoKey
        <5>1. s = "CART_CREATED" => Backed(db[k]) /\ k # NoKey /\ db[k].key = k
          BY <1>1, ServicesAssumption DEF SInv, EInv, EvidenceInv, IInv, IdentityInv
        <5>2. QED BY <1>1, <5>1 DEF Backed, Identified, ClaimsCart, States
      <4>2. QED BY <1>1, <1>2, <4>1 DEF Deserved
    <3>3. m.op = "create_order" => /\ to[w] # "STARTED"
                                   /\ to[w] = "FAILED" => Blocked("create_order", t, scenario)
      BY <1>1, <1>2, <2>1, <2>4, <3>1 DEF Harmless, Deserved, Follows
    <3>4. m.op = "execute_payment" =>
             \/ to[w] \in {"PAYMENT_PENDING", "PAYMENT_COMPLETED", "COMPLETED"}
             \/ /\ to[w] \in {"COMPENSATING", "COMPENSATED"}
                /\ Blocked("execute_payment", t, scenario)
      BY <1>1, <1>2, <1>4, <2>1, <2>4, <3>1 DEF Harmless, Follows
    <3>5. Blocked(m.op, t, scenario) => Blocked(m.op, t, m.sc)
      BY <2>1, <3>1 DEF Harmless
    <3>6. QED
      BY <1>1, <1>2, <2>4, <3>1, <3>2, <3>3, <3>4, <3>5 DEF Harmless, Blocked, Rejects, Stalls
  <2>5. QED BY <2>3, <2>4
<1>9. \A v \in Threads : Deserved(v)'
  BY <1>1 DEF Deserved, Waiting
<1>10. Attentive'
  <2>1. Unbroken => /\ w \in Executions
                    /\ \A j \in Keys : HasRow(j)' /\ db'[j].state \notin Terminals => j = k
    BY <1>1, Mine DEF SInv, SequentialInv, Attentive, Holding, HasRow
  <2>2. QED BY <1>1, <2>1, AttentiveStep DEF Holding
<1>11. QED BY <1>2, <1>7, <1>8, <1>9, <1>10 DEF SInv, SequentialInv

LEMMA InsertSequential ==
    ASSUME SInv, NEW w \in Threads, Insert(w)
    PROVE  SequentialInv'
<1> DEFINE k == rec[w].key
           t == rec[w].tx
           r == [rec[w] EXCEPT !.state = "STARTED"]
<1>1. /\ pc[w] = "insert" /\ pc[w] \in Waiting /\ k \in Keys /\ t \in Txs
      /\ rec[w] \in Blank /\ db[k] = NoRow
      /\ UNCHANGED <<services, net, cell, rec>> /\ pc'[w] = "created"
      /\ \A v \in Threads \ {w} : pc'[v] = pc[v]
  <2>1. db[k] = NoRow /\ k \in Keys /\ t \in Txs /\ rec[w] \in Row \cup Blank
    BY DEF Insert, SInv, EInv, IInv, TypeOK, IdentityInv, LocalsPinned, AloneInv, Current
  <2>2. rec[w] \notin Row
    <3>1. rec[w] \in Row => rec[w].state # "NONE"
      BY NoRowFacts
    <3>2. rec[w].state # "NONE" => HasRow(k)
      BY DEF SInv, EInv, IInv, IdentityInv, LocalsPinned, Pinned
    <3>3. QED BY <2>1, <3>1, <3>2, NoRowFacts DEF HasRow
  <2>3. QED
    BY <2>1, <2>2 DEF Insert, SInv, EInv, IInv, TypeOK, Waiting
<1>2. \A v \in Threads \ {w} : pc[v] \notin Waiting
  BY <1>1 DEF SInv, AloneInv, Sole
<1>3. CASE UNCHANGED db
  <2>1. Unbroken => \A j \in Keys : HasRow(j) => db[j].state \in Terminals
    BY <1>1, <1>2, Mine DEF Holding
  <2>2. Deserved(w)'
    BY <1>1 DEF Deserved
  <2>3. QED BY <1>1, <1>2, <1>3, <2>1, <2>2, QuietStep DEF Holding
<1>4. CASE (\A j \in Keys : db[j].tx # t) /\ db' = [db EXCEPT ![k] = r]
  <2>1. /\ db'[k] = r /\ r.state = "STARTED" /\ r.tx = t /\ r.order = FALSE
        /\ \A j \in Keys \ {k} : db'[j] = db[j]
    BY <1>1, <1>4 DEF SInv, EInv, IInv, TypeOK, Blank, NoRow, Unsaved
  <2>2. /\ UNCHANGED <<carts, orders, payments, selected, configuration, scenario>>
        /\ orders[t].status = "NONE" /\ payments[t] = NoKey
    <3>1. UNCHANGED <<carts, orders, payments, selected, configuration, scenario>>
      BY <1>1 DEF services, cell
    <3>2. EffectsPinned /\ orders[t].key \in Keys \cup {NoKey} /\ payments[t] \in Keys \cup {NoKey}
      BY <1>1 DEF SInv, EInv, IInv, TypeOK, ServicesTypeOK, OrderRow, IdentityInv
    <3>3. orders[t].key = NoKey /\ payments[t] = NoKey
      BY <1>1, <1>4, <3>2 DEF EffectsPinned
    <3>4. orders[t].status = "NONE"
      BY <1>1, <3>2, <3>3 DEF EffectsPinned
    <3>5. QED BY <3>1, <3>3, <3>4
  <2>3. \A j \in Keys : \A st : ~ Recorded(j, st)
    BY <1>1, <1>2 DEF Recorded, Waiting
  <2>4. \A j \in Keys : HasRow(j)' => EffectsFollow(j)' /\ Unspoiled(j)'
    <3>1. EffectsFollow(k)' /\ Unspoiled(k)'
      <4>1. db'[k].state = "STARTED" /\ db'[k].tx = t /\ ~ db'[k].order
        BY <2>1
      <4>2. orders'[t].status = "NONE" /\ payments'[t] = NoKey
        BY <2>2
      <4>3. EffectsFollow(k)'
        BY <1>1, <4>1, <4>2 DEF EffectsFollow
      <4>4. Unspoiled(k)'
        BY <1>1, <4>1 DEF Unspoiled
      <4>5. QED BY <4>3, <4>4
    <3>2. ASSUME NEW j \in Keys \ {k}, HasRow(j) PROVE EffectsFollow(j)' /\ Unspoiled(j)'
      <4>1. EffectsFollow(j) /\ Unspoiled(j) /\ db'[j] = db[j]
        BY <2>1, <3>2 DEF SInv, SequentialInv
      <4>2. EffectsFollow(j)'
        BY <2>2, <4>1 DEF EffectsFollow
      <4>3. Unspoiled(j)'
        BY <2>2, <2>3, <4>1 DEF Unspoiled, Blocked, Rejects, Stalls
      <4>4. QED BY <4>2, <4>3
    <3>3. \A j \in Keys \ {k} : HasRow(j)' => HasRow(j)
      BY <2>1 DEF HasRow
    <3>4. QED BY <1>1, <3>1, <3>2, <3>3
  <2>5. \A m \in net' : Harmless(m)'
    <3> SUFFICES ASSUME NEW m \in net PROVE Harmless(m)'
      BY <1>1
    <3>1. Harmless(m) /\ m.key \in Keys /\ HasRow(m.key) /\ m.key # k
      BY <1>1, NoRowFacts
         DEF SInv, SequentialInv, EInv, IInv, TypeOK, Message, IdentityInv, EffectsPinned, HasRow
    <3>2. \A v \in Threads : pc'[v] \in Holding => pc[v] \in Holding /\ rec'[v] = rec[v]
      BY <1>1 DEF Holding
    <3>3. QED BY <2>1, <2>2, <3>1, <3>2 DEF Harmless, Blocked, Rejects, Stalls
  <2>6. \A v \in Threads : Deserved(v)'
    BY <1>1, <1>2 DEF Deserved, Waiting
  <2>7. Attentive'
    <3>1. Unbroken => \A j \in Keys : HasRow(j) => db[j].state \in Terminals
      BY <1>1, <1>2, Mine DEF Holding
    <3>2. Unbroken => \A j \in Keys : HasRow(j)' /\ db'[j].state \notin Terminals => j = k
      BY <2>1, <3>1 DEF HasRow
    <3>3. QED BY <1>1, <1>2, <3>2, AttentiveStep DEF Holding
  <2>8. QED BY <2>2, <2>4, <2>5, <2>6, <2>7 DEF SInv, SequentialInv
<1>5. QED BY <1>3, <1>4 DEF Insert

LEMMA DeliverSequential ==
    ASSUME SInv, NEW m \in net, Deliver(m)
    PROVE  SequentialInv'
<1>1. /\ m.op \in Operations /\ m.key \in Keys /\ m.tx \in Txs /\ HasRow(m.key)
      /\ db[m.key].tx = m.tx /\ Serve(m.op, m.key, m.tx, m.sc) /\ Harmless(m)
      /\ UNCHANGED <<db, cell, pc, rec, comp, to, tries>> /\ net' \subseteq net
      /\ UNCHANGED <<scenario, configuration, crashes>>
  BY DEF Deliver, SInv, EInv, IInv, TypeOK, Message, IdentityInv, EffectsPinned,
         SequentialInv, cell
<1>2. EffectsKept /\ UNCHANGED selected /\ ServicesTypeOK
  BY <1>1, DeliverKeeps, ServeAt DEF SInv, EInv, IInv, TypeOK
<1>3. Blocked(m.op, m.tx, scenario) => Blocked(m.op, m.tx, m.sc)
  BY <1>1 DEF Harmless
<1>4. \A j \in Keys : HasRow(j)' => EffectsFollow(j)'
  <2>1. \/ Blocked(m.op, m.tx, m.sc)
        \/ m.op = "create_cart"
        \/ m.op = "create_order" /\ db[m.key].state \notin {"STARTED", "FAILED"}
        \/ m.op = "execute_payment"
           /\ db[m.key].state \in {"PAYMENT_PENDING", "PAYMENT_COMPLETED", "COMPLETED"}
        \/ m.op = "cancel_order" /\ db[m.key].state = "COMPENSATING"
    BY <1>1, <1>3 DEF Harmless, Operations
  <2>2. QED BY <1>1, <1>2, <2>1, ServeFollows
<1>5. \A j \in Keys : HasRow(j)' => Unspoiled(j)'
  <2>1. \A j, s : Recorded(j, s) => Recorded(j, s)'
    BY <1>1 DEF Recorded
  <2>2. QED BY <1>1, <1>3, <2>1, ServeUnspoiled
<1>6. \A n \in net' : Harmless(n)'
  <2>1. KeepsAway
    BY <1>1 DEF KeepsAway
  <2>2. QED BY <1>1, <1>2, <2>1, HarmlessStays
<1>7. ASSUME NEW w \in Threads PROVE Deserved(w)'
  <2>1. Deserved(w)
    BY DEF SInv, SequentialInv
  <2>2. CASE pc[w] \in {"lookup", "call", "reconcile", "save", "cancel"}
    <3>1. rec[w].tx \in Txs
      BY <2>2, LocalRow, NoRowFacts DEF SInv, EInv, IInv, IdentityInv, LocalsPinned, Holding
    <3>2. /\ carts[rec[w].tx] # NoKey => carts'[rec[w].tx] # NoKey
          /\ orders[rec[w].tx].status # "NONE" => orders'[rec[w].tx].status # "NONE"
          /\ payments[rec[w].tx] # NoKey => payments'[rec[w].tx] # NoKey
      BY <1>2, <3>1 DEF EffectsKept
    <3>3. /\ attempts'["execute_payment"][rec[w].tx] >= attempts["execute_payment"][rec[w].tx]
          /\ attempts'["cancel_order"][rec[w].tx] >= attempts["cancel_order"][rec[w].tx]
          /\ attempts["execute_payment"][rec[w].tx] \in Nat
          /\ attempts["cancel_order"][rec[w].tx] \in Nat
          /\ attempts'["execute_payment"][rec[w].tx] \in Int
          /\ attempts'["cancel_order"][rec[w].tx] \in Int
          /\ tries[w] \in Int
      <4>1. ServicesTypeOK'
        BY <1>1, <1>2, ServeType
      <4>2. tries[w] \in Int
        BY OrchestratorAssumption DEF SInv, EInv, IInv, TypeOK
      <4>3. \A o \in CountedOperations : /\ attempts[o][rec[w].tx] \in 0 .. 3
                                         /\ attempts'[o][rec[w].tx] \in 0 .. 3
        BY <1>2, <3>1, <4>1 DEF ServicesTypeOK, AttemptsCap
      <4>4. \A o \in CountedOperations : attempts'[o][rec[w].tx] >= attempts[o][rec[w].tx]
        BY <1>1, <1>2, <3>1, ServeCounts
      <4>5. "execute_payment" \in CountedOperations /\ "cancel_order" \in CountedOperations
        BY DEF CountedOperations
      <4>6. QED BY <4>2, <4>3, <4>4, <4>5
    <3>4. CASE pc[w] = "cancel"
      BY <1>1, <1>2, <2>1, <3>3, <3>4 DEF Deserved, Counts, ScenarioOf
    <3>5. CASE pc[w] = "save"
      BY <1>1, <1>2, <2>1, <3>2, <3>5 DEF Deserved, Blocked, Rejects, Stalls
    <3>6. CASE pc[w] = "reconcile"
      BY <1>1, <1>2, <2>1, <3>2, <3>6 DEF Deserved, Operation, Blocked, Rejects, Stalls
    <3>7. CASE pc[w] \in {"lookup", "call"}
      BY <1>1, <1>2, <2>1, <3>3, <3>7 DEF Deserved, Operation, Counts, ScenarioOf
    <3>8. QED BY <2>2, <3>4, <3>5, <3>6, <3>7
  <2>3. CASE pc[w] \notin {"lookup", "call", "reconcile", "save", "cancel"}
    BY <1>1, <2>3 DEF Deserved
  <2>4. QED BY <2>2, <2>3
<1>8. Attentive'
  BY <1>1 DEF SInv, SequentialInv, Attentive, Unbroken, HasRow
<1>9. QED BY <1>1, <1>4, <1>5, <1>6, <1>7, <1>8 DEF SInv, SequentialInv

LEMMA CrashSequential ==
    ASSUME MaxCrashes <= 1, SInv, Crash
    PROVE  SequentialInv'
<1>1. PICK sent \in SUBSET UnderWay : net' = net \cup {OutgoingCall(w) : w \in sent}
  BY DEF Crash
<1>2. /\ crashes = 0 /\ crashes' = 1 /\ UNCHANGED <<services, db, configuration, scenario>>
      /\ UNCHANGED <<carts, orders, payments, selected>>
  BY OrchestratorAssumption DEF Crash, SInv, EInv, IInv, TypeOK, services
<1>3. \A w \in Threads : pc'[w] \notin Waiting
  BY DEF Crash, Forget, Active, Waiting
<1>4. \A w \in Threads : pc'[w] \notin Holding /\ Deserved(w)'
  BY <1>3 DEF Waiting, Holding, Deserved
<1>5. ASSUME NEW op, NEW t, Blocked(op, t, scenario)
      PROVE  \A w \in Threads : pc[w] \in Holding => w \in Executions
  <2>1. Unbroken
    BY <1>2, <1>5, BlockedFacts DEF Unbroken
  <2>2. QED BY <2>1 DEF SInv, SequentialInv, Attentive
<1>6. \A k \in Keys : HasRow(k)' => EffectsFollow(k)' /\ Unspoiled(k)'
  <2> SUFFICES ASSUME NEW k \in Keys, HasRow(k) PROVE EffectsFollow(k)' /\ Unspoiled(k)'
    BY <1>2 DEF HasRow
  <2>1. EffectsFollow(k) /\ Unspoiled(k)
    BY DEF SInv, SequentialInv
  <2>2. EffectsFollow(k)'
    BY <1>2, <2>1 DEF EffectsFollow
  <2>3. \A op, t, s : Blocked(op, t, scenario) => ~ Recorded(k, s)
    BY <1>5 DEF Recorded, Holding
  <2>4. Unspoiled(k)'
    BY <1>2, <2>1, <2>3 DEF Unspoiled, Blocked, Rejects, Stalls
  <2>5. QED BY <2>2, <2>4
<1>7. \A m \in net' : Harmless(m)'
  <2>1. ASSUME NEW m \in net PROVE Harmless(m)'
    <3>1. Harmless(m)
      BY <2>1 DEF SInv, SequentialInv
    <3>2. QED BY <1>2, <1>4, <3>1 DEF Harmless, Blocked, Rejects, Stalls
  <2>2. ASSUME NEW w \in sent, NEW m, m = OutgoingCall(w) PROVE Harmless(m)'
    <3>1. w \in Threads /\ (pc[w] = "call" \/ pc[w] = "cancel")
      BY <2>2 DEF UnderWay, Active
    <3>2. m = OutgoingCall(w)
      BY <2>2
    <3>3. Blocked(m.op, m.tx, scenario) => m.sc = scenario
      BY <1>5, <3>1, <3>2, BlockedFacts DEF OutgoingCall, Holding
    <3>4. CASE pc[w] = "call"
      <4>1. rec[w].state \in Calling /\ db[rec[w].key] = rec[w]
        BY <3>1, <3>4, AtCall
      <4>2. m.key = rec[w].key /\ m.op = Operation(w) /\ m.tx = rec[w].tx
        BY <3>2, <3>4 DEF OutgoingCall
      <4>3. QED
        BY <1>2, <3>3, <4>1, <4>2
           DEF Harmless, Calling, Operation, OperationOf, Blocked, Rejects, Stalls
    <3>5. CASE pc[w] = "cancel"
      <4>1. /\ comp[w] = Compensated(w) /\ db[rec[w].key] = Compensated(w) /\ rec[w] \in Row
        BY <3>1, <3>5, LocalRow
           DEF SInv, EInv, IInv, IdentityInv, LocalsPinned, Holding, AloneInv, Current
      <4>2. /\ m.op = "cancel_order" /\ m.key = rec[w].key
            /\ db[m.key].state = "COMPENSATING"
        BY <3>2, <3>5, <4>1 DEF OutgoingCall, Compensated, Row
      <4>3. QED
        BY <1>2, <1>4, <3>3, <4>2 DEF Harmless, Blocked, Rejects, Stalls
    <3>6. QED BY <3>1, <3>4, <3>5
  <2>3. ASSUME NEW m \in net' PROVE Harmless(m)'
    BY <1>1, <2>1, <2>2
  <2>4. QED BY <2>3
<1>8. Attentive'
  BY <1>2 DEF Attentive, Unbroken
<1>9. QED BY <1>2, <1>4, <1>6, <1>7, <1>8 DEF SInv, SequentialInv

LEMMA SequentialNext ==
    ASSUME SequentialRuns, SInv, [Next]_vars
    PROVE  SequentialInv'
<1>1. Complete
  BY DEF SequentialRuns, SInv, SequentialInv, Complete
<1>2. IInv'
  BY NextIInv DEF SInv, EInv
<1>3. ASSUME NEW w \in Threads, Execute(w) \/ RecoverOne(w) \/ Sweep(w) \/ Step(w)
      PROVE  SequentialInv'
  <2>1. ~ LookupLost(w) /\ ~ CallLost(w) /\ ~ ReconcileLost(w) /\ ~ CancelLost(w)
    BY DEF SequentialRuns, LookupLost, CallLost, ReconcileLost, CancelLost
  <2>2. MaxActive = 1 /\ MaxAttempts >= 3
    BY DEF SequentialRuns
  <2>3. CASE Execute(w) \/ RecoverOne(w) \/ Sweep(w) \/ Insert(w) \/ ReadCreated(w)
    BY <2>2, <2>3, ExecuteSequential, RecoverOneSequential, SweepSequential, InsertSequential,
       ReadCreatedSequential
  <2>4. CASE Loop(w) \/ NextRecord(w) \/ Lookup(w) \/ Call(w) \/ Reconcile(w)
    BY <1>1, <1>2, <2>2, <2>4, LoopSequential, NextRecordSequential, LookupSequential,
       CallSequential, ReconcileSequential
  <2>5. CASE Save(w) \/ Reread(w) \/ Release(w) \/ Cancel(w)
    BY <2>2, <2>5, SaveSequential, RereadSequential, ReleaseSequential, CancelSequential
  <2>6. QED BY <1>3, <2>1, <2>3, <2>4, <2>5 DEF Step
<1>4. CASE \E m \in net : Deliver(m)
  BY <1>4, DeliverSequential
<1>5. CASE Crash
  BY <1>5, CrashSequential DEF SequentialRuns
<1>6. CASE UNCHANGED vars
  <2>1. UNCHANGED <<carts, orders, payments, attempts, selected, db, net, configuration,
                    scenario, crashes, pc, rec, comp, to, tries>>
    BY <1>6 DEF vars, services, cell
  <2>2. \A k \in Keys : HasRow(k)' => EffectsFollow(k)' /\ Unspoiled(k)'
    BY <2>1 DEF SInv, SequentialInv, HasRow, EffectsFollow, Unspoiled, Recorded, Blocked,
                Rejects, Stalls
  <2>3. \A m \in net' : Harmless(m)'
    <3>1. ASSUME NEW m \in net PROVE Harmless(m)'
      BY <2>1 DEF SInv, SequentialInv, Harmless, Blocked, Rejects, Stalls
    <3>2. QED BY <2>1, <3>1
  <2>4. \A w \in Threads : Deserved(w)'
    BY <2>1 DEF SInv, SequentialInv, Deserved, Operation, Counts, ScenarioOf, Blocked,
                Rejects, Stalls
  <2>5. Attentive'
    BY <2>1 DEF SInv, SequentialInv, Attentive, Unbroken, HasRow
  <2>6. QED BY <2>1, <2>2, <2>3, <2>4, <2>5 DEF SInv, SequentialInv
<1>7. QED BY <1>3, <1>4, <1>5, <1>6 DEF Next

LEMMA SequentialInit == Init => SequentialInv
<1> SUFFICES ASSUME Init PROVE SequentialInv
  OBVIOUS
<1>1. /\ configuration \in Configurations /\ net = {}
      /\ \A w \in Threads : pc[w] = "idle"
      /\ \A k \in Keys : ~ HasRow(k)
  BY NoRowFacts DEF Init, HasRow
<1>2. \A w \in Threads : Deserved(w)
  BY <1>1 DEF Deserved
<1>3. Attentive
  BY <1>1 DEF Attentive, Holding
<1>4. QED BY <1>1, <1>2, <1>3 DEF SequentialInv

LEMMA SequentialInductive ==
    ASSUME SequentialRuns
    PROVE  Spec => []SInv
<1>1. Init => SInv
  BY InitEInv, AloneInit, SequentialInit DEF SInv
<1>2. SInv /\ [Next]_vars => SInv'
  <2> SUFFICES ASSUME SInv, [Next]_vars PROVE SInv'
    OBVIOUS
  <2>1. EInv' /\ AloneInv'
    BY NextEInv, AloneNext DEF SInv, EInv, LINV, SequentialRuns
  <2>2. SequentialInv'
    BY SequentialNext
  <2>3. QED BY <2>1, <2>2 DEF SInv
<1>3. QED BY <1>1, <1>2, PTL DEF Spec

LEMMA TerminalsAgree ==
    ASSUME SInv
    PROVE  TerminalAgreement
<1> SUFFICES ASSUME NEW k \in Keys, db[k].state \in Terminals PROVE Agrees(db[k])
  BY DEF TerminalAgreement, Agrees, Terminals
<1> DEFINE r == db[k]
<1>1. /\ HasRow(k) /\ r \in Row /\ r.tx \in Txs /\ r.key = k /\ Backed(r) /\ EffectsFollow(k)
      /\ r.state = "COMPENSATED" => orders[r.tx].status = "CANCELLED"
  BY RowTyping, NoRowFacts
     DEF HasRow, Terminals, SInv, EInv, IInv, IdentityInv, EvidenceInv,
         CompensatedMeansCancelled, SequentialInv
<1>2. CASE r.state = "COMPLETED"
  <2>1. orders[r.tx].key = k /\ payments[r.tx] = k
    BY <1>1, <1>2 DEF Backed, Identified, ClaimsOrder, ClaimsCart, ClaimsPayment, States, Terminals
  <2>2. orders[r.tx].status \notin {"NONE", "CANCELLED"}
    BY <1>1, <1>2, <2>1, ServicesAssumption
       DEF EffectsFollow, SInv, EInv, IInv, IdentityInv, EffectsPinned
  <2>3. orders[r.tx].status = "ACTIVE"
    BY <1>1, <2>2 DEF SInv, EInv, IInv, TypeOK, ServicesTypeOK, OrderRow
  <2>4. QED BY <1>2, <2>1, <2>3, ServicesAssumption DEF Agrees
<1>3. CASE r.state = "COMPENSATED"
  BY <1>1, <1>3 DEF Agrees, EffectsFollow
<1>4. CASE r.state = "FAILED"
  BY <1>1, <1>4 DEF Agrees, EffectsFollow
<1>5. QED BY <1>2, <1>3, <1>4 DEF Terminals

(* Record, order and payment agree in every terminal state, under every    *)
(* scenario, whatever is repeated or recovered and wherever the crash      *)
(* falls, for any number of purchases one after the other.                 *)
THEOREM TerminalsAgreeHolds ==
    ASSUME SequentialRuns
    PROVE  Spec => []TerminalAgreement
BY TerminalsAgree, SequentialInductive, PTL

-----------------------------------------------------------------------------
(* A step that changes a row or an effect, and when it comes.              *)

(* The record is still where the request came from, or the request has no  *)
(* effect any more                                                         *)
Timely(op, k, t, sc) ==
    \/ Blocked(op, t, sc)
    \/ op = "create_cart" /\ (db[k].state = "FAILED" => carts[t] # NoKey)
    \/ op = "create_order" /\ db[k].state \notin {"STARTED", "FAILED"}
    \/ op = "execute_payment"
       /\ db[k].state \in {"PAYMENT_PENDING", "PAYMENT_COMPLETED", "COMPLETED"}
    \/ op = "cancel_order" /\ db[k].state = "COMPENSATING"

Served(op, k, t, sc) ==
    /\ Serve(op, k, t, sc) /\ Timely(op, k, t, sc)
    /\ HasRow(k) /\ db[k].tx = t /\ UNCHANGED db

SomeServed == \E op \in Operations, k \in Keys, t \in Txs : \E sc : Served(op, k, t, sc)

LEMMA CallServed ==
    ASSUME SInv, NEW w \in Threads, Call(w)
    PROVE  SomeServed
<1>1. /\ rec[w].state \in Calling /\ rec[w].key \in Keys /\ rec[w].tx \in Txs
      /\ db[rec[w].key] = rec[w] /\ HasRow(rec[w].key) /\ Operation(w) \in Operations
  BY AtCall, OperationFacts DEF Call
<1>2. Timely(Operation(w), rec[w].key, rec[w].tx, ScenarioOf(w))
  BY <1>1 DEF Timely, Operation, OperationOf, Calling
<1>3. Serve(Operation(w), rec[w].key, rec[w].tx, ScenarioOf(w)) /\ UNCHANGED db
  BY DEF Call
<1>4. Served(Operation(w), rec[w].key, rec[w].tx, ScenarioOf(w))
  BY <1>1, <1>2, <1>3 DEF Served
<1>5. QED BY <1>1, <1>4 DEF SomeServed

LEMMA CancelServed ==
    ASSUME SInv, NEW w \in Threads, Cancel(w)
    PROVE  SomeServed \/ UNCHANGED <<services, db>>
<1>1. /\ comp[w] \in Row /\ comp[w].key \in Keys /\ comp[w].tx \in Txs
      /\ comp[w] = Compensated(w) /\ db[rec[w].key] = Compensated(w) /\ rec[w] \in Row
  BY LocalRow, NoRowFacts, Compensating
     DEF Cancel, SInv, EInv, IInv, IdentityInv, LocalsPinned, Holding, AloneInv, Current
<1>2. /\ db[comp[w].key] = comp[w] /\ comp[w].state = "COMPENSATING"
  BY <1>1 DEF Compensated, Row
<1>3. CASE CancelOrder(comp[w].tx, ScenarioOf(w))
  <2>1. Served("cancel_order", comp[w].key, comp[w].tx, ScenarioOf(w))
    BY <1>1, <1>2, <1>3 DEF Served, Serve, Timely, HasRow, Cancel
  <2>2. QED BY <1>1, <2>1 DEF SomeServed, Operations
<1>4. QED BY <1>3 DEF Cancel

LEMMA DeliverServed ==
    ASSUME SInv, NEW m \in net, Deliver(m)
    PROVE  SomeServed
<1>1. /\ m.op \in Operations /\ m.key \in Keys /\ m.tx \in Txs /\ HasRow(m.key)
      /\ db[m.key].tx = m.tx /\ Serve(m.op, m.key, m.tx, m.sc) /\ Harmless(m)
      /\ UNCHANGED db
  BY DEF Deliver, SInv, EInv, IInv, TypeOK, Message, IdentityInv, EffectsPinned, SequentialInv
<1>2. Timely(m.op, m.key, m.tx, m.sc)
  BY <1>1 DEF Timely, Harmless, Operations
<1>3. Served(m.op, m.key, m.tx, m.sc)
  BY <1>1, <1>2 DEF Served
<1>4. QED BY <1>1, <1>3 DEF SomeServed

LEMMA StepKinds ==
    ASSUME SInv, [Next]_vars
    PROVE  \/ UNCHANGED <<services, db>>
           \/ SomeServed
           \/ \E w \in Threads : Insert(w) \/ Save(w)
<1>1. ASSUME NEW w \in Threads, Execute(w) \/ RecoverOne(w) \/ Sweep(w) \/ Step(w)
      PROVE  UNCHANGED <<services, db>> \/ SomeServed \/ Insert(w) \/ Save(w)
  <2>1. CASE Call(w) \/ Cancel(w)
    BY <2>1, CallServed, CancelServed
  <2>2. CASE ~ (Call(w) \/ Cancel(w))
    BY <1>1, <2>2
       DEF Step, Execute, RecoverOne, Sweep, ReadCreated, Loop, NextRecord, Lookup,
           LookupLost, CallLost, Reconcile, ReconcileLost, Reread, Release, CancelLost
  <2>3. QED BY <2>1, <2>2
<1>2. CASE Crash \/ UNCHANGED vars
  BY <1>2 DEF Crash, vars
<1>3. QED BY <1>1, <1>2, DeliverServed DEF Next

(* A request that comes for a closed purchase changes nothing              *)
LEMMA ClosedServed ==
    ASSUME SInv, NEW op \in Operations, NEW k \in Keys, NEW t \in Txs, NEW sc,
           Served(op, k, t, sc), db[k].state \in Terminals
    PROVE  UNCHANGED <<carts, orders, payments>>
<1> DEFINE r == db[k]
<1>1. /\ r \in Row /\ r.key = k /\ r.tx = t /\ Backed(r) /\ k # NoKey /\ ServicesTypeOK
      /\ orders[t].key # NoKey => orders[t].status # "NONE"
  BY RowTyping, NoRowFacts, ServicesAssumption
     DEF Served, SInv, EInv, EvidenceInv, IInv, TypeOK, IdentityInv, EffectsPinned
<1>2. /\ r.state # "FAILED" => carts[t] # NoKey /\ orders[t].status # "NONE"
      /\ r.state = "COMPLETED" => payments[t] # NoKey
  BY <1>1 DEF Backed, Identified, ClaimsCart, ClaimsOrder, ClaimsPayment, States, Terminals
<1>3. Serve(op, k, t, sc) /\ Timely(op, k, t, sc)
  BY DEF Served
<1>4. CASE Blocked(op, t, sc)
  BY <1>1, <1>3, <1>4, ServeAt
<1>5. CASE op = "create_cart" /\ carts[t] # NoKey
  BY <1>1, <1>3, <1>5 DEF Serve, CreateCart
<1>6. CASE op = "create_order" /\ orders[t].status # "NONE"
  BY <1>1, <1>3, <1>6 DEF Serve, CreateOrder
<1>7. CASE op = "execute_payment" /\ payments[t] # NoKey
  BY <1>1, <1>3, <1>7 DEF Serve, ExecutePayment
<1>8. QED BY <1>2, <1>3, <1>4, <1>5, <1>6, <1>7 DEF Timely, Terminals

LEMMA FinalStep ==
    ASSUME SInv, [Next]_vars, NEW k \in Keys, db[k].state \in Terminals,
           NEW t \in Txs, t = db[k].tx
    PROVE  db'[k] = db[k] /\ carts'[t] = carts[t] /\ orders'[t] = orders[t]
           /\ payments'[t] = payments[t]
<1>1. CASE UNCHANGED <<services, db>>
  BY <1>1 DEF services
<1>2. ASSUME NEW op \in Operations, NEW j \in Keys, NEW u \in Txs, NEW sc, Served(op, j, u, sc)
      PROVE  /\ db'[k] = db[k] /\ carts'[t] = carts[t] /\ orders'[t] = orders[t]
             /\ payments'[t] = payments[t]
  <2>1. CASE j = k
    BY <1>2, <2>1, ClosedServed DEF Served
  <2>2. CASE j # k
    <3>1. t # u
      BY <1>2, <2>2 DEF Served, SInv, EInv, IInv, IdentityInv
    <3>2. QED BY <1>2, <3>1, ServeAt DEF Served, SInv, EInv, IInv, TypeOK
  <2>3. QED BY <2>1, <2>2
<1>3. ASSUME NEW w \in Threads, Save(w)
      PROVE  /\ db'[k] = db[k] /\ carts'[t] = carts[t] /\ orders'[t] = orders[t]
             /\ payments'[t] = payments[t]
  <2>1. k # rec[w].key
    BY <1>3, SaveFacts DEF Follows, Terminals
  <2>2. QED BY <1>3, <2>1, SaveFacts DEF services
<1>4. ASSUME NEW w \in Threads, Insert(w)
      PROVE  /\ db'[k] = db[k] /\ carts'[t] = carts[t] /\ orders'[t] = orders[t]
             /\ payments'[t] = payments[t]
  <2>1. UNCHANGED services
    BY <1>4 DEF Insert
  <2>2. db'[k] = db[k]
    BY <1>4, NoRowFacts DEF Insert, Terminals, SInv, EInv, IInv, TypeOK
  <2>3. QED BY <2>1, <2>2 DEF services
<1>5. QED BY <1>1, <1>2, <1>3, <1>4, StepKinds DEF SomeServed

(* A terminal outcome is final in the same runs: no repeated execution, no *)
(* recovery and no request that outlived the crash changes the record or   *)
(* an effect of a closed purchase.                                         *)
THEOREM TerminalsStayFinal ==
    ASSUME SequentialRuns
    PROVE  Spec => TerminalsAreFinal
<1>1. SInv /\ [Next]_vars =>
         [\A k \in Keys :
             db[k].state \in Terminals =>
                 /\ db'[k] = db[k]
                 /\ \A t \in Txs : t = db[k].tx =>
                        /\ carts'[t] = carts[t]
                        /\ orders'[t] = orders[t]
                        /\ payments'[t] = payments[t]]_vars
  <2> SUFFICES ASSUME SInv, [Next]_vars
               PROVE  \A k \in Keys : \A t \in Txs : db[k].state \in Terminals /\ t = db[k].tx =>
                         /\ db'[k] = db[k] /\ carts'[t] = carts[t]
                         /\ orders'[t] = orders[t] /\ payments'[t] = payments[t]
    <3>1. ASSUME SInv, [Next]_vars, NEW k \in Keys, db[k].state \in Terminals
          PROVE  db[k].tx \in Txs
      BY <3>1, RowTyping, NoRowFacts DEF Terminals, HasRow, SInv, EInv, IInv
    <3>2. QED BY <3>1
  <2>1. ASSUME NEW k \in Keys, db[k].state \in Terminals, NEW t \in Txs, t = db[k].tx
        PROVE  /\ db'[k] = db[k] /\ carts'[t] = carts[t]
               /\ orders'[t] = orders[t] /\ payments'[t] = payments[t]
    BY <2>1, FinalStep
  <2>2. QED BY <2>1
<1>2. QED BY <1>1, SequentialInductive, PTL DEF Spec, TerminalsAreFinal

-----------------------------------------------------------------------------
(* PurchaseSaga is implemented, one thread at a time.                      *)

PhaseTable == [k \in Keys |-> Phase(k)]
CartTable == [k \in Keys |-> HasCart(k)]

(* What is seen of a key is the effects of its row's transaction           *)
View ==
    /\ \A k \in Keys : ~ HasRow(k) => /\ OrderStatus(k) = "NONE"
                                      /\ ~ HasCart(k) /\ ~ HasPayment(k)
    /\ \A k \in Keys, t \in Txs : HasRow(k) /\ db[k].tx = t =>
          /\ OrderStatus(k) = orders[t].status
          /\ HasCart(k) <=> carts[t] # NoKey
          /\ HasPayment(k) <=> payments[t] # NoKey

LEMMA ViewHolds == EInv => View
<1> SUFFICES ASSUME EInv PROVE View
  OBVIOUS
<1>1. ASSUME NEW k \in Keys, ~ HasRow(k)
      PROVE  OrderStatus(k) = "NONE" /\ ~ HasCart(k) /\ ~ HasPayment(k)
  <2>1. \A t \in Txs : orders[t].key # k /\ carts[t] # k /\ payments[t] # k
    BY <1>1, ServicesAssumption DEF EInv, IInv, IdentityInv, EffectsPinned
  <2>2. OrderStatus(k) = "NONE"
    BY <2>1, ShownHolds DEF Shown
  <2>3. QED BY <2>1, <2>2 DEF HasCart, HasPayment
<1>2. ASSUME NEW k \in Keys, NEW t \in Txs, HasRow(k), db[k].tx = t
      PROVE  /\ OrderStatus(k) = orders[t].status
             /\ HasCart(k) <=> carts[t] # NoKey
             /\ HasPayment(k) <=> payments[t] # NoKey
  <2>1. /\ \A s \in Txs \ {t} : orders[s].key # k /\ carts[s] # k /\ payments[s] # k
        /\ orders[t].key \in {k, NoKey} /\ carts[t] \in {k, NoKey} /\ payments[t] \in {k, NoKey}
        /\ orders[t].status # "NONE" <=> orders[t].key # NoKey
    <3>1. /\ \A s \in Txs : /\ orders[s].key = k => s = t
                            /\ carts[s] = k => s = t
                            /\ payments[s] = k => s = t
          /\ \A j \in Keys : HasRow(j) /\ db[j].tx = t => j = k
      BY <1>2, ServicesAssumption DEF EInv, IInv, IdentityInv, EffectsPinned
    <3>2. /\ carts[t] \in Keys \cup {NoKey} /\ payments[t] \in Keys \cup {NoKey}
          /\ orders[t].key \in Keys \cup {NoKey}
      BY DEF EInv, IInv, TypeOK, ServicesTypeOK, OrderRow
    <3>3. QED BY <3>1, <3>2 DEF EInv, IInv, IdentityInv, EffectsPinned
  <2>2. k # NoKey
    BY ServicesAssumption
  <2>3. OrderStatus(k) = orders[t].status
    BY <2>1, <2>2, ShownHolds DEF Shown
  <2>4. QED BY <2>1, <2>2, <2>3 DEF HasCart, HasPayment
<1>3. QED BY <1>1, <1>2 DEF View

LEMMA ViewNext == EInv' => View'
BY ViewHolds, PTL

(* The other keys look the same after a step on transaction t              *)
LEMMA OthersSeen ==
    ASSUME EInv, EInv', UNCHANGED db, NEW k \in Keys, NEW t \in Txs, HasRow(k), db[k].tx = t,
           \A u \in Txs \ {t} : /\ carts'[u] = carts[u] /\ orders'[u] = orders[u]
                                /\ payments'[u] = payments[u],
           NEW j \in Keys \ {k}
    PROVE  /\ OrderStatus(j)' = OrderStatus(j)
           /\ HasCart(j)' = HasCart(j)
           /\ HasPayment(j)' = HasPayment(j)
<1>1. View /\ View'
  BY ViewHolds, ViewNext
<1>2. CASE HasRow(j)
  <2>1. PICK u \in Txs \ {t} : db[j].tx = u
    BY <1>2, RowTyping, NoRowFacts DEF EInv, IInv, IdentityInv
  <2>2. HasRow(j)' /\ db'[j].tx = u
    BY <1>2, <2>1 DEF HasRow
  <2>3. QED BY <1>1, <1>2, <2>1, <2>2 DEF View, HasCart, HasPayment
<1>3. CASE ~ HasRow(j)
  <2>1. ~ HasRow(j)'
    BY <1>3 DEF HasRow
  <2>2. QED BY <1>1, <1>3, <2>1 DEF View, HasCart, HasPayment
<1>4. QED BY <1>2, <1>3

LEMMA SagaServe ==
    ASSUME SInv, SInv', NEW op \in Operations, NEW k \in Keys, NEW t \in Txs, NEW sc,
           Served(op, k, t, sc)
    PROVE  [Saga!Next]_Saga!vars
<1> DEFINE s == db[k].state
<1>1. /\ Serve(op, k, t, sc) /\ Timely(op, k, t, sc) /\ HasRow(k) /\ db[k].tx = t
      /\ UNCHANGED db /\ EInv /\ EInv' /\ ServicesTypeOK /\ EffectsFollow(k)
      /\ HasRow(k)' /\ db'[k].tx = t
  BY DEF Served, SInv, SequentialInv, EInv, IInv, TypeOK, HasRow
<1>2. /\ View /\ View' /\ UNCHANGED PhaseTable
  BY <1>1, ViewHolds, ViewNext DEF PhaseTable, Phase
<1>3. /\ OrderStatus(k) = orders[t].status /\ OrderStatus(k)' = orders'[t].status
      /\ HasCart(k) <=> carts[t] # NoKey
      /\ HasCart(k)' <=> carts'[t] # NoKey
      /\ HasPayment(k) <=> payments[t] # NoKey
      /\ HasPayment(k)' <=> payments'[t] # NoKey
  BY <1>1, <1>2 DEF View
<1>4. \A j \in Keys \ {k} : /\ OrderStatus(j)' = OrderStatus(j)
                            /\ HasCart(j)' = HasCart(j)
                            /\ HasPayment(j)' = HasPayment(j)
  BY <1>1, OthersSeen, ServeAt
<1>5. CASE UNCHANGED <<carts, orders, payments>>
  BY <1>2, <1>5 DEF Saga!vars, PhaseTable, HasCart, OrderStatus, HasPayment
<1>6. CASE ~ UNCHANGED <<carts, orders, payments>>
  <2>1. Phase(k) = "open" /\ ~ Blocked(op, t, sc)
    <3>1. s \notin Terminals
      BY <1>6, ClosedServed
    <3>2. ~ Blocked(op, t, sc)
      BY <1>1, <1>6, ServeAt
    <3>3. QED BY <1>1, <3>1, <3>2 DEF Phase, HasRow
  <2>2. CASE op = "create_cart"
    <3>1. UNCHANGED <<orders, payments>> /\ carts'[t] = k
      BY <1>1, <1>6, <2>2 DEF Serve, CreateCart, ServicesTypeOK
    <3>2. HasCart(k)'
      BY <1>3, <3>1, ServicesAssumption
    <3>3. CartTable' = [CartTable EXCEPT ![k] = TRUE]
      BY <1>4, <3>2 DEF CartTable, HasCart
    <3>4. UNCHANGED <<OrderTable, PaidTable>>
      BY <3>1 DEF OrderTable, OrderStatus, PaidTable, HasPayment
    <3>5. Saga!FillCart(k)
      BY <1>2, <2>1, <3>3, <3>4
         DEF Saga!FillCart, PhaseTable, CartTable, OrderTable, PaidTable
    <3>6. QED BY <3>5 DEF Saga!Next
  <2>3. CASE op = "create_order"
    <3>1. /\ UNCHANGED <<carts, payments>> /\ orders[t].status = "NONE"
          /\ orders'[t].key = k /\ orders'[t].status = "ACTIVE"
      BY <1>1, <1>6, <2>3 DEF Serve, CreateOrder, ServicesTypeOK
    <3>2. carts[t] # NoKey
      BY <1>1, <3>1, ServicesAssumption DEF EInv, EvidenceInv, EffectsInOrder
    <3>3. OrderStatus(k) = "NONE" /\ OrderStatus(k)' = "ACTIVE" /\ HasCart(k)
      BY <1>3, <3>1, <3>2
    <3>4. OrderTable' = [OrderTable EXCEPT ![k] = "ACTIVE"]
      BY <1>4, <3>3 DEF OrderTable
    <3>5. UNCHANGED <<CartTable, PaidTable>>
      BY <3>1 DEF CartTable, HasCart, PaidTable, HasPayment
    <3>6. Saga!PlaceOrder(k)
      BY <1>2, <2>1, <3>3, <3>4, <3>5
         DEF Saga!PlaceOrder, PhaseTable, CartTable, OrderTable, PaidTable
    <3>7. QED BY <3>6 DEF Saga!Next
  <2>4. CASE op = "execute_payment"
    <3>1. UNCHANGED <<carts, orders>> /\ payments'[t] = k /\ payments[t] = NoKey
      BY <1>1, <1>6, <2>4 DEF Serve, ExecutePayment, ServicesTypeOK
    <3>2. s = "PAYMENT_PENDING"
      <4>1. s \in {"PAYMENT_PENDING", "PAYMENT_COMPLETED", "COMPLETED"}
        BY <1>1, <2>1, <2>4 DEF Timely
      <4>2. s # "COMPLETED"
        BY <2>1 DEF Phase, Terminals
      <4>3. s # "PAYMENT_COMPLETED"
        <5>1. Backed(db[k]) /\ db[k].key = k /\ k # NoKey
          BY <1>1, ServicesAssumption DEF EInv, EvidenceInv, IInv, IdentityInv
        <5>2. QED BY <1>1, <3>1, <5>1 DEF Backed, Identified, ClaimsPayment
      <4>4. QED BY <4>1, <4>2, <4>3
    <3>3. orders[t].status = "ACTIVE"
      <4>1. orders[t].key = k
        BY <1>1, <3>1, ServicesAssumption DEF EInv, EvidenceInv, EffectsInOrder
      <4>2. orders[t].status \notin {"NONE", "CANCELLED"}
        BY <1>1, <3>2, <4>1, ServicesAssumption
           DEF EffectsFollow, EInv, IInv, IdentityInv, EffectsPinned
      <4>3. QED BY <1>1, <4>2 DEF ServicesTypeOK, OrderRow
    <3>4. HasPayment(k)' /\ OrderStatus(k) = "ACTIVE"
      BY <1>3, <3>1, <3>3, ServicesAssumption
    <3>5. PaidTable' = [PaidTable EXCEPT ![k] = TRUE]
      BY <1>4, <3>4 DEF PaidTable, HasPayment
    <3>6. UNCHANGED <<CartTable, OrderTable>>
      BY <3>1 DEF CartTable, HasCart, OrderTable, OrderStatus
    <3>7. Saga!Pay(k)
      BY <1>2, <2>1, <3>4, <3>5, <3>6
         DEF Saga!Pay, PhaseTable, CartTable, OrderTable, PaidTable
    <3>8. QED BY <3>7 DEF Saga!Next
  <2>5. CASE op = "cancel_order"
    <3>1. UNCHANGED <<carts, payments>> /\ orders[t].status # "NONE" /\ orders'[t].status = "CANCELLED"
      BY <1>1, <1>6, <2>5 DEF Serve, CancelOrder, ServicesTypeOK, OrderRow
    <3>2. s = "COMPENSATING"
      BY <1>1, <2>1, <2>5 DEF Timely
    <3>3. payments[t] = NoKey
      BY <1>1, <3>2 DEF EffectsFollow
    <3>4. orders[t].status \in {"ACTIVE", "CANCELLED"}
      BY <1>1, <3>1 DEF ServicesTypeOK, OrderRow
    <3>5. OrderStatus(k)' = "CANCELLED" /\ ~ HasPayment(k)
      BY <1>3, <3>1, <3>3
    <3>6. OrderTable' = [OrderTable EXCEPT ![k] = "CANCELLED"]
      BY <1>4, <3>5 DEF OrderTable
    <3>7. UNCHANGED <<CartTable, PaidTable>>
      BY <3>1 DEF CartTable, HasCart, PaidTable, HasPayment
    <3>8. CASE orders[t].status = "ACTIVE"
      <4>1. Saga!CancelOrder(k)
        BY <1>2, <1>3, <2>1, <3>5, <3>6, <3>7, <3>8
           DEF Saga!CancelOrder, PhaseTable, CartTable, OrderTable, PaidTable
      <4>2. QED BY <4>1 DEF Saga!Next
    <3>9. CASE orders[t].status = "CANCELLED"
      <4>1. OrderTable' = OrderTable
        BY <1>3, <1>4, <3>5, <3>9 DEF OrderTable
      <4>2. QED
        BY <1>2, <3>7, <4>1 DEF Saga!vars, PhaseTable, CartTable, OrderTable, PaidTable
    <3>10. QED BY <3>4, <3>8, <3>9
  <2>6. QED BY <2>2, <2>3, <2>4, <2>5 DEF Operations
<1>7. QED BY <1>5, <1>6

LEMMA SagaSave ==
    ASSUME SInv, SInv', NEW w \in Threads, Save(w)
    PROVE  [Saga!Next]_Saga!vars
<1>1. PICK k \in Keys, t \in Txs : k = rec[w].key /\ t = rec[w].tx
  BY SaveFacts
<1>2. /\ HasRow(k) /\ db[k].tx = t /\ db'[k].state = to[w] /\ db'[k].tx = t
      /\ \A j \in Keys \ {k} : db'[j] = db[j]
      /\ to[w] \in States /\ to[w] \in Follows(db[k].state)
      /\ UNCHANGED <<carts, orders, payments>>
  BY <1>1, SaveFacts DEF services
<1>3. /\ UNCHANGED <<CartTable, OrderTable, PaidTable>>
      /\ \A j \in Keys \ {k} : Phase(j)' = Phase(j)
  BY <1>2 DEF CartTable, HasCart, OrderTable, OrderStatus, PaidTable, HasPayment, Phase
<1>4. Phase(k) = "open"
  BY <1>2 DEF Phase, Follows, Terminals, HasRow
<1>5. CASE to[w] \notin Terminals
  <2>1. Phase(k)' = "open"
    BY <1>2, <1>5, NoRowFacts DEF Phase
  <2>2. UNCHANGED PhaseTable
    BY <1>3, <1>4, <2>1 DEF PhaseTable
  <2>3. QED BY <1>3, <2>2 DEF Saga!vars, PhaseTable, CartTable, OrderTable, PaidTable
<1>6. CASE to[w] \in Terminals
  <2>1. Phase(k)' = to[w]
    BY <1>2, <1>6, NoRowFacts DEF Phase
  <2>2. PhaseTable' = [PhaseTable EXCEPT ![k] = to[w]]
    BY <1>3, <2>1 DEF PhaseTable
  <2>3. TerminalAgreement'
    BY TerminalsAgree, PTL
  <2>4. /\ to[w] = "COMPLETED" => orders[t].status = "ACTIVE" /\ payments[t] # NoKey
        /\ to[w] = "COMPENSATED" => orders[t].status = "CANCELLED" /\ payments[t] = NoKey
        /\ to[w] = "FAILED" => orders[t].status # "ACTIVE" /\ payments[t] = NoKey
    BY <1>2, <2>3 DEF TerminalAgreement, Agrees
  <2>5. /\ OrderStatus(k) = orders[t].status
        /\ HasPayment(k) <=> payments[t] # NoKey
        /\ orders[t].status \in {"NONE", "ACTIVE", "CANCELLED"}
    BY <1>2, ViewHolds DEF View, SInv, EInv, IInv, TypeOK, ServicesTypeOK, OrderRow
  <2>6. to[w] \in Saga!Outcome(k)
    BY <1>6, <2>4, <2>5 DEF Saga!Outcome, Terminals
  <2>7. Saga!Close(k)
    BY <1>3, <1>4, <2>2, <2>6 DEF Saga!Close, PhaseTable, CartTable, OrderTable, PaidTable
  <2>8. QED BY <2>7 DEF Saga!Next
<1>7. QED BY <1>5, <1>6

LEMMA SagaInsert ==
    ASSUME SInv, NEW w \in Threads, Insert(w)
    PROVE  [Saga!Next]_Saga!vars
<1>1. PICK k : k = rec[w].key
  OBVIOUS
<1>2. k \in Keys /\ rec[w] \in Row \cup Blank
  BY <1>1 DEF Insert, SInv, EInv, IInv, TypeOK, IdentityInv, LocalsPinned
<1>3. UNCHANGED <<CartTable, OrderTable, PaidTable>>
  BY DEF Insert, services, CartTable, HasCart, OrderTable, OrderStatus, PaidTable, HasPayment
<1>4. CASE UNCHANGED db
  <2>1. UNCHANGED PhaseTable
    BY <1>4 DEF PhaseTable, Phase
  <2>2. QED BY <1>3, <2>1 DEF Saga!vars, PhaseTable, CartTable, OrderTable, PaidTable
<1>5. CASE db[k] = NoRow /\ db' = [db EXCEPT ![k] = [rec[w] EXCEPT !.state = "STARTED"]]
  <2>1. \A b \in Row \cup Blank : [b EXCEPT !.state = "STARTED"].state = "STARTED"
    BY DEF Row, Blank, NoRow, Unsaved
  <2>2. db'[k].state = "STARTED" /\ \A j \in Keys \ {k} : db'[j] = db[j]
    BY <1>2, <1>5, <2>1 DEF SInv, EInv, IInv, TypeOK
  <2>3. Phase(k) = "none" /\ Phase(k)' = "open" /\ \A j \in Keys \ {k} : Phase(j)' = Phase(j)
    BY <1>5, <2>2, NoRowFacts DEF Phase, Terminals
  <2>4. PhaseTable' = [PhaseTable EXCEPT ![k] = "open"]
    BY <2>3 DEF PhaseTable
  <2>5. Saga!Open(k)
    BY <1>2, <1>3, <2>3, <2>4 DEF Saga!Open, PhaseTable, CartTable, OrderTable, PaidTable
  <2>6. QED BY <1>2, <2>5 DEF Saga!Next
<1>6. QED BY <1>1, <1>4, <1>5 DEF Insert

LEMMA SagaInit == Init => Saga!Init
<1> SUFFICES ASSUME Init PROVE Saga!Init
  OBVIOUS
<1>1. View /\ \A k \in Keys : ~ HasRow(k)
  BY InitEInv, ViewHolds, NoRowFacts DEF Init, HasRow
<1>2. \A k \in Keys : OrderStatus(k) = "NONE" /\ ~ HasCart(k) /\ ~ HasPayment(k)
  BY <1>1 DEF View
<1>3. \A k \in Keys : Phase(k) = "none"
  BY <1>1 DEF Phase, HasRow, Terminals
<1>4. \A k \in Keys : HasCart(k) = FALSE /\ HasPayment(k) = FALSE
  BY <1>2 DEF HasCart, HasPayment
<1>5. QED BY <1>2, <1>3, <1>4 DEF Saga!Init

LEMMA SagaStep == SInv /\ [Next]_vars /\ SInv' => [Saga!Next]_Saga!vars
<1> SUFFICES ASSUME SInv, [Next]_vars, SInv' PROVE [Saga!Next]_Saga!vars
  OBVIOUS
<1>1. CASE UNCHANGED <<services, db>>
  BY <1>1 DEF services, Saga!vars, Phase, HasCart, OrderStatus, HasPayment
<1>2. CASE SomeServed
  BY <1>2, SagaServe DEF SomeServed
<1>3. QED BY <1>1, <1>2, SagaInsert, SagaSave, StepKinds

(* For any number of keys, transactions and requests, what a client and    *)
(* the inspection endpoints can see is a behaviour of PurchaseSaga.        *)
THEOREM SagaImplemented ==
    ASSUME SequentialRuns
    PROVE  Spec => ImplementsSaga
BY SequentialInductive, SagaInit, SagaStep, PTL DEF Spec, ImplementsSaga, Saga!Spec
=============================================================================
