-------------------------- MODULE TransactionProofs --------------------------
(***************************************************************************)
(* Machine-checked proofs, for every value of the constants, of what       *)
(* TransactionProperties promises however threads overlap: one identity    *)
(* per key, no record that claims more than the services hold, effects in  *)
(* the order of the stages, EffectLedger as what a client can see, and     *)
(* duplicates that settle on one outcome.                                  *)
(***************************************************************************)
EXTENDS TransactionInvariant, LedgerRefinement, ServicesProofs, TLAPS

IInv == TypeOK /\ IdentityInv

(* Facts about one step, and about one thread's part of it                 *)
RowsKept == \A k \in Keys : HasRow(k) => HasRow(k)' /\ db'[k].tx = db[k].tx

OthersKept(w) ==
    \A v \in Threads \ {w} :
        /\ pc'[v] = pc[v] /\ rec'[v] = rec[v] /\ comp'[v] = comp[v]
        /\ to'[v] = to[v] /\ queue'[v] = queue[v]

LEMMA NoRowFacts ==
    /\ NoRow.state = "NONE" /\ NoRow.key = NoKey /\ NoRow.tx = NoTx
    /\ NoRow \notin Row
    /\ \A r \in Row : r.state \in States /\ r.state # "NONE" /\ r.key \in Keys /\ r.tx \in Txs
    /\ \A b \in Blank : b.state = "NONE"
    /\ "NONE" \notin States
BY DEF NoRow, Unsaved, Row, Blank, States, Terminals

(* A record read from the table is a row of the table                      *)
LEMMA RowTyping ==
    ASSUME TypeOK, NEW k \in Keys
    PROVE  /\ HasRow(k) <=> db[k] \in Row
           /\ HasRow(k) <=> db[k] # NoRow
           /\ db[k] = NoRow => db[k].tx = NoTx
BY NoRowFacts DEF TypeOK, HasRow

LEMMA PinnedStable ==
    ASSUME RowsKept, NEW r, r.key \in Keys, Pinned(r)
    PROVE  Pinned(r)'
BY DEF RowsKept, Pinned, HasRow

LEMMA EnterFacts ==
    ASSUME TypeOK, NEW w \in Threads, NEW r \in Row, NEW from \in 1 .. 5, Enter(w, r, from)
    PROVE  /\ rec' = [rec EXCEPT ![w] = r]
           /\ pc' \in [Threads -> {"idle"} \cup Waiting \cup Ended]
           /\ \A v \in Threads \ {w} : pc'[v] = pc[v] /\ to'[v] = to[v]
           /\ pc'[w] \in {"done", "returned", "lookup", "call", "save"}
           /\ pc'[w] = "save" => to'[w] \in {"PAYMENT_PENDING", "COMPLETED"}
           /\ to' \in [Threads -> States \cup {"NONE"}]
           /\ tries' \in [Threads -> 0 .. MaxAttempts - 1]
<1>1. CASE Return(w, r)
  BY <1>1 DEF Return, TypeOK, Waiting, Ended
<1>2. CASE ~ Return(w, r)
  BY <1>2, OrchestratorAssumption DEF Enter, TypeOK, Waiting, Ended, Attempt, States, Terminals
<1>3. QED BY <1>1, <1>2

LEMMA AttemptFailsFacts ==
    ASSUME TypeOK, NEW w \in Threads, NEW reply, AttemptFails(w, reply)
    PROVE  /\ UNCHANGED rec
           /\ pc' \in [Threads -> {"idle"} \cup Waiting \cup Ended]
           /\ \A v \in Threads \ {w} : pc'[v] = pc[v] /\ to'[v] = to[v]
           /\ pc'[w] \in {"lookup", "call", "reconcile", "save"}
           /\ pc'[w] = "save" => to'[w] \in {"COMPENSATING", "FAILED"}
           /\ to' \in [Threads -> States \cup {"NONE"}]
           /\ tries' \in [Threads -> 0 .. MaxAttempts - 1]
<1>1. CASE RetriesAfter(w, reply) /\ tries' = [tries EXCEPT ![w] = @ + 1]
  <2>1. tries[w] \in 0 .. MaxAttempts - 1 /\ tries[w] + 1 < MaxAttempts
    BY <1>1 DEF TypeOK, RetriesAfter
  <2>2. tries' \in [Threads -> 0 .. MaxAttempts - 1]
    BY <1>1, <2>1, OrchestratorAssumption DEF TypeOK
  <2>3. QED
    BY <1>1, <2>2 DEF AttemptFails, TypeOK, Waiting, Ended, Attempt
<1>2. CASE ~ RetriesAfter(w, reply)
  BY <1>2 DEF AttemptFails, TypeOK, Waiting, Ended, GiveUp, SaveAs, States, Terminals
<1>3. QED BY <1>1, <1>2 DEF AttemptFails

LEMMA SaveAsFacts ==
    ASSUME TypeOK, NEW w \in Threads, NEW s \in States, SaveAs(w, s)
    PROVE  /\ UNCHANGED <<rec, tries>>
           /\ pc' \in [Threads -> {"idle"} \cup Waiting \cup Ended]
           /\ \A v \in Threads \ {w} : pc'[v] = pc[v] /\ to'[v] = to[v]
           /\ pc'[w] = "save" /\ to'[w] = s
           /\ to' \in [Threads -> States \cup {"NONE"}]
BY DEF SaveAs, TypeOK, Waiting, Ended

LEMMA CancelFailsFacts ==
    ASSUME TypeOK, NEW w \in Threads, pc[w] = "cancel", CancelFails(w)
    PROVE  /\ UNCHANGED rec
           /\ pc' \in [Threads -> {"idle"} \cup Waiting \cup Ended]
           /\ \A v \in Threads \ {w} : pc'[v] = pc[v] /\ to'[v] = to[v]
           /\ pc'[w] \in {"cancel", "save"}
           /\ pc'[w] = "save" => to'[w] = "FAILED"
           /\ to' \in [Threads -> States \cup {"NONE"}]
           /\ tries' \in [Threads -> 0 .. MaxAttempts - 1]
<1>1. CASE SaveAs(w, "FAILED")
  BY <1>1, SaveAsFacts DEF TypeOK, States, Terminals
<1>2. CASE tries[w] + 1 < MaxAttempts /\ tries' = [tries EXCEPT ![w] = @ + 1]
           /\ UNCHANGED <<pc, rec, to>>
  <2>1. tries[w] \in 0 .. MaxAttempts - 1
    BY DEF TypeOK
  <2>2. tries' \in [Threads -> 0 .. MaxAttempts - 1]
    BY <1>2, <2>1, OrchestratorAssumption DEF TypeOK
  <2>3. QED BY <1>2, <2>2 DEF TypeOK
<1>3. QED BY <1>1, <1>2 DEF CancelFails

-----------------------------------------------------------------------------
(* What a step leaves of IdentityInv when it does not touch it.            *)

LEMMA RowsKeptByStutter ==
    ASSUME UNCHANGED db
    PROVE  RowsKept
BY DEF RowsKept, HasRow

(* The locals of a thread the step is not of                               *)
LEMMA OthersStay ==
    ASSUME IInv, RowsKept, NEW w \in Threads, OthersKept(w), NEW v \in Threads \ {w}
    PROVE  LocalsPinned(v)'
<1>1. LocalsPinned(v) /\ rec[v] \in Row \cup Blank /\ comp[v] \in Row \cup {NoRow} /\ queue[v] \subseteq Row
  BY DEF IInv, IdentityInv, TypeOK
<1>2. /\ pc'[v] = pc[v] /\ rec'[v] = rec[v] /\ comp'[v] = comp[v]
      /\ to'[v] = to[v] /\ queue'[v] = queue[v]
  BY DEF OthersKept
<1>3. rec[v].state # "NONE" => Pinned(rec[v])'
  <2>1. rec[v].state # "NONE" => rec[v].key \in Keys /\ Pinned(rec[v])
    BY <1>1, NoRowFacts DEF LocalsPinned
  <2>2. QED BY <1>2, <2>1 DEF RowsKept, Pinned, HasRow
<1>4. comp[v].state # "NONE" => Pinned(comp[v])'
  <2>1. comp[v].state # "NONE" => comp[v].key \in Keys /\ Pinned(comp[v])
    BY <1>1, NoRowFacts DEF LocalsPinned
  <2>2. QED BY <1>2, <2>1 DEF RowsKept, Pinned, HasRow
<1>5. \A r \in queue[v] : Pinned(r)'
  BY <1>1, NoRowFacts, PinnedStable DEF LocalsPinned
<1>6. QED BY <1>1, <1>2, <1>3, <1>4, <1>5 DEF LocalsPinned

(* The locals of a thread that goes on with a record it read               *)
LEMMA OwnLocals ==
    ASSUME IInv, RowsKept, NEW w \in Threads, NEW r \in Row, Pinned(r),
           rec'[w] = r, comp'[w] = comp[w], queue'[w] \subseteq queue[w],
           pc'[w] \notin {"insert", "created"},
           pc'[w] \in {"save", "reread"} => to'[w] # "NONE",
           pc'[w] = "cancel" \/ (pc'[w] = "save" /\ to'[w] = "COMPENSATED")
               => comp[w].state # "NONE"
    PROVE  LocalsPinned(w)'
<1>1. LocalsPinned(w) /\ comp[w] \in Row \cup {NoRow} /\ queue[w] \subseteq Row
  BY DEF IInv, IdentityInv, TypeOK
<1>2. r.state # "NONE" /\ Pinned(r)'
  BY NoRowFacts, PinnedStable
<1>3. comp[w].state # "NONE" => Pinned(comp[w])'
  <2>1. comp[w].state # "NONE" => comp[w].key \in Keys /\ Pinned(comp[w])
    BY <1>1, NoRowFacts DEF LocalsPinned
  <2>2. QED BY <2>1 DEF RowsKept, Pinned, HasRow
<1>4. \A q \in queue[w] : Pinned(q)'
  BY <1>1, NoRowFacts, PinnedStable DEF LocalsPinned
<1>5. QED BY <1>1, <1>2, <1>3, <1>4 DEF LocalsPinned, Pinned, HasRow

(* The part of IInv that is not about threads                              *)
World ==
    /\ ServicesTypeOK
    /\ db \in [Keys -> Row \cup {NoRow}]
    /\ net \subseteq Message
    /\ \A k \in Keys : HasRow(k) => db[k].key = k
    /\ \A j, k \in Keys : HasRow(j) /\ db[j].tx = db[k].tx => j = k
    /\ EffectsPinned

LEMMA WorldStays ==
    ASSUME IInv, UNCHANGED <<services, db, net>>
    PROVE  World' /\ RowsKept
BY RowsKeptByStutter
   DEF IInv, TypeOK, ServicesTypeOK, IdentityInv, EffectsPinned, HasRow, services, World

(* A step of thread w, put together from its parts                         *)
LEMMA ThreadStep ==
    ASSUME IInv, NEW w \in Threads, World', RowsKept, OthersKept(w), LocalsPinned(w)',
           UNCHANGED cell,
           pc' \in [Threads -> {"idle"} \cup Waiting \cup Ended],
           rec' \in [Threads -> Row \cup Blank],
           comp' \in [Threads -> Row \cup {NoRow}],
           to' \in [Threads -> States \cup {"NONE"}],
           tries' \in [Threads -> 0 .. MaxAttempts - 1],
           armed' \in [Threads -> BOOLEAN],
           prev' \in [Threads -> States \cup {"NONE"}],
           rounds' \in [Threads -> 0 .. MaxAttempts],
           queue' \in [Threads -> SUBSET Row]
    PROVE  IInv'
<1>1. \A v \in Threads : LocalsPinned(v)'
  BY OthersStay
<1>2. TypeOK'
  BY DEF IInv, TypeOK, World, cell
<1>3. QED BY <1>1, <1>2 DEF IInv, IdentityInv, World

(* The row a step reads pins itself                                        *)
LEMMA ReadPins ==
    ASSUME IInv, NEW k \in Keys, db[k] # NoRow
    PROVE  db[k] \in Row /\ Pinned(db[k]) /\ db[k].key = k
BY RowTyping, NoRowFacts DEF IInv, IdentityInv, Pinned, HasRow

(* A local record that holds a row is one                                  *)
LEMMA LocalRow ==
    ASSUME IInv, NEW w \in Threads, rec[w].state # "NONE"
    PROVE  rec[w] \in Row /\ Pinned(rec[w]) /\ db[rec[w].key] # NoRow
<1>1. rec[w] \in Row
  BY NoRowFacts DEF IInv, TypeOK
<1>2. Pinned(rec[w])
  BY DEF IInv, IdentityInv, LocalsPinned
<1>3. QED BY <1>1, <1>2, NoRowFacts DEF Pinned, HasRow

LEMMA Compensating ==
    ASSUME IInv, NEW w \in Threads, comp[w].state # "NONE"
    PROVE  comp[w] \in Row /\ Pinned(comp[w])
BY NoRowFacts DEF IInv, TypeOK, IdentityInv, LocalsPinned

-----------------------------------------------------------------------------
(* One lemma per action: it preserves IInv.                                *)

(* A step that enters continueResilient with record r                      *)
LEMMA EnterPreserves ==
    ASSUME IInv, NEW w \in Threads, NEW r \in Row, NEW from \in 1 .. 5, Enter(w, r, from),
           Pinned(r), UNCHANGED <<services, db, net, cell, comp>>,
           queue' \in [Threads -> SUBSET Row], queue'[w] \subseteq queue[w],
           \A v \in Threads \ {w} : queue'[v] = queue[v],
           armed' \in [Threads -> BOOLEAN],
           prev' \in [Threads -> States \cup {"NONE"}],
           rounds' \in [Threads -> 0 .. MaxAttempts]
    PROVE  IInv'
<1>1. /\ rec' = [rec EXCEPT ![w] = r]
      /\ pc' \in [Threads -> {"idle"} \cup Waiting \cup Ended]
      /\ \A v \in Threads \ {w} : pc'[v] = pc[v] /\ to'[v] = to[v]
      /\ pc'[w] \in {"done", "returned", "lookup", "call", "save"}
      /\ pc'[w] = "save" => to'[w] \in {"PAYMENT_PENDING", "COMPLETED"}
      /\ to' \in [Threads -> States \cup {"NONE"}]
      /\ tries' \in [Threads -> 0 .. MaxAttempts - 1]
  BY EnterFacts DEF IInv
<1>2. rec'[w] = r /\ OthersKept(w) /\ rec' \in [Threads -> Row \cup Blank]
  BY <1>1 DEF IInv, TypeOK, OthersKept
<1>3. LocalsPinned(w)'
  BY <1>1, <1>2, OwnLocals, RowsKeptByStutter
<1>4. comp' \in [Threads -> Row \cup {NoRow}]
  BY DEF IInv, TypeOK
<1>5. QED BY <1>1, <1>2, <1>3, <1>4, WorldStays, ThreadStep

(* A step that only moves thread w on, or sets what it will save next      *)
LEMMA MovePreserves ==
    ASSUME IInv, NEW w \in Threads, World', RowsKept, UNCHANGED <<cell, rec, comp, loop>>,
           pc' \in [Threads -> {"idle"} \cup Waiting \cup Ended],
           \A v \in Threads \ {w} : pc'[v] = pc[v] /\ to'[v] = to[v],
           to' \in [Threads -> States \cup {"NONE"}],
           tries' \in [Threads -> 0 .. MaxAttempts - 1],
           armed' \in [Threads -> BOOLEAN],
           pc'[w] \notin {"insert", "created"},
           rec[w].state = "NONE" => pc'[w] \in Ended,
           pc'[w] \in {"save", "reread"} => to'[w] # "NONE",
           pc'[w] = "cancel" \/ (pc'[w] = "save" /\ to'[w] = "COMPENSATED")
               => comp[w].state # "NONE"
    PROVE  IInv'
<1>1. OthersKept(w)
  BY DEF OthersKept, loop
<1>2. LocalsPinned(w)'
  <2>1. CASE rec[w].state # "NONE"
    BY <2>1, LocalRow, OwnLocals DEF loop
  <2>2. CASE rec[w].state = "NONE"
    <3>1. LocalsPinned(w) /\ comp[w] \in Row \cup {NoRow} /\ queue[w] \subseteq Row
      BY DEF IInv, IdentityInv, TypeOK
    <3>2. comp[w].state # "NONE" => Pinned(comp[w])'
      <4>1. comp[w].state # "NONE" => comp[w].key \in Keys /\ Pinned(comp[w])
        BY <3>1, NoRowFacts DEF LocalsPinned
      <4>2. QED BY <4>1 DEF RowsKept, Pinned, HasRow
    <3>3. \A q \in queue[w] : Pinned(q)'
      BY <3>1, NoRowFacts, PinnedStable DEF LocalsPinned
    <3>4. QED BY <2>2, <3>1, <3>2, <3>3 DEF LocalsPinned, Holding, Ended, loop
  <2>3. QED BY <2>1, <2>2
<1>3. QED BY <1>1, <1>2, ThreadStep DEF IInv, TypeOK, loop

(* ... namely to its end                                                   *)
LEMMA EndPreserves ==
    ASSUME IInv, NEW w \in Threads, NEW p \in Ended, pc' = [pc EXCEPT ![w] = p],
           UNCHANGED <<services, db, net, cell, rec, comp, to, tries, armed, loop>>
    PROVE  IInv'
BY WorldStays, MovePreserves DEF IInv, TypeOK, Ended

LEMMA ExecutePreserves ==
    ASSUME IInv, NEW w \in Threads, Execute(w)
    PROVE  IInv'
<1>1. PICK k \in Keys, t \in Txs, crashPoint \in CrashPoints :
          /\ armed' = [armed EXCEPT ![w] = crashPoint]
          /\ \/ /\ db[k] # NoRow
                /\ Enter(w, db[k], 1)
             \/ /\ db[k] = NoRow
                /\ rec' = [rec EXCEPT ![w] = Unsaved(k, t)]
                /\ pc' = [pc EXCEPT ![w] = "insert"]
                /\ UNCHANGED <<to, tries>>
  BY DEF Execute
<1>2. armed' \in [Threads -> BOOLEAN]
  BY <1>1, OrchestratorAssumption DEF IInv, TypeOK
<1>3. CASE db[k] # NoRow
  BY <1>1, <1>2, <1>3, ReadPins, EnterPreserves DEF Execute, loop, IInv, TypeOK
<1>4. CASE db[k] = NoRow
  <2>1. /\ rec' = [rec EXCEPT ![w] = Unsaved(k, t)]
        /\ pc' = [pc EXCEPT ![w] = "insert"]
        /\ UNCHANGED <<services, db, net, cell, comp, loop, to, tries>>
    BY <1>1, <1>4 DEF Execute
  <2>2. /\ rec'[w] = Unsaved(k, t) /\ rec' \in [Threads -> Row \cup Blank] /\ pc'[w] = "insert"
        /\ pc' \in [Threads -> {"idle"} \cup Waiting \cup Ended]
    BY <2>1 DEF IInv, TypeOK, Blank, Waiting
  <2>3. OthersKept(w)
    BY <2>1 DEF OthersKept, loop
  <2>4. LocalsPinned(w)'
    BY <2>1, <2>2 DEF IInv, IdentityInv, LocalsPinned, Holding, Pinned, HasRow, Unsaved, loop
  <2>5. QED BY <1>2, <2>1, <2>2, <2>3, <2>4, WorldStays, ThreadStep DEF IInv, TypeOK, loop
<1>5. QED BY <1>3, <1>4

LEMMA ReadCreatedPreserves ==
    ASSUME IInv, NEW w \in Threads, ReadCreated(w)
    PROVE  IInv'
<1>1. rec[w].key \in Keys
  BY DEF ReadCreated, IInv, IdentityInv, LocalsPinned
<1>2. CASE db[rec[w].key] # NoRow
  BY <1>1, <1>2, ReadPins, EnterPreserves DEF ReadCreated, loop, IInv, TypeOK
<1>3. CASE db[rec[w].key] = NoRow
  BY <1>3, EndPreserves DEF ReadCreated, Ended
<1>4. QED BY <1>2, <1>3

LEMMA RecoverOnePreserves ==
    ASSUME IInv, NEW w \in Threads, RecoverOne(w)
    PROVE  IInv'
<1>1. PICK k \in Keys :
          \/ /\ pc' = [pc EXCEPT ![w] = "error"]
             /\ UNCHANGED rec
          \/ /\ db[k] # NoRow
             /\ rec' = [rec EXCEPT ![w] = db[k]]
             /\ pc' = [pc EXCEPT ![w] = "returned"]
  BY DEF RecoverOne
<1>2. CASE pc' = [pc EXCEPT ![w] = "error"] /\ UNCHANGED rec
  BY <1>2, EndPreserves DEF RecoverOne, Ended
<1>3. CASE /\ db[k] # NoRow
           /\ rec' = [rec EXCEPT ![w] = db[k]]
           /\ pc' = [pc EXCEPT ![w] = "returned"]
  <2>1. db[k] \in Row /\ Pinned(db[k])
    BY <1>3, ReadPins
  <2>2. /\ rec'[w] = db[k] /\ rec' \in [Threads -> Row \cup Blank] /\ pc'[w] = "returned"
        /\ pc' \in [Threads -> {"idle"} \cup Waiting \cup Ended]
    BY <1>3, <2>1 DEF IInv, TypeOK, Waiting
  <2>3. OthersKept(w)
    BY <1>3 DEF RecoverOne, OthersKept, loop
  <2>4. LocalsPinned(w)'
    BY <2>1, <2>2, OwnLocals, RowsKeptByStutter DEF RecoverOne, loop
  <2>5. QED BY <2>2, <2>3, <2>4, WorldStays, ThreadStep DEF RecoverOne, IInv, TypeOK, loop
<1>4. QED BY <1>1, <1>2, <1>3

LEMMA LoopPreserves ==
    ASSUME IInv, NEW w \in Threads, Loop(w)
    PROVE  IInv'
<1>1. rec[w] \in Row /\ Pinned(rec[w])
  BY LocalRow DEF Loop, IInv, IdentityInv, LocalsPinned
<1>2. CASE ContinuesLoop(w)
  <2>1. rounds[w] + 1 \in 0 .. MaxAttempts
    BY <1>2, OrchestratorAssumption DEF ContinuesLoop, IInv, TypeOK
  <2>2. /\ prev' \in [Threads -> States \cup {"NONE"}]
        /\ rounds' \in [Threads -> 0 .. MaxAttempts]
    BY <1>1, <1>2, <2>1, NoRowFacts DEF Loop, IInv, TypeOK
  <2>3. QED BY <1>1, <1>2, <2>2, EnterPreserves DEF Loop, IInv, TypeOK
<1>3. CASE ~ ContinuesLoop(w)
  BY <1>3, EndPreserves DEF Loop, Ended, loop
<1>4. QED BY <1>2, <1>3

LEMMA SweepPreserves ==
    ASSUME IInv, NEW w \in Threads, Sweep(w)
    PROVE  IInv'
<1>1. \A r \in queue'[w] : r \in Row /\ Pinned(r)
  BY ReadPins, NoRowFacts DEF Sweep, IInv, TypeOK
<1>2. /\ queue' \in [Threads -> SUBSET Row]
      /\ pc' \in [Threads -> {"idle"} \cup Waiting \cup Ended] /\ pc'[w] = "returned"
  BY <1>1 DEF Sweep, IInv, TypeOK, Waiting
<1>3. OthersKept(w)
  BY DEF Sweep, OthersKept
<1>4. w \notin Recoveries
  BY OrchestratorAssumption DEF Sweep
<1>5. LocalsPinned(w)'
  BY <1>1, <1>2, <1>4 DEF Sweep, IInv, IdentityInv, LocalsPinned, Holding, Pinned, HasRow
<1>6. QED BY <1>2, <1>3, <1>5, WorldStays, ThreadStep DEF Sweep, IInv, TypeOK

LEMMA NextRecordPreserves ==
    ASSUME IInv, NEW w \in Threads, NextRecord(w)
    PROVE  IInv'
<1>1. CASE \E r \in queue[w] : queue' = [queue EXCEPT ![w] = @ \ {r}] /\ Enter(w, r, 1)
  <2>1. PICK r \in queue[w] : queue' = [queue EXCEPT ![w] = @ \ {r}] /\ Enter(w, r, 1)
    BY <1>1
  <2>2. r \in Row /\ Pinned(r)
    BY DEF IInv, TypeOK, IdentityInv, LocalsPinned
  <2>3. queue' \in [Threads -> SUBSET Row] /\ queue'[w] \subseteq queue[w]
    BY <2>1 DEF IInv, TypeOK
  <2>4. QED BY <2>1, <2>2, <2>3, EnterPreserves DEF NextRecord, IInv, TypeOK
<1>2. CASE pc' = [pc EXCEPT ![w] = "done"] /\ UNCHANGED <<rec, to, tries, queue>>
  BY <1>2, EndPreserves DEF NextRecord, Ended, loop
<1>3. QED BY <1>1, <1>2 DEF NextRecord

(* A step that fails the attempt under way                                 *)
LEMMA FailurePreserves ==
    ASSUME IInv, NEW w \in Threads, NEW reply, AttemptFails(w, reply), World', RowsKept,
           pc[w] \in {"lookup", "call"}, UNCHANGED <<cell, comp, armed, loop>>
    PROVE  IInv'
<1>1. rec[w].state # "NONE"
  BY DEF IInv, IdentityInv, LocalsPinned, Holding
<1>2. /\ UNCHANGED rec
      /\ pc' \in [Threads -> {"idle"} \cup Waiting \cup Ended]
      /\ \A v \in Threads \ {w} : pc'[v] = pc[v] /\ to'[v] = to[v]
      /\ pc'[w] \in {"lookup", "call", "reconcile", "save"}
      /\ pc'[w] = "save" => to'[w] \in {"COMPENSATING", "FAILED"}
      /\ to' \in [Threads -> States \cup {"NONE"}]
      /\ tries' \in [Threads -> 0 .. MaxAttempts - 1]
  BY AttemptFailsFacts DEF IInv
<1>3. armed' \in [Threads -> BOOLEAN]
  BY DEF IInv, TypeOK
<1>4. QED BY <1>1, <1>2, <1>3, MovePreserves

(* A step that decides what thread w saves next                            *)
LEMMA SavePreserves ==
    ASSUME IInv, NEW w \in Threads, NEW s \in States, SaveAs(w, s), World', RowsKept,
           rec[w].state # "NONE", s = "COMPENSATED" => comp[w].state # "NONE",
           UNCHANGED <<cell, comp, loop>>, armed' \in [Threads -> BOOLEAN]
    PROVE  IInv'
<1>1. /\ UNCHANGED <<rec, tries>>
      /\ pc' \in [Threads -> {"idle"} \cup Waiting \cup Ended]
      /\ \A v \in Threads \ {w} : pc'[v] = pc[v] /\ to'[v] = to[v]
      /\ pc'[w] = "save" /\ to'[w] = s
      /\ to' \in [Threads -> States \cup {"NONE"}]
  BY SaveAsFacts DEF IInv
<1>2. tries' \in [Threads -> 0 .. MaxAttempts - 1]
  BY <1>1 DEF IInv, TypeOK
<1>3. QED BY <1>1, <1>2, NoRowFacts, MovePreserves

LEMMA StateAfterFacts ==
    ASSUME NEW op
    PROVE  StateAfter(op) \in {"CART_CREATED", "ORDER_CREATED", "PAYMENT_COMPLETED"}
BY DEF StateAfter

LEMMA LookupPreserves ==
    ASSUME IInv, NEW w \in Threads, Lookup(w)
    PROVE  IInv'
<1>1. rec[w].state # "NONE" /\ armed' \in [Threads -> BOOLEAN]
  BY DEF Lookup, IInv, TypeOK, IdentityInv, LocalsPinned, Holding
<1>2. CASE SaveAs(w, StateAfter(Operation(w)))
  BY <1>1, <1>2, StateAfterFacts, SavePreserves, WorldStays DEF Lookup, States, Terminals
<1>3. CASE pc' = [pc EXCEPT ![w] = "call"] /\ UNCHANGED <<rec, to, tries>>
  <2>1. pc' \in [Threads -> {"idle"} \cup Waiting \cup Ended]
    BY <1>3 DEF IInv, TypeOK, Waiting
  <2>2. QED
    BY <1>1, <1>3, <2>1, MovePreserves, WorldStays DEF Lookup, IInv, TypeOK
<1>4. QED BY <1>2, <1>3 DEF Lookup

LEMMA LookupLostPreserves ==
    ASSUME IInv, NEW w \in Threads, LookupLost(w)
    PROVE  IInv'
BY FailurePreserves, WorldStays DEF LookupLost

LEMMA ReconcilePreserves ==
    ASSUME IInv, NEW w \in Threads, Reconcile(w) \/ ReconcileLost(w)
    PROVE  IInv'
<1>1. rec[w].state # "NONE" /\ armed' \in [Threads -> BOOLEAN]
  BY DEF Reconcile, ReconcileLost, IInv, TypeOK, IdentityInv, LocalsPinned, Holding
<1>2. PICK s \in {"CART_CREATED", "ORDER_CREATED", "PAYMENT_COMPLETED",
                  "COMPENSATING", "FAILED"} : SaveAs(w, s)
  BY StateAfterFacts DEF Reconcile, ReconcileLost, GiveUp
<1>3. QED
  BY <1>1, <1>2, SavePreserves, WorldStays DEF Reconcile, ReconcileLost, States, Terminals

LEMMA AfterOrderPreserves ==
    ASSUME IInv, NEW w \in Threads, NEW r \in Row, Pinned(r), AfterOrder(w, r),
           UNCHANGED <<services, db, net, cell, comp, armed, loop>>
    PROVE  IInv'
<1>1. CASE pc' = [pc EXCEPT ![w] = "error"] /\ UNCHANGED <<rec, to, tries>>
  BY <1>1, EndPreserves DEF Ended
<1>2. CASE Enter(w, r, 3)
  BY <1>2, EnterPreserves DEF IInv, TypeOK, loop
<1>3. QED BY <1>1, <1>2 DEF AfterOrder

LEMMA ReleasePreserves ==
    ASSUME IInv, NEW w \in Threads, Release(w)
    PROVE  IInv'
<1>1. rec[w] \in Row /\ Pinned(rec[w])
  BY LocalRow DEF Release, IInv, IdentityInv, LocalsPinned, Holding
<1>2. QED BY <1>1, AfterOrderPreserves DEF Release

LEMMA RereadPreserves ==
    ASSUME IInv, NEW w \in Threads, Reread(w)
    PROVE  IInv'
<1> DEFINE r == db[rec[w].key]
<1>1. /\ rec[w] \in Row /\ Pinned(rec[w]) /\ r # NoRow /\ rec[w].key \in Keys
      /\ pc[w] = "reread"
  BY LocalRow, NoRowFacts DEF Reread, IInv, IdentityInv, LocalsPinned, Holding
<1>2. r \in Row /\ Pinned(r)
  BY <1>1, ReadPins
<1>3. CASE to[w] \in {"CART_CREATED", "PAYMENT_PENDING", "PAYMENT_COMPLETED"}
  <2>1. StageOf(to[w]) \in 1 .. 5
    BY <1>3 DEF StageOf
  <2>2. Enter(w, r, StageOf(to[w])) /\ UNCHANGED <<services, db, net, cell, comp, armed, loop>>
    BY <1>3 DEF Reread, Terminals
  <2>3. QED BY <1>2, <2>1, <2>2, EnterPreserves DEF IInv, TypeOK, loop
<1>4. CASE to[w] = "ORDER_CREATED" /\ ~ armed[w]
  BY <1>2, <1>4, AfterOrderPreserves DEF Reread, Terminals
<1>5. CASE to[w] = "ORDER_CREATED" /\ armed[w]
  <2>1. /\ rec' = [rec EXCEPT ![w] = r]
        /\ pc' = [pc EXCEPT ![w] = "held"]
        /\ UNCHANGED <<services, db, net, cell, comp, armed, to, tries, loop>>
    BY <1>5 DEF Reread, Terminals
  <2>2. /\ rec'[w] = r /\ rec' \in [Threads -> Row \cup Blank] /\ pc'[w] = "held"
        /\ pc' \in [Threads -> {"idle"} \cup Waiting \cup Ended]
    BY <1>2, <2>1 DEF IInv, TypeOK, Waiting
  <2>3. OthersKept(w)
    BY <2>1 DEF OthersKept, loop
  <2>4. LocalsPinned(w)'
    BY <1>2, <2>1, <2>2, OwnLocals, RowsKeptByStutter DEF loop
  <2>5. QED BY <2>1, <2>2, <2>3, <2>4, WorldStays, ThreadStep DEF IInv, TypeOK, loop
<1>6. CASE to[w] = "COMPENSATING"
  <2>1. /\ comp' = [comp EXCEPT ![w] = r]
        /\ tries' = [tries EXCEPT ![w] = 0]
        /\ pc' = [pc EXCEPT ![w] = "cancel"]
        /\ UNCHANGED <<services, db, net, cell, armed, rec, to, loop>>
    BY <1>6 DEF Reread, Terminals
  <2>2. /\ comp'[w] = r /\ comp' \in [Threads -> Row \cup {NoRow}] /\ pc'[w] = "cancel"
        /\ pc' \in [Threads -> {"idle"} \cup Waiting \cup Ended]
        /\ tries' \in [Threads -> 0 .. MaxAttempts - 1]
    BY <1>2, <2>1, OrchestratorAssumption DEF IInv, TypeOK, Waiting
  <2>3. OthersKept(w)
    BY <2>1 DEF OthersKept, loop
  <2>4. LocalsPinned(w)'
    BY <1>1, <1>2, <2>1, <2>2, NoRowFacts
       DEF IInv, IdentityInv, LocalsPinned, Holding, Pinned, HasRow, loop
  <2>5. QED BY <2>1, <2>2, <2>3, <2>4, WorldStays, ThreadStep DEF IInv, TypeOK, loop
<1>7. CASE to[w] \in Terminals
  <2>1. Return(w, r) /\ UNCHANGED <<services, db, net, cell, comp, armed, loop>>
    BY <1>7 DEF Reread, Terminals
  <2>2. /\ rec'[w] = r /\ rec' \in [Threads -> Row \cup Blank]
        /\ pc'[w] \in {"done", "returned"}
        /\ pc' \in [Threads -> {"idle"} \cup Waiting \cup Ended]
    BY <1>2, <2>1 DEF Return, IInv, TypeOK, Waiting, Ended
  <2>3. OthersKept(w)
    BY <2>1 DEF Return, OthersKept, loop
  <2>4. LocalsPinned(w)'
    BY <1>2, <2>1, <2>2, OwnLocals, RowsKeptByStutter DEF loop
  <2>5. QED BY <2>1, <2>2, <2>3, <2>4, WorldStays, ThreadStep DEF Return, IInv, TypeOK, loop
<1>8. QED BY <1>1, <1>3, <1>4, <1>5, <1>6, <1>7 DEF Reread

-----------------------------------------------------------------------------
(* The actions that change the table, the services or the network.         *)

(* What handling a request does to the rows of the services: at most the   *)
(* row of its transaction appears, under its key                           *)
LEMMA ServeEffects ==
    ASSUME ServicesTypeOK, NEW op \in Operations, NEW k \in Keys, NEW t \in Txs, NEW sc,
           Serve(op, k, t, sc), NEW u \in Txs
    PROVE  /\ carts'[u] # carts[u] => carts'[u] = k /\ u = t /\ carts[u] = NoKey
           /\ payments'[u] # payments[u] => payments'[u] = k /\ u = t /\ payments[u] = NoKey
           /\ orders'[u].key # orders[u].key =>
                  orders'[u].key = k /\ u = t /\ orders[u].status = "NONE"
           /\ (orders[u].status # "NONE" <=> orders[u].key # NoKey)
                  => (orders'[u].status # "NONE" <=> orders'[u].key # NoKey)
<1>1. CASE op = "create_cart"
  BY <1>1 DEF Serve, CreateCart, ServicesTypeOK
<1>2. CASE op = "create_order"
  BY <1>2, ServicesAssumption DEF Serve, CreateOrder, ServicesTypeOK, OrderRow
<1>3. CASE op = "execute_payment"
  BY <1>3 DEF Serve, ExecutePayment, ServicesTypeOK
<1>4. CASE op = "cancel_order"
  BY <1>4 DEF Serve, CancelOrder, ServicesTypeOK, OrderRow
<1>5. QED BY <1>1, <1>2, <1>3, <1>4 DEF Operations

LEMMA ServeWorld ==
    ASSUME IInv, NEW op \in Operations, NEW k \in Keys, NEW t \in Txs, NEW sc,
           Serve(op, k, t, sc), HasRow(k), db[k].tx = t,
           UNCHANGED db, net' \subseteq Message,
           \A m \in net' : HasRow(m.key) /\ db[m.key].tx = m.tx
    PROVE  World' /\ RowsKept
<1>1. ServicesTypeOK'
  BY ServeType DEF IInv, TypeOK
<1>2. EffectsPinned'
  <2>1. \A u \in Txs :
           /\ carts'[u] # NoKey => HasRow(carts'[u]) /\ db[carts'[u]].tx = u
           /\ payments'[u] # NoKey => HasRow(payments'[u]) /\ db[payments'[u]].tx = u
           /\ orders'[u].key # NoKey => HasRow(orders'[u].key) /\ db[orders'[u].key].tx = u
           /\ orders'[u].status # "NONE" <=> orders'[u].key # NoKey
    <3> SUFFICES ASSUME NEW u \in Txs
                 PROVE  /\ carts'[u] # NoKey => HasRow(carts'[u]) /\ db[carts'[u]].tx = u
                        /\ payments'[u] # NoKey =>
                              HasRow(payments'[u]) /\ db[payments'[u]].tx = u
                        /\ orders'[u].key # NoKey =>
                              HasRow(orders'[u].key) /\ db[orders'[u].key].tx = u
                        /\ orders'[u].status # "NONE" <=> orders'[u].key # NoKey
      OBVIOUS
    <3>1. /\ carts'[u] # carts[u] => carts'[u] = k /\ u = t
          /\ payments'[u] # payments[u] => payments'[u] = k /\ u = t
          /\ orders'[u].key # orders[u].key => orders'[u].key = k /\ u = t
          /\ (orders[u].status # "NONE" <=> orders[u].key # NoKey)
                 => (orders'[u].status # "NONE" <=> orders'[u].key # NoKey)
      BY ServeEffects DEF IInv, TypeOK
    <3>2. QED BY <3>1 DEF IInv, IdentityInv, EffectsPinned
  <2>2. QED BY <2>1 DEF EffectsPinned, HasRow
<1>3. QED BY <1>1, <1>2, RowsKeptByStutter DEF IInv, TypeOK, IdentityInv, World, HasRow

(* Requests that stay in flight, and one more                              *)
LEMMA SendWorld ==
    ASSUME IInv, UNCHANGED <<services, db>>, net' \subseteq Message,
           \A m \in net' : HasRow(m.key) /\ db[m.key].tx = m.tx
    PROVE  World' /\ RowsKept
BY RowsKeptByStutter
   DEF IInv, TypeOK, ServicesTypeOK, IdentityInv, EffectsPinned, HasRow, services, World

LEMMA OperationFacts ==
    ASSUME NEW w \in Threads
    PROVE  /\ Operation(w) \in {"create_cart", "create_order", "execute_payment"}
           /\ Operation(w) \in Operations
BY DEF Operation, OperationOf, Operations

(* The call thread w is about to make is pinned to the row of its key      *)
LEMMA OutgoingPinned ==
    ASSUME IInv, NEW w \in Threads, pc[w] = "call" \/ (pc[w] = "cancel" /\ comp[w].order)
    PROVE  /\ OutgoingCall(w) \in Message
           /\ HasRow(OutgoingCall(w).key) /\ db[OutgoingCall(w).key].tx = OutgoingCall(w).tx
<1>1. ScenarioOf(w) \in Scenarios
  BY DEF IInv, TypeOK, ScenarioOf, Scenarios, NoFailure
<1>2. rec[w] \in Row /\ Pinned(rec[w])
  BY LocalRow DEF IInv, IdentityInv, LocalsPinned, Holding
<1>3. pc[w] = "cancel" => comp[w] \in Row /\ Pinned(comp[w])
  BY Compensating DEF IInv, IdentityInv, LocalsPinned
<1>4. QED
  BY <1>1, <1>2, <1>3, OperationFacts, NoRowFacts
     DEF OutgoingCall, Message, Pinned, Operations

LEMMA CallPreserves ==
    ASSUME IInv, NEW w \in Threads, Call(w)
    PROVE  IInv'
<1>1. rec[w] \in Row /\ Pinned(rec[w]) /\ rec[w].key \in Keys /\ rec[w].tx \in Txs
  BY LocalRow, NoRowFacts DEF Call, IInv, IdentityInv, LocalsPinned, Holding
<1>2. World' /\ RowsKept
  BY <1>1, ServeWorld, OperationFacts
     DEF Call, Pinned, IInv, TypeOK, IdentityInv, EffectsPinned
<1>3. CASE SaveAs(w, StateAfter(Operation(w)))
  <2>1. armed' \in [Threads -> BOOLEAN] /\ rec[w].state # "NONE"
    BY <1>1, NoRowFacts DEF Call, IInv, TypeOK
  <2>2. QED
    BY <1>2, <1>3, <2>1, StateAfterFacts, SavePreserves DEF Call, States, Terminals
<1>4. CASE AttemptFails(w, Reply(Operation(w), rec[w].tx, ScenarioOf(w)))
  BY <1>2, <1>4, FailurePreserves DEF Call
<1>5. QED BY <1>3, <1>4 DEF Call

LEMMA CallLostPreserves ==
    ASSUME IInv, NEW w \in Threads, CallLost(w)
    PROVE  IInv'
<1>1. World' /\ RowsKept
  BY OutgoingPinned, SendWorld DEF CallLost, IInv, TypeOK, IdentityInv, EffectsPinned
<1>2. QED BY <1>1, FailurePreserves DEF CallLost

(* A step that ends an attempt to cancel without success                   *)
LEMMA CancelFailurePreserves ==
    ASSUME IInv, NEW w \in Threads, pc[w] = "cancel", CancelFails(w), World', RowsKept,
           UNCHANGED <<cell, comp, armed, loop>>
    PROVE  IInv'
<1>1. rec[w].state # "NONE" /\ comp[w].state # "NONE"
  BY DEF IInv, IdentityInv, LocalsPinned, Holding
<1>2. /\ UNCHANGED rec
      /\ pc' \in [Threads -> {"idle"} \cup Waiting \cup Ended]
      /\ \A v \in Threads \ {w} : pc'[v] = pc[v] /\ to'[v] = to[v]
      /\ pc'[w] \in {"cancel", "save"}
      /\ pc'[w] = "save" => to'[w] = "FAILED"
      /\ to' \in [Threads -> States \cup {"NONE"}]
      /\ tries' \in [Threads -> 0 .. MaxAttempts - 1]
  BY CancelFailsFacts DEF IInv
<1>3. armed' \in [Threads -> BOOLEAN]
  BY DEF IInv, TypeOK
<1>4. QED BY <1>1, <1>2, <1>3, MovePreserves

LEMMA CancelPreserves ==
    ASSUME IInv, NEW w \in Threads, Cancel(w)
    PROVE  IInv'
<1>1. /\ pc[w] = "cancel" /\ comp[w] \in Row /\ Pinned(comp[w])
      /\ comp[w].key \in Keys /\ comp[w].tx \in Txs
      /\ comp[w].state # "NONE" /\ rec[w].state # "NONE"
  BY Compensating, NoRowFacts DEF Cancel, IInv, IdentityInv, LocalsPinned, Holding
<1>2. CASE comp[w].order
  <2>1. Serve("cancel_order", comp[w].key, comp[w].tx, ScenarioOf(w))
    BY <1>2 DEF Cancel, Serve
  <2>2. World' /\ RowsKept
    BY <1>1, <2>1, ServeWorld
       DEF Cancel, Pinned, IInv, TypeOK, IdentityInv, EffectsPinned, Operations
  <2>3. CASE SaveAs(w, "COMPENSATED")
    <3>1. armed' \in [Threads -> BOOLEAN]
      BY DEF Cancel, IInv, TypeOK
    <3>2. QED
      BY <1>1, <2>2, <2>3, <3>1, SavePreserves DEF Cancel, States, Terminals
  <2>4. CASE CancelFails(w)
    BY <1>1, <2>2, <2>4, CancelFailurePreserves DEF Cancel
  <2>5. QED BY <1>2, <2>3, <2>4 DEF Cancel
<1>3. CASE ~ comp[w].order
  BY <1>1, <1>3, WorldStays, CancelFailurePreserves DEF Cancel
<1>4. QED BY <1>2, <1>3

LEMMA CancelLostPreserves ==
    ASSUME IInv, NEW w \in Threads, CancelLost(w)
    PROVE  IInv'
<1>1. World' /\ RowsKept
  BY OutgoingPinned, SendWorld DEF CancelLost, IInv, TypeOK, IdentityInv, EffectsPinned
<1>2. QED BY <1>1, CancelFailurePreserves DEF CancelLost

(* Effects and requests stay pinned when the table keeps its rows          *)
LEMMA EffectsStay ==
    ASSUME IInv, RowsKept, UNCHANGED <<services, net>>
    PROVE  EffectsPinned'
<1>1. UNCHANGED <<carts, orders, payments, net>> /\ ServicesTypeOK /\ net \subseteq Message
  BY DEF services, IInv, TypeOK
<1>2. \A k \in Keys : db[k].state # "NONE" => db'[k].state # "NONE" /\ db'[k].tx = db[k].tx
  BY DEF RowsKept, HasRow
<1>3. /\ \A m \in net : m.key \in Keys
      /\ \A t \in Txs : /\ carts[t] # NoKey => carts[t] \in Keys
                        /\ payments[t] # NoKey => payments[t] \in Keys
                        /\ orders[t].key # NoKey => orders[t].key \in Keys
  BY <1>1 DEF Message, ServicesTypeOK, OrderRow
<1>4. EffectsPinned
  BY DEF IInv, IdentityInv
<1>5. QED BY <1>1, <1>2, <1>3, <1>4 DEF EffectsPinned, HasRow

LEMMA UnsavedRow ==
    ASSUME NEW u \in Blank, u.key \in Keys, u.tx \in Txs, NEW s \in States
    PROVE  LET r == [u EXCEPT !.state = s]
           IN  r \in Row /\ r.key = u.key /\ r.tx = u.tx /\ r.state = s
<1>1. u \in [key : Keys, tx : Txs, state : {"NONE"},
             cart : BOOLEAN, order : BOOLEAN, payment : BOOLEAN]
  <2>1. PICK k, t : u = Unsaved(k, t)
    BY DEF Blank, NoRow
  <2>2. Unsaved(k, t).key = k /\ Unsaved(k, t).tx = t
    BY DEF Unsaved
  <2>3. k \in Keys /\ t \in Txs
    BY <2>1, <2>2
  <2>4. QED BY <2>1, <2>3 DEF Unsaved
<1>2. QED BY <1>1 DEF Row

LEMMA InsertPreserves ==
    ASSUME IInv, NEW w \in Threads, Insert(w)
    PROVE  IInv'
<1> DEFINE k == rec[w].key
           r == [rec[w] EXCEPT !.state = "STARTED"]
<1>1. /\ pc[w] = "insert" /\ rec[w] \in Row \cup Blank /\ LocalsPinned(w)
      /\ k \in Keys /\ rec[w].tx \in Txs
  BY DEF Insert, IInv, TypeOK, IdentityInv, LocalsPinned
<1>2. rec[w].state = "NONE" \/ rec[w] \in Row
  BY <1>1, NoRowFacts
<1>3. r \in Row /\ r.key = k /\ r.tx = rec[w].tx /\ r.state = "STARTED"
  <2>1. "STARTED" \in States
    BY DEF States
  <2>2. CASE rec[w] \in Row
    BY <1>1, <2>1, <2>2 DEF Row
  <2>3. CASE rec[w] \in Blank
    BY <1>1, <2>1, <2>3, UnsavedRow
  <2>4. QED BY <1>1, <2>2, <2>3
<1>4. CASE UNCHANGED db
  <2>1. World' /\ RowsKept
    BY <1>4, WorldStays DEF Insert
  <2>2. QED
    <3>1. OthersKept(w)
      BY DEF Insert, OthersKept, loop
    <3>2. pc' \in [Threads -> {"idle"} \cup Waiting \cup Ended] /\ pc'[w] = "created"
      BY DEF Insert, IInv, TypeOK, Waiting
    <3>3. LocalsPinned(w)'
      BY <1>1, <1>4, <3>2 DEF Insert, LocalsPinned, Holding, Pinned, HasRow, loop
    <3>4. QED BY <2>1, <3>1, <3>2, <3>3, ThreadStep DEF Insert, IInv, TypeOK, loop
<1>5. CASE /\ db[k] = NoRow /\ \A j \in Keys : db[j].tx # rec[w].tx
           /\ db' = [db EXCEPT ![k] = r]
  <2>1. /\ db'[k] = r /\ \A j \in Keys \ {k} : db'[j] = db[j]
        /\ db' \in [Keys -> Row \cup {NoRow}] /\ ~ HasRow(k)
    BY <1>1, <1>3, <1>5, NoRowFacts DEF IInv, TypeOK, HasRow
  <2>2. RowsKept
    BY <2>1 DEF RowsKept, HasRow
  <2>3. \A j \in Keys : HasRow(j)' => db'[j].key = j
    BY <1>3, <2>1 DEF IInv, IdentityInv, HasRow
  <2>4. \A i, j \in Keys : HasRow(i)' /\ db'[i].tx = db'[j].tx => i = j
    BY <1>3, <1>5, <2>1 DEF IInv, IdentityInv, HasRow
  <2>5. EffectsPinned'
    BY <2>2, EffectsStay DEF Insert
  <2>6. World'
    BY <2>1, <2>3, <2>4, <2>5
       DEF World, Insert, services, IInv, TypeOK, ServicesTypeOK
  <2>7. OthersKept(w)
    BY DEF Insert, OthersKept, loop
  <2>8. pc' \in [Threads -> {"idle"} \cup Waiting \cup Ended] /\ pc'[w] = "created"
    BY DEF Insert, IInv, TypeOK, Waiting
  <2>9. LocalsPinned(w)'
    <3>1. comp[w] \in Row \cup {NoRow} /\ queue[w] \subseteq Row
      BY DEF IInv, TypeOK
    <3>2. rec[w].state # "NONE" => Pinned(rec[w])'
      BY <1>1, <2>2 DEF LocalsPinned, Pinned, RowsKept, HasRow, Insert
    <3>3. comp[w].state # "NONE" => Pinned(comp[w])'
      BY <1>1, <2>2, <3>1, NoRowFacts DEF LocalsPinned, Pinned, RowsKept, HasRow, Insert
    <3>4. \A q \in queue[w] : Pinned(q)'
      BY <1>1, <2>2, <3>1, NoRowFacts, PinnedStable DEF LocalsPinned
    <3>5. QED
      BY <1>1, <2>8, <3>2, <3>3, <3>4 DEF Insert, LocalsPinned, Holding, loop
  <2>10. QED
    BY <2>2, <2>6, <2>7, <2>8, <2>9, ThreadStep DEF Insert, IInv, TypeOK, loop
<1>6. QED BY <1>4, <1>5 DEF Insert

(* What thread w saves is a row of the transaction its record is pinned to *)
LEMMA OutgoingFacts ==
    ASSUME IInv, NEW w \in Threads, pc[w] = "save"
    PROVE  /\ Outgoing(w) \in Row /\ Pinned(Outgoing(w))
           /\ Outgoing(w).state = to[w] /\ to[w] \in States
           /\ Outgoing(w).key \in Keys /\ Outgoing(w).tx \in Txs
<1>1. rec[w] \in Row /\ Pinned(rec[w])
  BY LocalRow DEF IInv, IdentityInv, LocalsPinned, Holding
<1>2. to[w] \in States
  BY DEF IInv, TypeOK, IdentityInv, LocalsPinned
<1>3. to[w] = "COMPENSATED" => comp[w] \in Row /\ Pinned(comp[w])
  BY Compensating DEF IInv, IdentityInv, LocalsPinned
<1>4. Outgoing(w) \in Row /\ Outgoing(w).state = to[w]
  BY <1>1, <1>2, <1>3 DEF Outgoing, Row
<1>5. Pinned(Outgoing(w))
  BY <1>1, <1>3 DEF Outgoing, Pinned, Row
<1>6. QED BY <1>2, <1>4, <1>5, NoRowFacts

LEMMA SaveStepPreserves ==
    ASSUME IInv, NEW w \in Threads, Save(w)
    PROVE  IInv'
<1> DEFINE r == Outgoing(w)
<1>1. r \in Row /\ Pinned(r) /\ r.state # "NONE" /\ r.key \in Keys /\ r.tx \in Txs
  BY OutgoingFacts, NoRowFacts DEF Save
<1>2. db' = [k \in Keys |-> IF db[k].tx = r.tx THEN [r EXCEPT !.key = k] ELSE db[k]]
  BY DEF Save
<1>3. \A k \in Keys : /\ db'[k].tx = db[k].tx
                      /\ db'[k].state # "NONE" <=> db[k].state # "NONE"
                      /\ db'[k] \in Row \cup {NoRow}
                      /\ HasRow(k) => db'[k].key = k
  <2> SUFFICES ASSUME NEW k \in Keys
               PROVE  /\ db'[k].tx = db[k].tx
                      /\ db'[k].state # "NONE" <=> db[k].state # "NONE"
                      /\ db'[k] \in Row \cup {NoRow}
                      /\ HasRow(k) => db'[k].key = k
    OBVIOUS
  <2>1. CASE db[k].tx = r.tx
    <3>1. HasRow(k)
      BY <1>1, <2>1, RowTyping, OrchestratorAssumption DEF IInv
    <3>2. db'[k] = [r EXCEPT !.key = k]
      BY <1>2, <2>1
    <3>3. db'[k] \in Row /\ db'[k].tx = r.tx /\ db'[k].key = k /\ db'[k].state = r.state
      BY <1>1, <3>2 DEF Row
    <3>4. QED BY <1>1, <2>1, <3>1, <3>3 DEF HasRow
  <2>2. CASE db[k].tx # r.tx
    BY <1>2, <2>2 DEF HasRow, IInv, TypeOK, IdentityInv
  <2>3. QED BY <2>1, <2>2
<1>4. RowsKept
  BY <1>3 DEF RowsKept, HasRow
<1>5. db' \in [Keys -> Row \cup {NoRow}]
  BY <1>2, <1>3
<1>6. \A i, j \in Keys : HasRow(i)' /\ db'[i].tx = db'[j].tx => i = j
  BY <1>3 DEF IInv, IdentityInv, HasRow
<1>7. EffectsPinned'
  BY <1>4, EffectsStay DEF Save
<1>8. World'
  BY <1>3, <1>5, <1>6, <1>7 DEF World, Save, HasRow, services, IInv, TypeOK, ServicesTypeOK
<1>9. OthersKept(w)
  BY DEF Save, OthersKept, loop
<1>10. pc' \in [Threads -> {"idle"} \cup Waiting \cup Ended] /\ pc'[w] = "reread"
  BY DEF Save, IInv, TypeOK, Waiting
<1>11. rec[w] \in Row /\ Pinned(rec[w]) /\ to[w] # "NONE"
  BY LocalRow DEF Save, IInv, IdentityInv, LocalsPinned, Holding
<1>12. LocalsPinned(w)'
  BY <1>4, <1>10, <1>11, OwnLocals DEF Save, loop
<1>13. QED
  BY <1>4, <1>8, <1>9, <1>10, <1>12, ThreadStep DEF Save, IInv, TypeOK, loop

LEMMA DeliverPreserves ==
    ASSUME IInv, NEW m \in net, Deliver(m)
    PROVE  IInv'
<1>1. /\ m.op \in Operations /\ m.key \in Keys /\ m.tx \in Txs
      /\ HasRow(m.key) /\ db[m.key].tx = m.tx
  BY DEF IInv, TypeOK, Message, IdentityInv, EffectsPinned
<1>2. World' /\ RowsKept
  BY <1>1, ServeWorld DEF Deliver, IInv, TypeOK, IdentityInv, EffectsPinned
<1>3. \A v \in Threads : LocalsPinned(v)'
  <2> SUFFICES ASSUME NEW v \in Threads
               PROVE  LocalsPinned(v)'
    OBVIOUS
  <2>1. UNCHANGED <<db, pc, rec, comp, to, queue>> /\ LocalsPinned(v)
    BY DEF Deliver, loop, IInv, IdentityInv
  <2>2. QED BY <2>1 DEF LocalsPinned, Pinned, HasRow
<1>4. TypeOK'
  BY <1>2 DEF World, Deliver, IInv, TypeOK, cell, loop
<1>5. QED BY <1>2, <1>3, <1>4 DEF IInv, IdentityInv, World

LEMMA ForgetType ==
    ASSUME NEW S, NEW local \in [Threads -> S], NEW blank \in S
    PROVE  Forget(local, blank) \in [Threads -> S]
BY DEF Forget

LEMMA CrashPreserves ==
    ASSUME IInv, Crash
    PROVE  IInv'
<1>1. PICK sent \in SUBSET UnderWay : net' = net \cup {OutgoingCall(w) : w \in sent}
  BY DEF Crash
<1>2. \A w \in sent : /\ OutgoingCall(w) \in Message
                      /\ HasRow(OutgoingCall(w).key)
                      /\ db[OutgoingCall(w).key].tx = OutgoingCall(w).tx
  BY OutgoingPinned DEF UnderWay, Active
<1>3. World' /\ RowsKept
  <2>1. net' \subseteq Message /\ \A m \in net' : HasRow(m.key) /\ db[m.key].tx = m.tx
    BY <1>1, <1>2 DEF IInv, TypeOK, IdentityInv, EffectsPinned
  <2>2. QED BY <2>1, SendWorld DEF Crash
<1>4. \A v \in Threads : LocalsPinned(v)'
  <2> SUFFICES ASSUME NEW v \in Threads
               PROVE  LocalsPinned(v)'
    OBVIOUS
  <2>1. UNCHANGED db /\ LocalsPinned(v)
    BY DEF Crash, IInv, IdentityInv
  <2>2. CASE v \in Active
    <3>1. /\ pc'[v] = "lost" /\ rec'[v] = NoRow /\ comp'[v] = NoRow
          /\ to'[v] = "NONE" /\ queue'[v] = {}
      BY <2>2 DEF Crash, Forget
    <3>2. QED BY <2>1, <3>1, NoRowFacts DEF LocalsPinned, Holding
  <2>3. CASE v \notin Active
    <3>1. /\ pc'[v] = pc[v] /\ rec'[v] = rec[v] /\ comp'[v] = comp[v]
          /\ to'[v] = to[v] /\ queue'[v] = queue[v]
      BY <2>3 DEF Crash, Forget
    <3>2. QED BY <2>1, <3>1 DEF LocalsPinned, Pinned, HasRow
  <2>4. QED BY <2>2, <2>3
<1>5. TypeOK'
  <2>1. /\ pc' \in [Threads -> {"idle"} \cup Waiting \cup Ended]
        /\ rec' \in [Threads -> Row \cup Blank]
        /\ comp' \in [Threads -> Row \cup {NoRow}]
        /\ to' \in [Threads -> States \cup {"NONE"}]
        /\ armed' \in [Threads -> BOOLEAN]
        /\ prev' \in [Threads -> States \cup {"NONE"}]
        /\ queue' \in [Threads -> SUBSET Row]
    <3>1. /\ "lost" \in {"idle"} \cup Waiting \cup Ended /\ NoRow \in Row \cup Blank
          /\ NoRow \in Row \cup {NoRow} /\ "NONE" \in States \cup {"NONE"}
          /\ FALSE \in BOOLEAN /\ {} \in SUBSET Row
      BY DEF Ended, Blank
    <3>2. Forget(pc, "lost") \in [Threads -> {"idle"} \cup Waiting \cup Ended]
      BY <3>1, ForgetType DEF IInv, TypeOK
    <3>3. Forget(rec, NoRow) \in [Threads -> Row \cup Blank]
      BY <3>1, ForgetType DEF IInv, TypeOK
    <3>4. Forget(comp, NoRow) \in [Threads -> Row \cup {NoRow}]
      BY <3>1, ForgetType DEF IInv, TypeOK
    <3>5. /\ Forget(to, "NONE") \in [Threads -> States \cup {"NONE"}]
          /\ Forget(prev, "NONE") \in [Threads -> States \cup {"NONE"}]
      BY <3>1, ForgetType DEF IInv, TypeOK
    <3>6. Forget(armed, FALSE) \in [Threads -> BOOLEAN]
      BY <3>1, ForgetType DEF IInv, TypeOK
    <3>7. Forget(queue, {}) \in [Threads -> SUBSET Row]
      BY <3>1, ForgetType DEF IInv, TypeOK
    <3>8. QED BY <3>2, <3>3, <3>4, <3>5, <3>6, <3>7 DEF Crash
  <2>2. 0 \in 0 .. MaxAttempts - 1 /\ 0 \in 0 .. MaxAttempts
    BY OrchestratorAssumption
  <2>3. /\ tries' \in [Threads -> 0 .. MaxAttempts - 1]
        /\ rounds' \in [Threads -> 0 .. MaxAttempts]
    BY <2>2 DEF Crash, Forget, IInv, TypeOK
  <2>4. crashes' \in 0 .. MaxCrashes
    BY OrchestratorAssumption DEF Crash, IInv, TypeOK
  <2>5. QED BY <1>3, <2>1, <2>3, <2>4 DEF World, Crash, IInv, TypeOK
<1>6. QED BY <1>3, <1>4, <1>5 DEF IInv, IdentityInv, World

-----------------------------------------------------------------------------

LEMMA InitIInv == Init => IInv
<1> SUFFICES ASSUME Init PROVE IInv
  OBVIOUS
<1>1. TypeOK
  <2>1. ServicesTypeOK
    BY DEF Init, ServicesInit, ServicesTypeOK, OrderRow, NoOrder, AttemptsCap
  <2>2. /\ configuration \in AllConfigurations /\ scenario \in Scenarios
        /\ crashes \in 0 .. MaxCrashes
        /\ tries \in [Threads -> 0 .. MaxAttempts - 1]
        /\ rounds \in [Threads -> 0 .. MaxAttempts]
    BY OrchestratorAssumption DEF Init
  <2>3. QED BY <2>1, <2>2 DEF Init, TypeOK, Blank
<1>2. IdentityInv
  <2>1. \A w \in Threads : LocalsPinned(w)
    BY NoRowFacts DEF Init, LocalsPinned, Holding
  <2>2. EffectsPinned
    BY DEF Init, ServicesInit, NoOrder, EffectsPinned
  <2>3. QED BY <2>1, <2>2, NoRowFacts DEF Init, IdentityInv, HasRow
<1>3. QED BY <1>1, <1>2 DEF IInv

LEMMA NextIInv == IInv /\ [Next]_vars => IInv'
<1> SUFFICES ASSUME IInv, [Next]_vars PROVE IInv'
  OBVIOUS
<1>1. CASE UNCHANGED vars
  <2>1. UNCHANGED <<services, db, net, cell, pc, rec, comp, to, tries, armed, loop>>
    BY <1>1 DEF vars
  <2>2. World' /\ RowsKept
    BY <2>1, WorldStays
  <2>3. \A w \in Threads : LocalsPinned(w)'
    BY <2>1 DEF IInv, IdentityInv, LocalsPinned, Pinned, HasRow, loop
  <2>4. QED
    BY <2>1, <2>2, <2>3 DEF IInv, TypeOK, IdentityInv, World, cell, loop
<1>2. ASSUME NEW w \in Threads, Execute(w) \/ RecoverOne(w) \/ Sweep(w) \/ Step(w)
      PROVE  IInv'
  BY <1>2, ExecutePreserves, RecoverOnePreserves, SweepPreserves, InsertPreserves,
     ReadCreatedPreserves, LoopPreserves, NextRecordPreserves, LookupPreserves,
     LookupLostPreserves, CallPreserves, CallLostPreserves, ReconcilePreserves,
     SaveStepPreserves, RereadPreserves, ReleasePreserves, CancelPreserves,
     CancelLostPreserves DEF Step
<1>3. ASSUME NEW m \in net, Deliver(m)
      PROVE  IInv'
  BY <1>3, DeliverPreserves
<1>4. CASE Crash
  BY <1>4, CrashPreserves
<1>5. QED BY <1>1, <1>2, <1>3, <1>4 DEF Next

LEMMA Inductive == Spec => []IInv
BY InitIInv, NextIInv, PTL DEF Spec

(* Type correctness of the orchestrator and the services it drives, for    *)
(* any number of keys, transactions, threads, retries and crashes.         *)
THEOREM TypeCorrect == Spec => []TypeOK
<1>1. IInv => TypeOK
  BY DEF IInv
<1>2. QED BY <1>1, Inductive, PTL

(* Every row, every local record, every effect and every request in flight *)
(* is tied to the one transaction of its key.                              *)
THEOREM IdentityHolds == Spec => []IdentityInv
<1>1. IInv => IdentityInv
  BY DEF IInv
<1>2. QED BY <1>1, Inductive, PTL

(* One transaction, one cart, one order and one payment per idempotency    *)
(* key, whatever requests overlap, crash, are lost or arrive late: the two *)
(* unique constraints and create()'s re-read by key suffice.               *)
THEOREM Identity == Spec => []IdentityPreserved
<1>1. ASSUME IInv PROVE IdentityPreserved
  <2>1. EffectsPinned /\ ServicesTypeOK /\ net \subseteq Message
    BY <1>1 DEF IInv, IdentityInv, TypeOK
  <2>2. \A k \in Keys, t \in Txs :
           carts[t] = k \/ orders[t].key = k \/ payments[t] = k => db[k].tx = t
    BY <2>1, ServicesAssumption DEF EffectsPinned, ServicesTypeOK
  <2>3. \A m \in net : db[m.key].tx = m.tx
    BY <2>1 DEF EffectsPinned
  <2>4. QED BY <1>1, <2>2, <2>3 DEF IInv, IdentityInv, IdentityPreserved
<1>2. QED BY <1>1, Inductive, PTL

-----------------------------------------------------------------------------
(* Evidence: what a record claims exists.                                  *)

EInv == IInv /\ EvidenceInv

(* The part of EvidenceInv that is not about threads                       *)
Evidence ==
    /\ \A k \in Keys : HasRow(k) => Backed(db[k])
    /\ NetInOrder
    /\ EffectsInOrder
    /\ CompensatedMeansCancelled

-----------------------------------------------------------------------------
(* Effects are permanent, whatever the orchestrator calls.                 *)

LEMMA CallKeeps ==
    ASSUME IInv, NEW w \in Threads, Call(w) \/ Cancel(w)
    PROVE  EffectsKept
<1>1. CASE Call(w)
  <2>1. rec[w] \in Row /\ rec[w].key \in Keys /\ rec[w].tx \in Txs
    BY <1>1, LocalRow, NoRowFacts DEF Call, IInv, IdentityInv, LocalsPinned, Holding
  <2>2. QED BY <1>1, <2>1, OperationFacts, ServeKeeps DEF Call, IInv, TypeOK
<1>2. CASE Cancel(w)
  <2>1. comp[w] \in Row /\ comp[w].key \in Keys /\ comp[w].tx \in Txs
    BY <1>2, Compensating, NoRowFacts DEF Cancel, IInv, IdentityInv, LocalsPinned
  <2>2. UNCHANGED services \/ Serve("cancel_order", comp[w].key, comp[w].tx, ScenarioOf(w))
    BY <1>2 DEF Cancel, Serve
  <2>3. QED BY <2>1, <2>2, IdleKeeps, ServeKeeps DEF IInv, TypeOK, Operations
<1>3. QED BY <1>1, <1>2

LEMMA DeliverKeeps ==
    ASSUME IInv, NEW m \in net, Deliver(m)
    PROVE  EffectsKept
BY ServeKeeps DEF Deliver, IInv, TypeOK, Message

LEMMA NextKeeps == IInv /\ [Next]_vars => EffectsKept
<1> SUFFICES ASSUME IInv, [Next]_vars PROVE EffectsKept
  OBVIOUS
<1>1. CASE UNCHANGED vars
  BY <1>1, IdleKeeps DEF vars
<1>2. ASSUME NEW w \in Threads, Execute(w) \/ RecoverOne(w) \/ Sweep(w) \/ Step(w)
      PROVE  EffectsKept
  <2>1. CASE Call(w) \/ Cancel(w)
    BY <2>1, CallKeeps
  <2>2. CASE ~ (Call(w) \/ Cancel(w))
    BY <1>2, <2>2, IdleKeeps
       DEF Step, Execute, RecoverOne, Sweep, Insert, ReadCreated, Loop, NextRecord, Lookup,
           LookupLost, CallLost, Reconcile, ReconcileLost, Save, Reread, Release, CancelLost
  <2>3. QED BY <2>1, <2>2
<1>3. ASSUME NEW m \in net, Deliver(m)
      PROVE  EffectsKept
  BY <1>3, DeliverKeeps
<1>4. CASE Crash
  BY <1>4, IdleKeeps DEF Crash
<1>5. QED BY <1>1, <1>2, <1>3, <1>4 DEF Next

(* No cart, order or payment is taken back or changes hands, and a         *)
(* cancelled order stays cancelled, in every run of the whole system:      *)
(* retries, duplicates, recovery, late and lost calls included.            *)
THEOREM PermanentEffects == Spec => EffectsArePermanent
<1>1. IInv /\ [Next]_vars => [EffectsKept]_services
  BY NextKeeps
<1>2. QED BY <1>1, Inductive, PTL DEF Spec, EffectsArePermanent

-----------------------------------------------------------------------------
(* Evidence stays.                                                         *)

LEMMA BackedStays ==
    ASSUME IInv, EffectsKept, NEW r \in Row, Backed(r)
    PROVE  Backed(r)'
<1>1. r.key \in Keys /\ r.tx \in Txs /\ r.key # NoKey
  BY NoRowFacts, ServicesAssumption
<1>2. /\ carts[r.tx] = r.key => carts'[r.tx] = r.key
      /\ payments[r.tx] = r.key => payments'[r.tx] = r.key
      /\ orders[r.tx].key = r.key => orders'[r.tx].key = r.key
  BY <1>1 DEF EffectsKept, IInv, IdentityInv, EffectsPinned
<1>3. QED BY <1>2 DEF Backed, Identified

LEMMA OthersBacked ==
    ASSUME EInv, EffectsKept, NEW w \in Threads, OthersKept(w), NEW v \in Threads \ {w}
    PROVE  LocalsBacked(v)'
<1>1. LocalsBacked(v) /\ IInv
  BY DEF EInv, EvidenceInv
<1>2. /\ pc'[v] = pc[v] /\ rec'[v] = rec[v] /\ comp'[v] = comp[v]
      /\ to'[v] = to[v] /\ queue'[v] = queue[v]
  BY DEF OthersKept
<1>3. rec[v].state # "NONE" => Backed(rec[v])'
  <2>1. rec[v].state # "NONE" => rec[v] \in Row /\ Backed(rec[v])
    BY <1>1, LocalRow DEF LocalsBacked
  <2>2. rec[v].state # "NONE" => rec[v].key \in Keys /\ rec[v].tx \in Txs
    BY <2>1, NoRowFacts
  <2>3. QED BY <1>1, <1>2, <2>1, <2>2, BackedStays DEF Backed, Identified
<1>4. comp[v].state # "NONE" => Backed(comp[v])'
  <2>1. comp[v].state # "NONE" => comp[v] \in Row /\ Backed(comp[v])
    BY <1>1, Compensating DEF LocalsBacked
  <2>2. QED BY <1>1, <1>2, <2>1, BackedStays DEF Backed, Identified
<1>5. \A r \in queue[v] : Backed(r)'
  BY <1>1, BackedStays DEF LocalsBacked, IInv, TypeOK
<1>6. pc[v] = "save" => Backed(Outgoing(v))'
  <2>1. pc[v] = "save" => Outgoing(v) \in Row /\ Backed(Outgoing(v))
    BY <1>1, OutgoingFacts DEF LocalsBacked
  <2>2. Outgoing(v)' = Outgoing(v)
    BY <1>2 DEF Outgoing
  <2>3. QED BY <1>1, <2>1, <2>2, BackedStays DEF Backed, Identified
<1>7. pc[v] = "save" /\ to[v] = "COMPENSATED" => orders'[comp[v].tx].status = "CANCELLED"
  <2>1. pc[v] = "save" /\ to[v] = "COMPENSATED" => comp[v].tx \in Txs
    BY <1>1, Compensating, NoRowFacts DEF IInv, IdentityInv, LocalsPinned
  <2>2. QED BY <1>1, <2>1 DEF LocalsBacked, EffectsKept
<1>8. QED BY <1>1, <1>2, <1>3, <1>4, <1>5, <1>6, <1>7 DEF LocalsBacked

(* The table is not written                                                *)
LEMMA TableBacked ==
    ASSUME EInv, EffectsKept, UNCHANGED db
    PROVE  /\ \A k \in Keys : HasRow(k)' => Backed(db[k])'
           /\ CompensatedMeansCancelled'
<1>1. \A k \in Keys : HasRow(k) => db[k] \in Row /\ Backed(db[k]) /\ db[k].tx \in Txs
  BY RowTyping, NoRowFacts DEF EInv, EvidenceInv, IInv
<1>2. \A k \in Keys : HasRow(k)' => Backed(db[k])'
  <2> SUFFICES ASSUME NEW k \in Keys, HasRow(k)' PROVE Backed(db[k])'
    OBVIOUS
  <2>1. HasRow(k) /\ db'[k] = db[k]
    BY DEF HasRow
  <2>2. QED BY <1>1, <2>1, BackedStays DEF Backed, Identified, EInv
<1>3. CompensatedMeansCancelled'
  BY <1>1 DEF EInv, EvidenceInv, CompensatedMeansCancelled, EffectsKept, HasRow
<1>4. QED BY <1>2, <1>3

(* A request handled in the order of the stages                            *)
LEMMA OrderServed ==
    ASSUME EInv, NEW op \in Operations, NEW k \in Keys, NEW t \in Txs, NEW sc,
           Serve(op, k, t, sc),
           op = "create_order" => carts[t] = k,
           op = "execute_payment" => orders[t].key = k
    PROVE  EffectsInOrder'
<1> SUFFICES ASSUME NEW u \in Txs
             PROVE  /\ payments'[u] # NoKey => orders'[u].key = payments'[u]
                    /\ orders'[u].status # "NONE" => carts'[u] = orders'[u].key
  BY DEF EffectsInOrder
<1>1. /\ payments[u] # NoKey => orders[u].key = payments[u]
      /\ orders[u].status # "NONE" => carts[u] = orders[u].key
      /\ orders[u].status # "NONE" <=> orders[u].key # NoKey
      /\ ServicesTypeOK
  BY DEF EInv, EvidenceInv, EffectsInOrder, IInv, IdentityInv, EffectsPinned, TypeOK
<1>2. CASE op = "create_cart"
  BY <1>1, <1>2, ServicesAssumption DEF Serve, CreateCart, ServicesTypeOK, OrderRow
<1>3. CASE op = "create_order"
  BY <1>1, <1>3, ServicesAssumption DEF Serve, CreateOrder, ServicesTypeOK, OrderRow
<1>4. CASE op = "execute_payment"
  BY <1>1, <1>4, ServicesAssumption DEF Serve, ExecutePayment, ServicesTypeOK, OrderRow
<1>5. CASE op = "cancel_order"
  BY <1>1, <1>5, ServicesAssumption DEF Serve, CancelOrder, ServicesTypeOK, OrderRow
<1>6. QED BY <1>2, <1>3, <1>4, <1>5 DEF Operations

LEMMA OrderStays ==
    ASSUME EInv, UNCHANGED services
    PROVE  EffectsInOrder'
BY DEF EInv, EvidenceInv, EffectsInOrder, services

(* What thread w is about to send respects the order of the stages         *)
LEMMA OutgoingInOrder ==
    ASSUME EInv, NEW w \in Threads, pc[w] \in {"lookup", "call", "reconcile"}
    PROVE  /\ rec[w] \in Row /\ Backed(rec[w]) /\ rec[w].state \in Calling
           /\ rec[w].key \in Keys /\ rec[w].tx \in Txs /\ rec[w].key # NoKey
           /\ Operation(w) = "create_order" => carts[rec[w].tx] = rec[w].key
           /\ Operation(w) = "execute_payment" => orders[rec[w].tx].key = rec[w].key
<1>1. rec[w] \in Row /\ Backed(rec[w]) /\ rec[w].state \in Calling
  BY LocalRow
     DEF EInv, EvidenceInv, LocalsBacked, IInv, IdentityInv, LocalsPinned, Holding
<1>2. Operation(w) = "create_order" => rec[w].state = "CART_CREATED"
  BY DEF Operation, OperationOf
<1>3. Operation(w) = "execute_payment" => rec[w].state = "PAYMENT_PENDING"
  BY <1>1 DEF Operation, OperationOf, Calling
<1>4. "CART_CREATED" \in ClaimsCart /\ "PAYMENT_PENDING" \in ClaimsOrder
  BY DEF ClaimsCart, ClaimsOrder, States, Terminals
<1>5. QED BY <1>1, <1>2, <1>3, <1>4, NoRowFacts, ServicesAssumption DEF Backed, Identified

LEMMA NetStays ==
    ASSUME EInv, EffectsKept,
           \A m \in net' \ net : /\ m \in Message
                                 /\ m.op = "create_order" => carts[m.tx] = m.key
                                 /\ m.op = "execute_payment" => orders[m.tx].key = m.key
    PROVE  NetInOrder'
<1>1. \A m \in net' : /\ m.key \in Keys /\ m.tx \in Txs /\ m.key # NoKey
                      /\ m.op = "create_order" => carts[m.tx] = m.key
                      /\ m.op = "execute_payment" => orders[m.tx].key = m.key
  BY ServicesAssumption DEF EInv, EvidenceInv, NetInOrder, IInv, TypeOK, Message
<1>2. \A t \in Txs : orders[t].status # "NONE" <=> orders[t].key # NoKey
  BY DEF EInv, IInv, IdentityInv, EffectsPinned
<1>3. QED BY <1>1, <1>2 DEF NetInOrder, EffectsKept

LEMMA NetKept ==
    ASSUME EInv, EffectsKept, net' \subseteq net
    PROVE  NetInOrder'
BY NetStays

LEMMA OutgoingCallInOrder ==
    ASSUME EInv, NEW w \in Threads, pc[w] = "call" \/ (pc[w] = "cancel" /\ comp[w].order)
    PROVE  LET m == OutgoingCall(w)
           IN  /\ m \in Message
               /\ m.op = "create_order" => carts[m.tx] = m.key
               /\ m.op = "execute_payment" => orders[m.tx].key = m.key
<1>1. OutgoingCall(w) \in Message
  BY OutgoingPinned DEF EInv
<1>2. CASE pc[w] = "call"
  BY <1>1, <1>2, OutgoingInOrder DEF OutgoingCall
<1>3. CASE pc[w] = "cancel"
  BY <1>1, <1>3 DEF OutgoingCall
<1>4. QED BY <1>1, <1>2, <1>3

(* An effect inspected under the key of a record is the effect of its      *)
(* transaction                                                             *)
LEMMA InspectedMine ==
    ASSUME EInv, NEW r \in Row, Pinned(r)
    PROVE  /\ \A t \in Txs : carts[t] = r.key => t = r.tx
           /\ \A t \in Txs : orders[t].key = r.key => t = r.tx
           /\ \A t \in Txs : payments[t] = r.key => t = r.tx
           /\ carts[r.tx] # NoKey => carts[r.tx] = r.key
           /\ orders[r.tx].key # NoKey => orders[r.tx].key = r.key
           /\ payments[r.tx] # NoKey => payments[r.tx] = r.key
<1>1. r.key \in Keys /\ r.tx \in Txs /\ r.key # NoKey /\ db[r.key].tx = r.tx /\ HasRow(r.key)
  BY NoRowFacts, ServicesAssumption DEF Pinned
<1>2. EffectsPinned /\ ServicesTypeOK
  BY DEF EInv, IInv, IdentityInv, TypeOK
<1>3. /\ \A t \in Txs : carts[t] \in Keys \cup {NoKey}
      /\ \A t \in Txs : payments[t] \in Keys \cup {NoKey}
      /\ \A t \in Txs : orders[t].key \in Keys \cup {NoKey}
  BY <1>2 DEF ServicesTypeOK, OrderRow
<1>4. \A k \in Keys : HasRow(k) /\ db[k].tx = r.tx => k = r.key
  BY <1>1 DEF EInv, IInv, IdentityInv
<1>5. QED BY <1>1, <1>2, <1>3, <1>4 DEF EffectsPinned

-----------------------------------------------------------------------------
(* What the thread that takes the step knows afterwards.                   *)

LEMMA OwnBacked ==
    ASSUME EInv, EffectsKept, NEW w \in Threads, NEW r, rec'[w] = r,
           r.state # "NONE" => r \in Row /\ Backed(r),
           comp'[w] = comp[w], queue'[w] \subseteq queue[w],
           pc'[w] \in {"lookup", "call", "reconcile"} => r.state \in Calling,
           pc'[w] = "save" => Backed(Outgoing(w))',
           pc'[w] = "save" /\ to'[w] = "COMPENSATED" => orders'[comp[w].tx].status = "CANCELLED"
    PROVE  LocalsBacked(w)'
<1>1. LocalsBacked(w) /\ IInv
  BY DEF EInv, EvidenceInv
<1>2. r.state # "NONE" => Backed(r)'
  BY <1>1, BackedStays
<1>3. comp[w].state # "NONE" => Backed(comp[w])'
  <2>1. comp[w].state # "NONE" => comp[w] \in Row /\ Backed(comp[w])
    BY <1>1, Compensating DEF LocalsBacked
  <2>2. QED BY <1>1, <2>1, BackedStays DEF Backed, Identified
<1>4. \A q \in queue'[w] : Backed(q)'
  BY <1>1, BackedStays DEF LocalsBacked, IInv, TypeOK
<1>5. QED BY <1>2, <1>3, <1>4 DEF LocalsBacked, Backed

(* It enters continueResilient with a record that was backed when read     *)
LEMMA EnterBacked ==
    ASSUME EInv, EffectsKept, NEW w \in Threads, NEW r \in Row, NEW from \in 1 .. 5,
           Enter(w, r, from), Backed(r), comp'[w] = comp[w], queue'[w] \subseteq queue[w]
    PROVE  LocalsBacked(w)'
<1>1. /\ rec' = [rec EXCEPT ![w] = r] /\ rec'[w] = r
      /\ pc'[w] \in {"done", "returned", "lookup", "call", "save"}
      /\ pc'[w] = "save" => to'[w] \in {"PAYMENT_PENDING", "COMPLETED"}
  BY EnterFacts DEF EInv, IInv, TypeOK
<1>2. pc'[w] \in {"lookup", "call"} => r.state \in Calling
  <2>1. CASE Return(w, r)
    BY <2>1 DEF Return, EInv, IInv, TypeOK
  <2>2. CASE ~ Return(w, r)
    BY <2>2 DEF Enter, Calling, EInv, IInv, TypeOK
  <2>3. QED BY <2>1, <2>2
<1>3. pc'[w] = "save" => \/ r.state = "ORDER_CREATED" /\ to'[w] = "PAYMENT_PENDING"
                         \/ r.state = "PAYMENT_COMPLETED" /\ to'[w] = "COMPLETED"
  <2>1. CASE Return(w, r)
    BY <2>1 DEF Return, EInv, IInv, TypeOK
  <2>2. CASE ~ Return(w, r)
    BY <2>2 DEF Enter, Attempt, EInv, IInv, TypeOK
  <2>3. QED BY <2>1, <2>2
<1>4. pc'[w] = "save" => Backed(Outgoing(w))'
  <2> SUFFICES ASSUME NEW s, pc'[w] = "save", to'[w] = s PROVE Backed(Outgoing(w))'
    OBVIOUS
  <2>1. Outgoing(w)' = [r EXCEPT !.state = s]
    BY <1>1 DEF Outgoing
  <2>2. Backed([r EXCEPT !.state = s])'
    <3>1. Backed(r)'
      BY BackedStays DEF EInv
    <3>2. QED
      BY <1>3, <3>1 DEF Backed, Identified, ClaimsCart, ClaimsOrder, ClaimsPayment, States, Terminals, Row
  <2>3. QED BY <2>1, <2>2 DEF Backed, Identified
<1>5. QED BY <1>1, <1>2, <1>4, OwnBacked

(* It gives the attempt up or tries again                                  *)
LEMMA GiveUpBacked ==
    ASSUME EInv, EffectsKept, NEW w \in Threads, NEW s \in {"COMPENSATING", "FAILED"},
           SaveAs(w, s), rec[w] \in Row, Backed(rec[w]), s = "COMPENSATING" => rec[w].order,
           comp'[w] = comp[w], queue'[w] = queue[w]
    PROVE  LocalsBacked(w)'
<1>1. /\ rec' = rec /\ pc'[w] = "save" /\ to'[w] = s
  BY DEF SaveAs, EInv, IInv, TypeOK
<1>2. Outgoing(w)' = [rec[w] EXCEPT !.state = s]
  BY <1>1 DEF Outgoing
<1>3. Backed([rec[w] EXCEPT !.state = s])
  <2>1. rec[w].order =>
          carts[rec[w].tx] = rec[w].key /\ orders[rec[w].tx].key = rec[w].key
    <3>1. rec[w].key # NoKey /\ rec[w].tx \in Txs
      BY NoRowFacts, ServicesAssumption
    <3>2. QED
      BY <3>1 DEF Backed, Identified, EInv, EvidenceInv, EffectsInOrder, IInv, IdentityInv, EffectsPinned
  <2>2. QED
    BY <2>1 DEF Backed, Identified, ClaimsCart, ClaimsOrder, ClaimsPayment, States, Terminals, Row
<1>4. [rec[w] EXCEPT !.state = s] \in Row
  BY DEF Row, States, Terminals
<1>5. Backed([rec[w] EXCEPT !.state = s])'
  <2>1. Backed([rec[w] EXCEPT !.state = s])'
    BY <1>1, <1>3, <1>4, BackedStays DEF Backed, Identified, EInv
  <2>2. QED BY <2>1
<1>6. Backed(Outgoing(w))'
  BY <1>1, <1>2, <1>5 DEF Backed, Identified
<1>7. QED BY <1>1, <1>6, OwnBacked

(* The effect of operation op for record r is there                        *)
Effect(op, r) ==
    /\ op = "create_cart" => carts[r.tx] = r.key
    /\ op = "create_order" => orders[r.tx].key = r.key
    /\ op = "execute_payment" => payments[r.tx] = r.key

(* It records the effect of the attempt                                    *)
LEMMA AdvanceBacked ==
    ASSUME EInv, EffectsKept, NEW w \in Threads, pc[w] \in {"lookup", "call", "reconcile"},
           SaveAs(w, StateAfter(Operation(w))), Effect(Operation(w), rec[w])',
           comp'[w] = comp[w], queue'[w] = queue[w]
    PROVE  LocalsBacked(w)'
<1> DEFINE s == StateAfter(Operation(w))
<1>1. rec[w] \in Row /\ Backed(rec[w]) /\ rec[w].state \in Calling
  BY OutgoingInOrder
<1>2. rec' = rec /\ pc'[w] = "save" /\ to'[w] = s
  BY DEF SaveAs, EInv, IInv, TypeOK
<1>3. Backed(rec[w])'
  BY <1>1, <1>2, BackedStays DEF EInv, Backed
<1>4. Operation(w)' = Operation(w)
  BY <1>2 DEF Operation
<1>5. Backed(Outgoing(w))'
  <2>1. CASE rec[w].state = "STARTED"
    <3>1. s = "CART_CREATED" /\ carts'[rec[w].tx] = rec[w].key
      BY <1>2, <1>4, <2>1 DEF Operation, OperationOf, StateAfter, Effect
    <3>2. Outgoing(w)' = [rec[w] EXCEPT !.state = "CART_CREATED", !.cart = TRUE]
      BY <1>2, <3>1 DEF Outgoing
    <3>3. QED
      BY <1>1, <1>2, <1>3, <3>1, <3>2
         DEF Backed, Identified, ClaimsCart, ClaimsOrder, ClaimsPayment, States, Terminals, Row
  <2>2. CASE rec[w].state = "CART_CREATED"
    <3>1. s = "ORDER_CREATED" /\ orders'[rec[w].tx].key = rec[w].key
      BY <1>2, <1>4, <2>2 DEF Operation, OperationOf, StateAfter, Effect
    <3>2. Outgoing(w)' = [rec[w] EXCEPT !.state = "ORDER_CREATED", !.order = TRUE]
      BY <1>2, <3>1 DEF Outgoing
    <3>3. QED
      BY <1>1, <1>2, <1>3, <2>2, <3>1, <3>2
         DEF Backed, Identified, ClaimsCart, ClaimsOrder, ClaimsPayment, States, Terminals, Row
  <2>3. CASE rec[w].state = "PAYMENT_PENDING"
    <3>1. s = "PAYMENT_COMPLETED" /\ payments'[rec[w].tx] = rec[w].key
      BY <1>2, <1>4, <2>3 DEF Operation, OperationOf, StateAfter, Effect
    <3>2. Outgoing(w)' = [rec[w] EXCEPT !.state = "PAYMENT_COMPLETED", !.payment = TRUE]
      BY <1>2, <3>1 DEF Outgoing
    <3>3. QED
      BY <1>1, <1>2, <1>3, <2>3, <3>1, <3>2
         DEF Backed, Identified, ClaimsCart, ClaimsOrder, ClaimsPayment, States, Terminals, Row
  <2>4. QED BY <1>1, <2>1, <2>2, <2>3 DEF Calling
<1>6. s # "COMPENSATED"
  BY StateAfterFacts
<1>7. QED BY <1>1, <1>2, <1>5, <1>6, OwnBacked

LEMMA FailureBacked ==
    ASSUME EInv, EffectsKept, NEW w \in Threads, pc[w] \in {"lookup", "call"}, NEW reply,
           AttemptFails(w, reply), comp'[w] = comp[w], queue'[w] = queue[w]
    PROVE  LocalsBacked(w)'
<1>1. rec[w] \in Row /\ Backed(rec[w]) /\ rec[w].state \in Calling
  BY OutgoingInOrder
<1>2. CASE GiveUp(w)
  BY <1>1, <1>2, GiveUpBacked DEF GiveUp
<1>3. CASE ~ GiveUp(w)
  <2>1. rec' = rec /\ pc'[w] \in {"lookup", "call", "reconcile"}
    BY <1>3 DEF AttemptFails, Attempt, EInv, IInv, TypeOK
  <2>2. QED BY <1>1, <2>1, OwnBacked
<1>4. QED BY <1>2, <1>3

(* An effect counted under the key is the effect of the record             *)
LEMMA InspectFinds ==
    ASSUME EInv, NEW r \in Row, Pinned(r),
           NEW op \in {"create_cart", "create_order", "execute_payment"}, Inspect(op, r.key)
    PROVE  Effect(op, r)
BY InspectedMine DEF Inspect, Effect

(* A call answered with "ok" has left its effect                           *)
LEMMA ServedEffect ==
    ASSUME EInv, NEW r \in Row, Pinned(r), NEW sc,
           NEW op \in {"create_cart", "create_order", "execute_payment"},
           Serve(op, r.key, r.tx, sc), Reply(op, r.tx, sc) = "ok"
    PROVE  Effect(op, r)'
<1>1. r.tx \in Txs /\ ServicesTypeOK /\ r.key # NoKey
  BY NoRowFacts, ServicesAssumption DEF EInv, IInv, TypeOK
<1>2. /\ carts[r.tx] # NoKey => carts[r.tx] = r.key
      /\ orders[r.tx].key # NoKey => orders[r.tx].key = r.key
      /\ payments[r.tx] # NoKey => payments[r.tx] = r.key
      /\ orders[r.tx].status # "NONE" <=> orders[r.tx].key # NoKey
  BY <1>1, InspectedMine DEF EInv, IInv, IdentityInv, EffectsPinned
<1>3. Passes(op, r.tx, sc)
  BY DEF Reply, Passes
<1>4. CASE op = "create_cart"
  BY <1>1, <1>2, <1>3, <1>4 DEF Serve, CreateCart, ServicesTypeOK, Effect
<1>5. CASE op = "create_order"
  BY <1>1, <1>2, <1>3, <1>5 DEF Serve, CreateOrder, ServicesTypeOK, Effect
<1>6. CASE op = "execute_payment"
  BY <1>1, <1>2, <1>3, <1>6 DEF Serve, ExecutePayment, ServicesTypeOK, Effect
<1>7. QED BY <1>4, <1>5, <1>6

-----------------------------------------------------------------------------
(* One lemma per action: it preserves EvidenceInv.                         *)

LEMMA EvidenceStep ==
    ASSUME EInv, EffectsKept, NEW w \in Threads, OthersKept(w), LocalsBacked(w)', Evidence'
    PROVE  EvidenceInv'
<1>1. \A v \in Threads : LocalsBacked(v)'
  BY OthersBacked
<1>2. QED BY <1>1 DEF EvidenceInv, Evidence

(* Neither table nor services nor network change                           *)
LEMMA QuietEvidence ==
    ASSUME EInv, UNCHANGED <<services, db, net>>
    PROVE  EffectsKept /\ Evidence'
<1>1. EffectsKept
  BY IdleKeeps
<1>2. NetInOrder'
  BY DEF EInv, EvidenceInv, NetInOrder, services
<1>3. QED BY <1>1, <1>2, TableBacked, OrderStays DEF Evidence

LEMMA EnterEvidence ==
    ASSUME EInv, NEW w \in Threads, NEW r \in Row, NEW from \in 1 .. 5, Enter(w, r, from),
           Backed(r), UNCHANGED <<services, db, net, comp>>, queue'[w] \subseteq queue[w],
           \A v \in Threads \ {w} : queue'[v] = queue[v]
    PROVE  EvidenceInv'
<1>1. /\ rec' = [rec EXCEPT ![w] = r]
      /\ \A v \in Threads \ {w} : pc'[v] = pc[v] /\ to'[v] = to[v]
  BY EnterFacts DEF EInv, IInv
<1>2. OthersKept(w)
  BY <1>1 DEF OthersKept, EInv, IInv, TypeOK
<1>3. LocalsBacked(w)'
  BY EnterBacked, QuietEvidence
<1>4. QED BY <1>2, <1>3, QuietEvidence, EvidenceStep

(* Thread w moves on without a claim to record                             *)
LEMMA MoveEvidence ==
    ASSUME EInv, NEW w \in Threads, NEW p \in Ended \cup {"insert", "created", "returned",
                                                        "held", "cancel"},
           pc' = [pc EXCEPT ![w] = p],
           rec'[w].state # "NONE" => rec'[w] \in Row /\ Backed(rec'[w]),
           comp'[w].state # "NONE" => comp'[w] \in Row /\ Backed(comp'[w]),
           \A q \in queue'[w] : q \in Row /\ Backed(q),
           OthersKept(w), UNCHANGED <<services, db, net>>
    PROVE  EvidenceInv'
<1>1. pc'[w] = p
  BY DEF EInv, IInv, TypeOK
<1>2. EffectsKept /\ IInv
  BY QuietEvidence DEF EInv
<1>3. rec'[w].state # "NONE" => Backed(rec[w])'
  BY <1>2, BackedStays DEF Backed, Identified
<1>4. comp'[w].state # "NONE" => Backed(comp[w])'
  BY <1>2, BackedStays DEF Backed, Identified
<1>5. \A q \in queue'[w] : Backed(q)'
  BY <1>2, BackedStays
<1>6. LocalsBacked(w)'
  BY <1>1, <1>3, <1>4, <1>5 DEF LocalsBacked, Ended
<1>7. QED BY <1>6, QuietEvidence, EvidenceStep

(* A local record that holds a row is backed                               *)
LEMMA LocalBacked ==
    ASSUME EInv, NEW w \in Threads
    PROVE  /\ rec[w].state # "NONE" => rec[w] \in Row /\ Backed(rec[w])
           /\ comp[w].state # "NONE" => comp[w] \in Row /\ Backed(comp[w])
           /\ \A q \in queue[w] : q \in Row /\ Backed(q)
BY LocalRow, Compensating DEF EInv, EvidenceInv, LocalsBacked, IInv, TypeOK

(* A row read from the table is backed                                     *)
LEMMA ReadBacked ==
    ASSUME EInv, NEW k \in Keys, db[k] # NoRow
    PROVE  db[k] \in Row /\ Backed(db[k])
BY RowTyping DEF EInv, EvidenceInv, IInv

LEMMA EndEvidence ==
    ASSUME EInv, NEW w \in Threads, NEW p \in Ended, pc' = [pc EXCEPT ![w] = p],
           UNCHANGED <<services, db, net, rec, comp, to, queue>>
    PROVE  EvidenceInv'
<1>1. OthersKept(w)
  BY DEF OthersKept
<1>2. QED BY <1>1, LocalBacked, MoveEvidence

LEMMA ExecuteEvidence ==
    ASSUME EInv, NEW w \in Threads, Execute(w)
    PROVE  EvidenceInv'
<1>1. PICK k \in Keys, t \in Txs :
          \/ /\ db[k] # NoRow
             /\ Enter(w, db[k], 1)
          \/ /\ db[k] = NoRow
             /\ rec' = [rec EXCEPT ![w] = Unsaved(k, t)]
             /\ pc' = [pc EXCEPT ![w] = "insert"]
             /\ UNCHANGED <<to, tries>>
  BY DEF Execute
<1>2. CASE db[k] # NoRow
  BY <1>1, <1>2, ReadBacked, EnterEvidence DEF Execute, loop
<1>3. CASE db[k] = NoRow
  <2>1. /\ rec' = [rec EXCEPT ![w] = Unsaved(k, t)]
        /\ pc' = [pc EXCEPT ![w] = "insert"]
        /\ UNCHANGED <<to, services, db, net, comp, queue>>
    BY <1>1, <1>3 DEF Execute, loop
  <2>2. rec'[w].state = "NONE"
    BY <2>1 DEF Unsaved, EInv, IInv, TypeOK
  <2>3. OthersKept(w)
    BY <2>1 DEF OthersKept
  <2>4. QED BY <2>1, <2>2, <2>3, LocalBacked, MoveEvidence
<1>4. QED BY <1>2, <1>3

LEMMA ReadCreatedEvidence ==
    ASSUME EInv, NEW w \in Threads, ReadCreated(w)
    PROVE  EvidenceInv'
<1>1. rec[w].key \in Keys
  BY DEF ReadCreated, EInv, IInv, IdentityInv, LocalsPinned
<1>2. CASE db[rec[w].key] # NoRow
  BY <1>1, <1>2, ReadBacked, EnterEvidence DEF ReadCreated, loop
<1>3. CASE db[rec[w].key] = NoRow
  BY <1>3, EndEvidence DEF ReadCreated, Ended, loop
<1>4. QED BY <1>2, <1>3

LEMMA RecoverOneEvidence ==
    ASSUME EInv, NEW w \in Threads, RecoverOne(w)
    PROVE  EvidenceInv'
<1>1. PICK k \in Keys :
          \/ /\ pc' = [pc EXCEPT ![w] = "error"]
             /\ UNCHANGED rec
          \/ /\ db[k] # NoRow
             /\ rec' = [rec EXCEPT ![w] = db[k]]
             /\ pc' = [pc EXCEPT ![w] = "returned"]
  BY DEF RecoverOne
<1>2. CASE pc' = [pc EXCEPT ![w] = "error"] /\ UNCHANGED rec
  BY <1>2, EndEvidence DEF RecoverOne, Ended, loop
<1>3. CASE /\ db[k] # NoRow
           /\ rec' = [rec EXCEPT ![w] = db[k]]
           /\ pc' = [pc EXCEPT ![w] = "returned"]
  <2>1. rec'[w] = db[k] /\ db[k] \in Row /\ Backed(db[k])
    BY <1>3, ReadBacked DEF EInv, IInv, TypeOK
  <2>2. OthersKept(w)
    BY <1>3 DEF RecoverOne, OthersKept, loop
  <2>3. QED BY <1>3, <2>1, <2>2, LocalBacked, MoveEvidence DEF RecoverOne, loop
<1>4. QED BY <1>1, <1>2, <1>3

LEMMA LoopEvidence ==
    ASSUME EInv, NEW w \in Threads, Loop(w)
    PROVE  EvidenceInv'
<1>1. rec[w] \in Row /\ Backed(rec[w])
  BY LocalBacked DEF Loop, EInv, IInv, IdentityInv, LocalsPinned
<1>2. CASE Enter(w, rec[w], 1)
  BY <1>1, <1>2, EnterEvidence DEF Loop
<1>3. CASE pc' = [pc EXCEPT ![w] = "done"] /\ UNCHANGED <<rec, to, tries, prev, rounds>>
  BY <1>3, EndEvidence DEF Loop, Ended
<1>4. QED BY <1>2, <1>3 DEF Loop

LEMMA SweepEvidence ==
    ASSUME EInv, NEW w \in Threads, Sweep(w)
    PROVE  EvidenceInv'
<1>1. \A q \in queue'[w] : q \in Row /\ Backed(q)
  BY ReadBacked, NoRowFacts DEF Sweep, EInv, IInv, TypeOK
<1>2. OthersKept(w)
  BY DEF Sweep, OthersKept
<1>3. QED BY <1>1, <1>2, LocalBacked, MoveEvidence DEF Sweep

LEMMA NextRecordEvidence ==
    ASSUME EInv, NEW w \in Threads, NextRecord(w)
    PROVE  EvidenceInv'
<1>1. CASE \E r \in queue[w] : queue' = [queue EXCEPT ![w] = @ \ {r}] /\ Enter(w, r, 1)
  <2>1. PICK r \in queue[w] : queue' = [queue EXCEPT ![w] = @ \ {r}] /\ Enter(w, r, 1)
    BY <1>1
  <2>2. r \in Row /\ Backed(r)
    BY LocalBacked
  <2>3. queue'[w] \subseteq queue[w]
    BY <2>1 DEF EInv, IInv, TypeOK
  <2>4. QED BY <2>1, <2>2, <2>3, EnterEvidence DEF NextRecord
<1>2. CASE pc' = [pc EXCEPT ![w] = "done"] /\ UNCHANGED <<rec, to, tries, queue>>
  BY <1>2, EndEvidence DEF NextRecord, Ended
<1>3. QED BY <1>1, <1>2 DEF NextRecord

LEMMA LookupEvidence ==
    ASSUME EInv, NEW w \in Threads, Lookup(w) \/ Reconcile(w)
    PROVE  EvidenceInv'
<1>1. /\ pc[w] \in {"lookup", "reconcile"}
      /\ UNCHANGED <<services, db, net, comp, loop>>
  BY DEF Lookup, Reconcile
<1>2. EffectsKept /\ Evidence'
  BY <1>1, QuietEvidence
<1>3. /\ rec[w] \in Row /\ Backed(rec[w]) /\ rec[w].state \in Calling /\ Pinned(rec[w])
      /\ Operation(w) \in {"create_cart", "create_order", "execute_payment"}
  BY <1>1, OutgoingInOrder, OperationFacts, LocalRow
     DEF EInv, IInv, IdentityInv, LocalsPinned, Holding
<1>4. CASE Inspect(Operation(w), rec[w].key) /\ SaveAs(w, StateAfter(Operation(w)))
  <2>1. UNCHANGED rec
    BY <1>4 DEF SaveAs
  <2>2. Effect(Operation(w), rec[w])'
    BY <1>1, <1>3, <1>4, <2>1, InspectFinds DEF Effect, Operation, services
  <2>3. LocalsBacked(w)'
    BY <1>1, <1>2, <1>4, <2>2, AdvanceBacked DEF loop
  <2>4. OthersKept(w)
    BY <1>1, <1>4 DEF SaveAs, OthersKept, loop
  <2>5. QED BY <1>2, <2>3, <2>4, EvidenceStep
<1>5. CASE pc' = [pc EXCEPT ![w] = "call"] /\ UNCHANGED <<rec, to, tries>>
  <2>1. pc'[w] = "call" /\ rec'[w] = rec[w]
    BY <1>5 DEF EInv, IInv, TypeOK
  <2>2. LocalsBacked(w)'
    BY <1>1, <1>2, <1>3, <2>1, OwnBacked DEF loop
  <2>3. OthersKept(w)
    BY <1>1, <1>5 DEF OthersKept, loop
  <2>4. QED BY <1>2, <2>2, <2>3, EvidenceStep
<1>6. CASE GiveUp(w)
  <2>1. LocalsBacked(w)'
    BY <1>1, <1>2, <1>3, <1>6, GiveUpBacked DEF GiveUp, loop
  <2>2. OthersKept(w)
    BY <1>1, <1>6 DEF GiveUp, SaveAs, OthersKept, loop
  <2>3. QED BY <1>2, <2>1, <2>2, EvidenceStep
<1>7. QED BY <1>4, <1>5, <1>6 DEF Lookup, Reconcile

LEMMA AttemptFailsOthers ==
    ASSUME EInv, NEW w \in Threads, NEW reply, AttemptFails(w, reply), UNCHANGED <<comp, loop>>
    PROVE  OthersKept(w)
BY AttemptFailsFacts DEF OthersKept, loop, EInv, IInv

LEMMA LookupLostEvidence ==
    ASSUME EInv, NEW w \in Threads, LookupLost(w)
    PROVE  EvidenceInv'
BY AttemptFailsOthers, QuietEvidence, FailureBacked, EvidenceStep DEF LookupLost, loop

LEMMA ReconcileLostEvidence ==
    ASSUME EInv, NEW w \in Threads, ReconcileLost(w)
    PROVE  EvidenceInv'
<1>1. EffectsKept /\ Evidence'
  BY QuietEvidence DEF ReconcileLost
<1>2. LocalsBacked(w)'
  BY <1>1, OutgoingInOrder, GiveUpBacked DEF ReconcileLost, GiveUp, loop
<1>3. OthersKept(w)
  BY DEF ReconcileLost, GiveUp, SaveAs, OthersKept, loop
<1>4. QED BY <1>1, <1>2, <1>3, EvidenceStep

LEMMA CallEvidence ==
    ASSUME EInv, NEW w \in Threads, Call(w)
    PROVE  EvidenceInv'
<1> DEFINE op == Operation(w)
           r == rec[w]
<1>1. /\ pc[w] = "call" /\ Serve(op, r.key, r.tx, ScenarioOf(w))
      /\ UNCHANGED <<db, net, comp, loop>>
  BY DEF Call
<1>2. /\ r \in Row /\ Pinned(r) /\ r.key \in Keys /\ r.tx \in Txs
      /\ op = "create_order" => carts[r.tx] = r.key
      /\ op = "execute_payment" => orders[r.tx].key = r.key
      /\ op \in {"create_cart", "create_order", "execute_payment"} /\ op \in Operations
  BY <1>1, OutgoingInOrder, OperationFacts, LocalRow
     DEF EInv, IInv, IdentityInv, LocalsPinned, Holding
<1>3. EffectsKept
  BY CallKeeps DEF EInv
<1>4. Evidence'
  <2>1. EffectsInOrder'
    BY <1>1, <1>2, OrderServed
  <2>2. NetInOrder'
    BY <1>1, <1>3, NetKept
  <2>3. QED BY <1>1, <1>3, <2>1, <2>2, TableBacked DEF Evidence
<1>5. CASE SaveAs(w, StateAfter(op)) /\ Reply(op, r.tx, ScenarioOf(w)) = "ok"
  <2>1. UNCHANGED rec
    BY <1>5 DEF SaveAs
  <2>2. Effect(op, rec[w])'
    BY <1>1, <1>2, <1>5, <2>1, ServedEffect DEF Effect, Operation
  <2>3. LocalsBacked(w)'
    BY <1>1, <1>3, <1>5, <2>2, AdvanceBacked DEF loop
  <2>4. OthersKept(w)
    BY <1>1, <1>5 DEF SaveAs, OthersKept, loop
  <2>5. QED BY <1>3, <1>4, <2>3, <2>4, EvidenceStep
<1>6. CASE AttemptFails(w, Reply(op, r.tx, ScenarioOf(w)))
  <2>1. LocalsBacked(w)'
    BY <1>1, <1>3, <1>6, FailureBacked DEF loop
  <2>2. OthersKept(w)
    BY <1>1, <1>6, AttemptFailsOthers
  <2>3. QED BY <1>3, <1>4, <2>1, <2>2, EvidenceStep
<1>7. QED BY <1>5, <1>6 DEF Call

(* A request more is in flight                                             *)
LEMMA SendEvidence ==
    ASSUME EInv, NEW w \in Threads, pc[w] = "call" \/ (pc[w] = "cancel" /\ comp[w].order),
           UNCHANGED <<services, db>>, net' = net \cup {OutgoingCall(w)}
    PROVE  EffectsKept /\ Evidence'
<1>1. EffectsKept
  BY IdleKeeps
<1>2. NetInOrder'
  BY <1>1, OutgoingCallInOrder, NetStays
<1>3. QED BY <1>1, <1>2, TableBacked, OrderStays DEF Evidence

LEMMA CallLostEvidence ==
    ASSUME EInv, NEW w \in Threads, CallLost(w)
    PROVE  EvidenceInv'
BY SendEvidence, AttemptFailsOthers, FailureBacked, EvidenceStep DEF CallLost, loop

LEMMA InsertEvidence ==
    ASSUME EInv, NEW w \in Threads, Insert(w)
    PROVE  EvidenceInv'
<1> DEFINE k == rec[w].key
           r == [rec[w] EXCEPT !.state = "STARTED"]
<1>1. k \in Keys /\ rec[w] \in Row \cup Blank
  BY DEF Insert, EInv, IInv, TypeOK, IdentityInv, LocalsPinned
<1>2. OthersKept(w) /\ UNCHANGED <<services, net, rec, comp, queue>>
  BY DEF Insert, OthersKept, loop
<1>3. CASE UNCHANGED db
  BY <1>2, <1>3, LocalBacked, MoveEvidence DEF Insert
<1>4. CASE db[k] = NoRow /\ db' = [db EXCEPT ![k] = r]
  <2>1. db'[k] = r /\ \A j \in Keys \ {k} : db'[j] = db[j]
    BY <1>1, <1>4 DEF EInv, IInv, TypeOK
  <2>2. Backed(r) /\ r.state = "STARTED"
    <3>1. rec[w].state # "NONE" => Backed(rec[w])
      BY LocalBacked
    <3>2. rec[w].state = "NONE" => ~ rec[w].cart /\ ~ rec[w].order /\ ~ rec[w].payment
      BY <1>1, NoRowFacts DEF Blank, NoRow, Unsaved
    <3>3. /\ r.key = rec[w].key /\ r.tx = rec[w].tx /\ r.state = "STARTED"
          /\ r.cart = rec[w].cart /\ r.order = rec[w].order /\ r.payment = rec[w].payment
      BY <1>1, NoRowFacts DEF Row, Blank, NoRow, Unsaved
    <3>4. QED
      BY <3>1, <3>2, <3>3 DEF Backed, Identified, ClaimsCart, ClaimsOrder, ClaimsPayment, Terminals
  <2>3. EffectsKept /\ EffectsInOrder' /\ UNCHANGED <<carts, orders, payments>>
    BY <1>2, IdleKeeps, OrderStays DEF services
  <2>4. NetInOrder'
    BY <1>2, <2>3, NetKept
  <2>5. \A j \in Keys : HasRow(j)' => Backed(db[j])'
    BY <2>1, <2>2, <2>3 DEF EInv, EvidenceInv, HasRow, Backed
  <2>6. CompensatedMeansCancelled'
    BY <2>1, <2>2, <2>3 DEF EInv, EvidenceInv, CompensatedMeansCancelled
  <2>7. Evidence'
    BY <2>3, <2>4, <2>5, <2>6 DEF Evidence
  <2>8. pc'[w] = "created"
    BY DEF Insert, EInv, IInv, TypeOK
  <2>9. LocalsBacked(w)'
    <3>1. rec'[w] = rec[w] /\ comp'[w] = comp[w] /\ queue'[w] = queue[w]
      BY <1>2
    <3>2. QED BY <2>3, <2>8, <3>1, LocalBacked, OwnBacked
  <2>10. QED BY <1>2, <2>3, <2>7, <2>9, EvidenceStep
<1>5. QED BY <1>3, <1>4 DEF Insert

LEMMA SaveEvidence ==
    ASSUME EInv, NEW w \in Threads, Save(w)
    PROVE  EvidenceInv'
<1> DEFINE r == Outgoing(w)
<1>1. /\ r \in Row /\ Pinned(r) /\ r.state = to[w] /\ r.key \in Keys /\ r.tx \in Txs
      /\ Backed(r)
  BY OutgoingFacts DEF Save, EInv, EvidenceInv, LocalsBacked
<1>2. db' = [k \in Keys |-> IF db[k].tx = r.tx THEN [r EXCEPT !.key = k] ELSE db[k]]
  BY DEF Save
<1>3. \A k \in Keys : db[k].tx = r.tx => k = r.key
  BY <1>1 DEF Pinned, EInv, IInv, IdentityInv
<1>4. /\ db'[r.key] = [r EXCEPT !.key = r.key]
      /\ \A k \in Keys \ {r.key} : db'[k] = db[k]
  BY <1>1, <1>2, <1>3 DEF Pinned
<1>5. [r EXCEPT !.key = r.key] = r
  BY <1>1 DEF Row
<1>6. OthersKept(w) /\ UNCHANGED <<services, net, rec, comp, to, queue>>
  BY DEF Save, OthersKept, loop
<1>7. EffectsKept /\ EffectsInOrder' /\ UNCHANGED <<carts, orders, payments>>
  BY <1>6, IdleKeeps, OrderStays DEF services
<1>8. NetInOrder'
  BY <1>6, <1>7, NetKept
<1>9. \A k \in Keys : HasRow(k)' => Backed(db[k])'
  BY <1>1, <1>4, <1>5, <1>7 DEF EInv, EvidenceInv, HasRow, Backed
<1>10. CompensatedMeansCancelled'
  <2>1. to[w] = "COMPENSATED" => orders[r.tx].status = "CANCELLED"
    <3>1. to[w] = "COMPENSATED" => r = [comp[w] EXCEPT !.state = "COMPENSATED"]
      BY DEF Outgoing
    <3>2. to[w] = "COMPENSATED" => comp[w] \in Row
      BY Compensating DEF Save, EInv, IInv, IdentityInv, LocalsPinned
    <3>3. to[w] = "COMPENSATED" => r.tx = comp[w].tx
      BY <3>1, <3>2 DEF Row
    <3>4. QED BY <3>3 DEF Save, EInv, EvidenceInv, LocalsBacked
  <2>2. QED
    BY <1>1, <1>4, <1>5, <1>7, <2>1 DEF EInv, EvidenceInv, CompensatedMeansCancelled
<1>11. Evidence'
  BY <1>7, <1>8, <1>9, <1>10 DEF Evidence
<1>12. pc'[w] = "reread"
  BY DEF Save, EInv, IInv, TypeOK
<1>13. LocalsBacked(w)'
  <2>1. rec'[w] = rec[w] /\ comp'[w] = comp[w] /\ queue'[w] = queue[w]
    BY <1>6
  <2>2. QED BY <1>7, <1>12, <2>1, LocalBacked, OwnBacked
<1>14. QED BY <1>6, <1>7, <1>11, <1>13, EvidenceStep

LEMMA AfterOrderEvidence ==
    ASSUME EInv, NEW w \in Threads, NEW r \in Row, Backed(r), AfterOrder(w, r),
           UNCHANGED <<services, db, net, comp, loop>>
    PROVE  EvidenceInv'
<1>1. CASE pc' = [pc EXCEPT ![w] = "error"] /\ UNCHANGED <<rec, to, tries>>
  BY <1>1, EndEvidence DEF Ended, loop
<1>2. CASE Enter(w, r, 3)
  BY <1>2, EnterEvidence DEF loop
<1>3. QED BY <1>1, <1>2 DEF AfterOrder

LEMMA ReleaseEvidence ==
    ASSUME EInv, NEW w \in Threads, Release(w)
    PROVE  EvidenceInv'
<1>1. rec[w] \in Row /\ Backed(rec[w])
  BY LocalBacked DEF Release, EInv, IInv, IdentityInv, LocalsPinned, Holding
<1>2. QED BY <1>1, AfterOrderEvidence DEF Release

LEMMA RereadEvidence ==
    ASSUME EInv, NEW w \in Threads, Reread(w)
    PROVE  EvidenceInv'
<1> DEFINE r == db[rec[w].key]
<1>1. rec[w] \in Row /\ r # NoRow /\ rec[w].key \in Keys /\ pc[w] = "reread"
  BY LocalRow, NoRowFacts DEF Reread, EInv, IInv, IdentityInv, LocalsPinned, Holding
<1>2. r \in Row /\ Backed(r)
  BY <1>1, ReadBacked
<1>3. UNCHANGED <<services, db, net, queue>>
  BY DEF Reread, loop
<1>4. CASE to[w] \in {"CART_CREATED", "PAYMENT_PENDING", "PAYMENT_COMPLETED"}
  <2>1. StageOf(to[w]) \in 1 .. 5
    BY <1>4 DEF StageOf
  <2>2. Enter(w, r, StageOf(to[w])) /\ UNCHANGED comp
    BY <1>4 DEF Reread, Terminals
  <2>3. QED BY <1>2, <1>3, <2>1, <2>2, EnterEvidence
<1>5. CASE to[w] = "ORDER_CREATED" /\ ~ armed[w]
  BY <1>2, <1>5, AfterOrderEvidence DEF Reread, Terminals
<1>6. CASE to[w] = "ORDER_CREATED" /\ armed[w]
  <2>1. /\ rec' = [rec EXCEPT ![w] = r] /\ rec'[w] = r
        /\ pc' = [pc EXCEPT ![w] = "held"]
        /\ UNCHANGED <<to, comp>>
    BY <1>6 DEF Reread, Terminals, EInv, IInv, TypeOK
  <2>2. OthersKept(w)
    BY <1>3, <2>1 DEF OthersKept
  <2>3. QED BY <1>2, <1>3, <2>1, <2>2, LocalBacked, MoveEvidence
<1>7. CASE to[w] = "COMPENSATING"
  <2>1. /\ comp' = [comp EXCEPT ![w] = r] /\ comp'[w] = r
        /\ pc' = [pc EXCEPT ![w] = "cancel"]
        /\ UNCHANGED <<rec, to>>
    BY <1>7 DEF Reread, Terminals, EInv, IInv, TypeOK
  <2>2. OthersKept(w)
    BY <1>3, <2>1 DEF OthersKept
  <2>3. QED BY <1>2, <1>3, <2>1, <2>2, LocalBacked, MoveEvidence
<1>8. CASE to[w] \in Terminals
  <2>1. Return(w, r) /\ UNCHANGED comp
    BY <1>8 DEF Reread, Terminals
  <2>2. /\ rec' = [rec EXCEPT ![w] = r] /\ rec'[w] = r
        /\ \E p \in {"done", "returned"} : pc' = [pc EXCEPT ![w] = p]
        /\ UNCHANGED to
    BY <2>1 DEF Return, EInv, IInv, TypeOK
  <2>3. OthersKept(w)
    BY <1>3, <2>1, <2>2 DEF OthersKept
  <2>4. QED BY <1>2, <1>3, <2>1, <2>2, <2>3, LocalBacked, MoveEvidence DEF Ended
<1>9. QED BY <1>4, <1>5, <1>6, <1>7, <1>8 DEF Reread

LEMMA CancelFailsEvidence ==
    ASSUME EInv, EffectsKept, NEW w \in Threads, pc[w] = "cancel", CancelFails(w), Evidence',
           UNCHANGED <<comp, loop>>
    PROVE  EvidenceInv'
<1>1. rec[w] \in Row /\ Backed(rec[w])
  BY LocalBacked DEF EInv, IInv, IdentityInv, LocalsPinned, Holding
<1>2. CASE UNCHANGED <<pc, rec, to>>
  <2>1. LocalsBacked(w)'
    BY <1>1, <1>2, OwnBacked DEF loop
  <2>2. OthersKept(w)
    BY <1>2 DEF OthersKept, loop
  <2>3. QED BY <2>1, <2>2, EvidenceStep
<1>3. CASE SaveAs(w, "FAILED")
  <2>1. LocalsBacked(w)'
    BY <1>1, <1>3, GiveUpBacked DEF loop
  <2>2. OthersKept(w)
    BY <1>3 DEF SaveAs, OthersKept, loop
  <2>3. QED BY <2>1, <2>2, EvidenceStep
<1>4. QED BY <1>2, <1>3 DEF CancelFails

LEMMA CancelEvidence ==
    ASSUME EInv, NEW w \in Threads, Cancel(w)
    PROVE  EvidenceInv'
<1>1. /\ pc[w] = "cancel" /\ comp[w] \in Row /\ Pinned(comp[w]) /\ Backed(comp[w])
      /\ comp[w].key \in Keys /\ comp[w].tx \in Txs /\ comp[w].key # NoKey
      /\ UNCHANGED <<db, net, comp, loop>>
  BY Compensating, LocalBacked, NoRowFacts, ServicesAssumption
     DEF Cancel, EInv, IInv, IdentityInv, LocalsPinned
<1>2. EffectsKept
  BY CallKeeps DEF EInv
<1>3. Evidence'
  <2>1. CASE UNCHANGED services
    BY <1>1, <2>1, QuietEvidence
  <2>2. CASE Serve("cancel_order", comp[w].key, comp[w].tx, ScenarioOf(w))
    <3>1. EffectsInOrder'
      BY <1>1, <2>2, OrderServed DEF Operations
    <3>2. QED BY <1>1, <1>2, <3>1, NetKept, TableBacked DEF Evidence
  <2>3. QED BY <2>1, <2>2 DEF Cancel, Serve
<1>4. CASE CancelFails(w)
  BY <1>1, <1>2, <1>3, <1>4, CancelFailsEvidence
<1>5. CASE /\ comp[w].order
           /\ CancelOrder(comp[w].tx, ScenarioOf(w))
           /\ Reply("cancel_order", comp[w].tx, ScenarioOf(w)) = "ok"
           /\ SaveAs(w, "COMPENSATED")
  <2>1. rec' = rec /\ pc'[w] = "save" /\ to'[w] = "COMPENSATED"
    BY <1>5 DEF SaveAs, EInv, IInv, TypeOK
  <2>2. orders'[comp[w].tx].status = "CANCELLED"
    <3>1. Passes("cancel_order", comp[w].tx, ScenarioOf(w)) /\ orders[comp[w].tx].status # "NONE"
      BY <1>5 DEF Reply, Passes
    <3>2. QED BY <1>1, <1>5, <3>1 DEF CancelOrder, EInv, IInv, TypeOK, ServicesTypeOK
  <2>3. Backed(Outgoing(w))'
    <3>1. Outgoing(w)' = [comp[w] EXCEPT !.state = "COMPENSATED"]
      BY <1>1, <2>1 DEF Outgoing
    <3>2. /\ carts[comp[w].tx] = comp[w].key /\ orders[comp[w].tx].key = comp[w].key
          /\ comp[w].payment => payments[comp[w].tx] = comp[w].key
      BY <1>1, <1>5
         DEF Backed, Identified, EInv, EvidenceInv, EffectsInOrder, IInv, IdentityInv, EffectsPinned
    <3>3. Backed([comp[w] EXCEPT !.state = "COMPENSATED"])
      BY <1>1, <1>5, <3>2 DEF Backed, Identified, ClaimsPayment, Row
    <3>4. [comp[w] EXCEPT !.state = "COMPENSATED"] \in Row
      BY <1>1 DEF Row, States, Terminals
    <3>5. QED BY <1>1, <1>2, <3>1, <3>3, <3>4, BackedStays DEF Backed, Identified, EInv
  <2>4. LocalsBacked(w)'
    BY <1>1, <1>2, <2>1, <2>2, <2>3, LocalBacked, OwnBacked DEF loop
  <2>5. OthersKept(w)
    BY <1>1, <1>5 DEF SaveAs, OthersKept, loop
  <2>6. QED BY <1>2, <1>3, <2>4, <2>5, EvidenceStep
<1>6. QED BY <1>4, <1>5 DEF Cancel

LEMMA CancelLostEvidence ==
    ASSUME EInv, NEW w \in Threads, CancelLost(w)
    PROVE  EvidenceInv'
<1>1. EffectsKept /\ Evidence'
  <2>1. CASE comp[w].order
    BY <2>1, SendEvidence DEF CancelLost
  <2>2. CASE ~ comp[w].order
    BY <2>2, QuietEvidence DEF CancelLost
  <2>3. QED BY <2>1, <2>2
<1>2. QED BY <1>1, CancelFailsEvidence DEF CancelLost

(* Every thread keeps its locals, or loses them                            *)
LEMMA KeptOrLost ==
    ASSUME EInv, EffectsKept, NEW v \in Threads,
           \/ UNCHANGED <<pc, rec, comp, to, queue>>
           \/ /\ pc'[v] = pc[v] /\ rec'[v] = rec[v] /\ comp'[v] = comp[v]
              /\ to'[v] = to[v] /\ queue'[v] = queue[v]
           \/ /\ pc'[v] = "lost" /\ rec'[v] = NoRow /\ comp'[v] = NoRow /\ queue'[v] = {}
    PROVE  LocalsBacked(v)'
<1>1. CASE pc'[v] = "lost" /\ rec'[v] = NoRow /\ comp'[v] = NoRow /\ queue'[v] = {}
  BY <1>1, NoRowFacts DEF LocalsBacked
<1>2. CASE /\ pc'[v] = pc[v] /\ rec'[v] = rec[v] /\ comp'[v] = comp[v]
           /\ to'[v] = to[v] /\ queue'[v] = queue[v]
  <2>1. LocalsBacked(v)
    BY DEF EInv, EvidenceInv
  <2>2. pc[v] = "save" => Backed(Outgoing(v))'
    <3>1. pc[v] = "save" => Outgoing(v) \in Row /\ Backed(Outgoing(v))
      BY <2>1, OutgoingFacts DEF LocalsBacked, EInv
    <3>2. Outgoing(v)' = Outgoing(v)
      BY <1>2 DEF Outgoing
    <3>3. QED BY <3>1, <3>2, BackedStays DEF Backed, Identified, EInv
  <2>3. pc[v] = "save" /\ to[v] = "COMPENSATED" => orders'[comp[v].tx].status = "CANCELLED"
    <3>1. pc[v] = "save" /\ to[v] = "COMPENSATED" => comp[v].tx \in Txs
      BY Compensating, NoRowFacts DEF EInv, IInv, IdentityInv, LocalsPinned
    <3>2. QED BY <2>1, <3>1 DEF LocalsBacked, EffectsKept
  <2>4. QED BY <1>2, <2>1, <2>2, <2>3, LocalBacked, OwnBacked DEF LocalsBacked
<1>3. QED BY <1>1, <1>2

LEMMA DeliverEvidence ==
    ASSUME EInv, NEW m \in net, Deliver(m)
    PROVE  EvidenceInv'
<1>1. EffectsKept
  BY DeliverKeeps DEF EInv
<1>2. EffectsInOrder'
  <2>1. m \in Message /\ Serve(m.op, m.key, m.tx, m.sc)
    BY DEF Deliver, EInv, IInv, TypeOK
  <2>2. /\ m.op = "create_order" => carts[m.tx] = m.key
        /\ m.op = "execute_payment" => orders[m.tx].key = m.key
    BY DEF EInv, EvidenceInv, NetInOrder
  <2>3. m.op \in Operations /\ m.key \in Keys /\ m.tx \in Txs
    BY <2>1 DEF Message
  <2>4. QED BY <2>1, <2>2, <2>3, OrderServed
<1>3. NetInOrder'
  BY <1>1, NetKept DEF Deliver
<1>4. \A v \in Threads : LocalsBacked(v)'
  BY <1>1, KeptOrLost DEF Deliver, loop
<1>5. QED BY <1>1, <1>2, <1>3, <1>4, TableBacked DEF Deliver, EvidenceInv

LEMMA CrashEvidence ==
    ASSUME EInv, Crash
    PROVE  EvidenceInv'
<1>1. EffectsKept /\ EffectsInOrder'
  BY IdleKeeps, OrderStays DEF Crash
<1>2. NetInOrder'
  <2>1. PICK sent \in SUBSET UnderWay : net' = net \cup {OutgoingCall(w) : w \in sent}
    BY DEF Crash
  <2>2. \A w \in sent : LET m == OutgoingCall(w)
                        IN  /\ m \in Message
                            /\ m.op = "create_order" => carts[m.tx] = m.key
                            /\ m.op = "execute_payment" => orders[m.tx].key = m.key
    BY OutgoingCallInOrder DEF UnderWay, Active
  <2>3. QED BY <1>1, <2>1, <2>2, NetStays
<1>3. \A v \in Threads : LocalsBacked(v)'
  <2> SUFFICES ASSUME NEW v \in Threads PROVE LocalsBacked(v)'
    OBVIOUS
  <2>1. CASE v \in Active
    BY <1>1, <2>1, KeptOrLost DEF Crash, Forget
  <2>2. CASE v \notin Active
    BY <1>1, <2>2, KeptOrLost DEF Crash, Forget
  <2>3. QED BY <2>1, <2>2
<1>4. QED BY <1>1, <1>2, <1>3, TableBacked DEF Crash, EvidenceInv

-----------------------------------------------------------------------------

LEMMA InitEInv == Init => EInv
<1> SUFFICES ASSUME Init PROVE EvidenceInv
  BY InitIInv DEF EInv
<1>1. /\ \A k \in Keys : ~ HasRow(k) /\ db[k].state # "COMPENSATED"
      /\ \A w \in Threads : /\ rec[w].state = "NONE" /\ comp[w].state = "NONE"
                            /\ queue[w] = {} /\ pc[w] = "idle"
      /\ net = {}
      /\ \A t \in Txs : /\ payments[t] = NoKey
                        /\ orders[t].status = "NONE"
  BY NoRowFacts DEF Init, HasRow, ServicesInit, NoOrder
<1>2. \A w \in Threads : LocalsBacked(w)
  BY <1>1 DEF LocalsBacked
<1>3. QED
  BY <1>1, <1>2 DEF EvidenceInv, NetInOrder, EffectsInOrder, CompensatedMeansCancelled

LEMMA NextEInv == EInv /\ [Next]_vars => EInv'
<1> SUFFICES ASSUME EInv, [Next]_vars PROVE EvidenceInv'
  BY NextIInv DEF EInv
<1>1. CASE UNCHANGED vars
  <2>1. UNCHANGED <<services, db, net, pc, rec, comp, to, queue>>
    BY <1>1 DEF vars, loop
  <2>2. EffectsKept /\ Evidence'
    BY <2>1, QuietEvidence
  <2>3. \A v \in Threads : LocalsBacked(v)'
    BY <2>1, <2>2, KeptOrLost
  <2>4. QED BY <2>2, <2>3 DEF Evidence, EvidenceInv
<1>2. ASSUME NEW w \in Threads, Execute(w) \/ RecoverOne(w) \/ Sweep(w) \/ Step(w)
      PROVE  EvidenceInv'
  BY <1>2, ExecuteEvidence, RecoverOneEvidence, SweepEvidence, InsertEvidence,
     ReadCreatedEvidence, LoopEvidence, NextRecordEvidence, LookupEvidence,
     LookupLostEvidence, ReconcileLostEvidence, CallEvidence, CallLostEvidence,
     SaveEvidence, RereadEvidence, ReleaseEvidence, CancelEvidence, CancelLostEvidence
     DEF Step
<1>3. ASSUME NEW m \in net, Deliver(m)
      PROVE  EvidenceInv'
  BY <1>3, DeliverEvidence
<1>4. CASE Crash
  BY <1>4, CrashEvidence
<1>5. QED BY <1>1, <1>2, <1>3, <1>4 DEF Next

LEMMA EvidenceInductive == Spec => []EInv
BY InitEInv, NextEInv, PTL DEF Spec

(* The evidence of every claim is there before the claim is recorded: what *)
(* threads hold and are about to save, and what is in flight, included.    *)
THEOREM EvidenceHolds == Spec => []EvidenceInv
<1>1. EInv => EvidenceInv
  BY DEF EInv
<1>2. QED BY <1>1, EvidenceInductive, PTL

(* No durable record and no answer claims a cart, an order or a payment    *)
(* the services do not hold for the same key, whatever overlaps, is lost,  *)
(* repeated or late, and wherever the orchestrator is killed.              *)
THEOREM Backing == Spec => []RecordsBacked
<1>1. ASSUME EInv PROVE RecordsBacked
  <2>1. \A k \in Keys : HasRow(k) => Backed(db[k])
    BY <1>1 DEF EInv, EvidenceInv
  <2>2. ASSUME NEW w \in Threads PROVE Backed(rec[w])
    <3>1. rec[w].state # "NONE" => Backed(rec[w])
      BY <1>1, LocalBacked
    <3>2. rec[w] \in Row \cup Blank
      BY <1>1 DEF EInv, IInv, TypeOK
    <3>3. rec[w] \in Blank => /\ rec[w].state = "NONE" /\ ~ rec[w].cart
                              /\ ~ rec[w].order /\ ~ rec[w].payment
      BY DEF Blank, NoRow, Unsaved
    <3>4. QED
      BY <3>1, <3>2, <3>3, NoRowFacts DEF Backed, Identified, ClaimsCart, ClaimsOrder, ClaimsPayment
  <2>3. QED BY <2>1, <2>2 DEF RecordsBacked
<1>2. QED BY <1>1, EvidenceInductive, PTL

(* Every payment has its order and every order its cart, in every run.     *)
THEOREM Ordering == Spec => []EffectsInOrder
<1>1. EInv => EffectsInOrder
  BY DEF EInv, EvidenceInv
<1>2. QED BY <1>1, EvidenceInductive, PTL

(* A record that says COMPENSATED has a cancelled order, in every run.     *)
THEOREM Compensation == Spec => []CompensatedMeansCancelled
<1>1. EInv => CompensatedMeansCancelled
  BY DEF EInv, EvidenceInv
<1>2. QED BY <1>1, EvidenceInductive, PTL

(* No call is made without the identifier its service requires, in any     *)
(* run: a record that reaches the order or the payment block has it.       *)
THEOREM CompleteCalls == Spec => []CallsIdentified
<1>1. ASSUME EInv, NEW w \in Threads, pc[w] = "call"
      PROVE  /\ Operation(w) = "create_order" => rec[w].cart
             /\ Operation(w) = "execute_payment" => rec[w].order
  <2>1. Backed(rec[w]) /\ rec[w].state \in Calling
    BY <1>1, OutgoingInOrder
  <2>2. Operation(w) = "create_order" => rec[w].state = "CART_CREATED"
    BY DEF Operation, OperationOf
  <2>3. Operation(w) = "execute_payment" => rec[w].state = "PAYMENT_PENDING"
    BY <2>1 DEF Operation, OperationOf, Calling
  <2>4. "CART_CREATED" \in ClaimsCart /\ "PAYMENT_PENDING" \in ClaimsOrder
    BY DEF ClaimsCart, ClaimsOrder, States, Terminals
  <2>5. QED BY <2>1, <2>2, <2>3, <2>4 DEF Backed, Identified
<1>2. EInv => CallsIdentified
  BY <1>1 DEF CallsIdentified
<1>3. QED BY <1>2, EvidenceInductive, PTL

-----------------------------------------------------------------------------
(* EffectLedger is implemented for any number of keys, threads, losses,    *)
(* late calls and crashes.                                                 *)

(* How the inspected status of a key follows from the one row it can have  *)
Shown ==
    /\ \A k \in Keys, t \in Txs :
          orders[t].key = k => /\ HasRow(k) /\ db[k].tx = t
                               /\ orders[t].status \in {"ACTIVE", "CANCELLED"}
                               /\ OrderStatus(k) = orders[t].status
    /\ \A k \in Keys : (\A t \in Txs : orders[t].key # k) => OrderStatus(k) = "NONE"
    /\ \A k \in Keys, t \in Txs : payments[t] = k => HasRow(k) /\ orders[t].key = k
    /\ \A k \in Keys : HasRow(k) => /\ db[k].state \in States
                                    /\ Ledger!Justified(db[k].state, OrderStatus(k), HasPayment(k))

LEMMA ShownOrders ==
    ASSUME EInv, NEW k \in Keys, NEW t \in Txs, orders[t].key = k
    PROVE  /\ HasRow(k) /\ db[k].tx = t
           /\ orders[t].status \in {"ACTIVE", "CANCELLED"}
           /\ OrderStatus(k) = orders[t].status
<1>1. /\ \A s \in Txs : orders[s].key = k => s = t
      /\ HasRow(k) /\ db[k].tx = t /\ orders[t].status # "NONE"
  BY ServicesAssumption DEF EInv, IInv, IdentityInv, EffectsPinned
<1>2. orders[t] \in OrderRow
  BY DEF EInv, IInv, TypeOK, ServicesTypeOK
<1>3. orders[t] = [key |-> k, status |-> orders[t].status]
  BY <1>2 DEF OrderRow
<1>4. \A s \in Txs, st \in {"ACTIVE", "CANCELLED"} :
         orders[s] = [key |-> k, status |-> st] => s = t /\ orders[t].status = st
  BY <1>1
<1>5. orders[t].status \in {"ACTIVE", "CANCELLED"}
  BY <1>1, <1>2 DEF OrderRow
<1>6. QED BY <1>1, <1>3, <1>4, <1>5 DEF OrderStatus

LEMMA ShownHolds == EInv => Shown
<1> SUFFICES ASSUME EInv PROVE Shown
  OBVIOUS
<1>1. ASSUME NEW k \in Keys, \A t \in Txs : orders[t].key # k
      PROVE  OrderStatus(k) = "NONE"
  BY <1>1 DEF OrderStatus
<1>2. ASSUME NEW k \in Keys, NEW t \in Txs, payments[t] = k
      PROVE  HasRow(k) /\ orders[t].key = k
  BY <1>2, ServicesAssumption
     DEF EInv, EvidenceInv, EffectsInOrder, IInv, IdentityInv, EffectsPinned
<1>3. ASSUME NEW k \in Keys, HasRow(k)
      PROVE  /\ db[k].state \in States
             /\ Ledger!Justified(db[k].state, OrderStatus(k), HasPayment(k))
  <2> DEFINE r == db[k]
  <2>1. r \in Row /\ r.state \in States /\ r.tx \in Txs /\ r.key = k
    BY <1>3, RowTyping, NoRowFacts DEF EInv, IInv, IdentityInv
  <2>2. Backed(r)
    BY <1>3 DEF EInv, EvidenceInv
  <2>3. r.state \notin {"STARTED", "CART_CREATED", "FAILED"} => orders[r.tx].key = k
    BY <2>1, <2>2 DEF Backed, Identified, ClaimsOrder, ClaimsCart
  <2>4. orders[r.tx].key = k => /\ OrderStatus(k) = orders[r.tx].status
                                /\ OrderStatus(k) # "NONE"
    BY <2>1, ShownOrders
  <2>5. r.state \in {"PAYMENT_COMPLETED", "COMPLETED"} => HasPayment(k)
    BY <2>1, <2>2 DEF Backed, Identified, ClaimsPayment, HasPayment
  <2>6. r.state = "COMPENSATED" => OrderStatus(k) = "CANCELLED"
    BY <2>3, <2>4 DEF EInv, EvidenceInv, CompensatedMeansCancelled
  <2>7. QED BY <2>1, <2>3, <2>4, <2>5, <2>6 DEF Ledger!Justified
<1>4. QED BY <1>1, <1>2, <1>3, ShownOrders DEF Shown

LEMMA ShownNext == EInv' => Shown'
BY ShownHolds, PTL

-----------------------------------------------------------------------------
(* Steps of the services.                                                  *)

LEMMA ServeLedger ==
    ASSUME EInv, EInv', NEW op \in Operations, NEW k \in Keys, NEW t \in Txs, NEW sc,
           Serve(op, k, t, sc), UNCHANGED db
    PROVE  [Ledger!LedgerNext]_Ledger!ledger
<1>1. Shown /\ Shown'
  BY ShownHolds, ShownNext
<1>2. ServicesTypeOK /\ EffectsPinned /\ UNCHANGED StateTable
  BY DEF EInv, IInv, TypeOK, IdentityInv, StateTable
<1>3. CASE UNCHANGED <<orders, payments>>
  BY <1>2, <1>3 DEF Ledger!ledger, OrderTable, OrderStatus, PaidTable, HasPayment
<1>4. CASE /\ orders[t].status = "NONE" /\ UNCHANGED payments
           /\ orders' = [orders EXCEPT ![t] = [key |-> k, status |-> "ACTIVE"]]
  <2>1. /\ orders'[t].key = k /\ orders'[t].status = "ACTIVE" /\ orders[t].key = NoKey
        /\ \A s \in Txs \ {t} : orders'[s] = orders[s]
    BY <1>2, <1>4 DEF ServicesTypeOK, EffectsPinned
  <2>2. HasRow(k) /\ OrderStatus(k)' = "ACTIVE" /\ db[k].tx = t
    BY <1>1, <2>1 DEF Shown, HasRow
  <2>3. \A s \in Txs : orders[s].key # k
    BY <1>1, <2>1, <2>2, ServicesAssumption DEF Shown
  <2>4. OrderStatus(k) = "NONE"
    BY <1>1, <2>3 DEF Shown
  <2>5. \A j \in Keys \ {k} : OrderStatus(j)' = OrderStatus(j)
    BY <2>1, ServicesAssumption DEF OrderStatus
  <2>6. OrderTable' = [OrderTable EXCEPT ![k] = "ACTIVE"]
    BY <2>2, <2>5 DEF OrderTable
  <2>7. Ledger!Place(k)
    BY <1>2, <1>4, <2>2, <2>4, <2>6
       DEF Ledger!Place, StateTable, OrderTable, PaidTable, HasPayment, HasRow
  <2>8. QED BY <2>7 DEF Ledger!LedgerNext, Ledger!LedgerStep
<1>5. CASE /\ orders[t].status # "NONE" /\ UNCHANGED payments
           /\ orders' = [orders EXCEPT ![t].status = "CANCELLED"]
  <2>0. PICK j \in Keys : j = orders[t].key
    BY <1>2, <1>5 DEF ServicesTypeOK, EffectsPinned, OrderRow
  <2>1. /\ orders[t] \in OrderRow
        /\ orders'[t] = [key |-> j, status |-> "CANCELLED"]
        /\ \A s \in Txs \ {t} : orders'[s] = orders[s]
    BY <1>2, <1>5, <2>0 DEF ServicesTypeOK, OrderRow
  <2>2. /\ OrderStatus(j) = orders[t].status /\ OrderStatus(j)' = "CANCELLED"
        /\ orders[t].status \in {"ACTIVE", "CANCELLED"}
    BY <1>1, <2>0, <2>1 DEF Shown
  <2>3. \A i \in Keys \ {j} : OrderStatus(i)' = OrderStatus(i)
    BY <2>0, <2>1 DEF OrderStatus, OrderRow
  <2>4. OrderTable' = [OrderTable EXCEPT ![j] = "CANCELLED"]
    BY <2>1, <2>2, <2>3 DEF OrderTable
  <2>5. UNCHANGED PaidTable
    BY <1>5 DEF PaidTable, HasPayment
  <2>6. CASE orders[t].status = "ACTIVE"
    <3>1. Ledger!Cancel(j)
      BY <1>2, <2>1, <2>2, <2>4, <2>5, <2>6 DEF Ledger!Cancel, OrderTable
    <3>2. QED BY <2>1, <3>1 DEF Ledger!LedgerNext, Ledger!LedgerStep
  <2>7. CASE orders[t].status = "CANCELLED"
    <3>1. OrderTable' = OrderTable
      BY <2>1, <2>2, <2>3, <2>7 DEF OrderTable
    <3>2. QED BY <1>2, <2>5, <3>1 DEF Ledger!ledger
  <2>8. QED BY <2>2, <2>6, <2>7
<1>6. CASE /\ UNCHANGED orders /\ payments' = [payments EXCEPT ![t] = k]
           /\ payments[t] = NoKey
  <2>1. payments'[t] = k /\ \A s \in Txs \ {t} : payments'[s] = payments[s]
    BY <1>2, <1>6 DEF ServicesTypeOK
  <2>2. HasRow(k) /\ orders[t].key = k /\ OrderStatus(k) # "NONE"
    BY <1>1, <1>6, <2>1 DEF Shown, HasRow
  <2>3. HasPayment(k)' /\ \A j \in Keys \ {k} : HasPayment(j)' = HasPayment(j)
    BY <1>6, <2>1, ServicesAssumption DEF HasPayment
  <2>4. PaidTable' = [PaidTable EXCEPT ![k] = TRUE]
    BY <2>3 DEF PaidTable
  <2>5. UNCHANGED OrderTable
    BY <1>6 DEF OrderTable, OrderStatus
  <2>6. Ledger!Pay(k)
    BY <1>2, <2>2, <2>4, <2>5 DEF Ledger!Pay, StateTable, OrderTable, HasRow
  <2>7. QED BY <2>6 DEF Ledger!LedgerNext, Ledger!LedgerStep
<1>7. QED
  BY <1>3, <1>4, <1>5, <1>6
     DEF Serve, CreateCart, CreateOrder, CancelOrder, ExecutePayment, Operations

-----------------------------------------------------------------------------
(* Steps of a thread on the table of records.                              *)

LEMMA RecordLedger ==
    ASSUME EInv, EInv', UNCHANGED services, NEW k \in Keys, HasRow(k), HasRow(k)',
           \A j \in Keys \ {k} : db'[j] = db[j]
    PROVE  [Ledger!LedgerNext]_Ledger!ledger
<1>1. UNCHANGED <<OrderTable, PaidTable>>
  BY DEF services, OrderTable, OrderStatus, PaidTable, HasPayment
<1>2. /\ db'[k].state \in States
      /\ Ledger!Justified(db'[k].state, OrderStatus(k), HasPayment(k))
  <2>1. OrderStatus(k)' = OrderStatus(k) /\ HasPayment(k)' = HasPayment(k)
    BY DEF services, OrderStatus, HasPayment
  <2>2. Shown'
    BY ShownNext
  <2>3. QED BY <2>1, <2>2 DEF Shown, Ledger!Justified
<1>3. StateTable' = [StateTable EXCEPT ![k] = db'[k].state]
  BY DEF StateTable
<1>4. Ledger!Rewrite(k)
  BY <1>1, <1>2, <1>3
     DEF Ledger!Rewrite, Ledger!ClosedStates, States, Terminals,
         StateTable, OrderTable, PaidTable, HasRow
<1>5. QED BY <1>4 DEF Ledger!LedgerNext, Ledger!LedgerStep

LEMMA SaveLedger ==
    ASSUME EInv, EInv', NEW w \in Threads, Save(w)
    PROVE  [Ledger!LedgerNext]_Ledger!ledger
<1>1. PICK r : r = Outgoing(w)
  OBVIOUS
<1>2. r \in Row /\ Pinned(r) /\ r.key \in Keys
  BY <1>1, OutgoingFacts DEF Save, EInv
<1>3. HasRow(r.key) /\ \A j \in Keys : db[j].tx = r.tx => j = r.key
  BY <1>2 DEF Pinned, HasRow, EInv, IInv, IdentityInv
<1>4. \A j \in Keys : db'[j] = IF db[j].tx = r.tx THEN [r EXCEPT !.key = j] ELSE db[j]
  BY <1>1 DEF Save
<1>5. db'[r.key].state = r.state /\ \A j \in Keys \ {r.key} : db'[j] = db[j]
  BY <1>2, <1>3, <1>4 DEF Pinned, Row
<1>6. r.state # "NONE"
  BY <1>2, NoRowFacts
<1>7. HasRow(r.key)' /\ UNCHANGED services
  BY <1>5, <1>6 DEF HasRow, Save
<1>8. QED BY <1>2, <1>3, <1>5, <1>7, RecordLedger

LEMMA InsertLedger ==
    ASSUME EInv, EInv', NEW w \in Threads, Insert(w)
    PROVE  [Ledger!LedgerNext]_Ledger!ledger
<1>1. PICK k : k = rec[w].key
  OBVIOUS
<1>2. k \in Keys /\ rec[w] \in Row \cup Blank
  BY <1>1 DEF Insert, EInv, IInv, TypeOK, IdentityInv, LocalsPinned
<1>3. UNCHANGED <<OrderTable, PaidTable>>
  BY DEF Insert, services, OrderTable, OrderStatus, PaidTable, HasPayment
<1>4. CASE UNCHANGED db
  BY <1>3, <1>4 DEF Ledger!ledger, StateTable
<1>5. CASE db[k] = NoRow /\ db' = [db EXCEPT ![k] = [rec[w] EXCEPT !.state = "STARTED"]]
  <2>1. \A b \in Row \cup Blank : [b EXCEPT !.state = "STARTED"].state = "STARTED"
    BY DEF Row, Blank, NoRow, Unsaved
  <2>2. db'[k].state = "STARTED" /\ \A j \in Keys \ {k} : db'[j] = db[j]
    BY <1>2, <1>5, <2>1 DEF EInv, IInv, TypeOK
  <2>3. StateTable' = [StateTable EXCEPT ![k] = "STARTED"]
    BY <1>2, <2>2 DEF StateTable
  <2>4. StateTable[k] = "NONE"
    BY <1>2, <1>5, NoRowFacts DEF StateTable
  <2>5. Ledger!Open(k)
    BY <1>3, <2>3, <2>4 DEF Ledger!Open
  <2>6. QED BY <1>2, <2>5 DEF Ledger!LedgerNext, Ledger!LedgerStep
<1>6. QED BY <1>1, <1>4, <1>5 DEF Insert

-----------------------------------------------------------------------------

LEMMA CallLedger ==
    ASSUME EInv, EInv', NEW w \in Threads, Call(w) \/ Cancel(w)
    PROVE  [Ledger!LedgerNext]_Ledger!ledger
<1>1. CASE Call(w)
  <2>1. rec[w] \in Row /\ rec[w].key \in Keys /\ rec[w].tx \in Txs
    BY <1>1, LocalRow, NoRowFacts DEF Call, EInv, IInv, IdentityInv, LocalsPinned, Holding
  <2>2. QED BY <1>1, <2>1, OperationFacts, ServeLedger DEF Call, EInv, IInv, TypeOK
<1>2. CASE Cancel(w)
  <2>1. comp[w] \in Row /\ comp[w].key \in Keys /\ comp[w].tx \in Txs
    BY <1>2, Compensating, NoRowFacts DEF Cancel, EInv, IInv, IdentityInv, LocalsPinned
  <2>2. UNCHANGED db
    BY <1>2 DEF Cancel
  <2>3. UNCHANGED services \/ Serve("cancel_order", comp[w].key, comp[w].tx, ScenarioOf(w))
    BY <1>2 DEF Cancel, Serve
  <2>4. CASE UNCHANGED services
    BY <2>2, <2>4 DEF services, Ledger!ledger, StateTable, OrderTable, OrderStatus,
                      PaidTable, HasPayment
  <2>5. QED BY <2>1, <2>2, <2>3, <2>4, ServeLedger DEF Operations
<1>3. QED BY <1>1, <1>2

LEMMA LedgerInit == Init => Ledger!LedgerInit
<1> SUFFICES ASSUME Init PROVE Ledger!LedgerInit
  OBVIOUS
<1>1. /\ \A k \in Keys : db[k].state = "NONE"
      /\ \A t \in Txs : payments[t] = NoKey /\ orders[t] = NoOrder
  BY NoRowFacts DEF Init, ServicesInit
<1>2. \A k \in Keys : OrderStatus(k) = "NONE" /\ HasPayment(k) = FALSE
  BY <1>1, ServicesAssumption DEF OrderStatus, HasPayment, NoOrder
<1>3. QED BY <1>1, <1>2 DEF Ledger!LedgerInit, StateTable, OrderTable, PaidTable

LEMMA LedgerStep == EInv /\ [Next]_vars /\ EInv' => [Ledger!LedgerNext]_Ledger!ledger
<1> SUFFICES ASSUME EInv, [Next]_vars, EInv' PROVE [Ledger!LedgerNext]_Ledger!ledger
  OBVIOUS
<1>1. CASE UNCHANGED <<services, db>>
  BY <1>1 DEF services, Ledger!ledger, StateTable, OrderTable, OrderStatus, PaidTable, HasPayment
<1>2. ASSUME NEW w \in Threads, Execute(w) \/ RecoverOne(w) \/ Sweep(w) \/ Step(w)
      PROVE  [Ledger!LedgerNext]_Ledger!ledger
  <2>1. CASE Call(w) \/ Cancel(w) \/ Insert(w) \/ Save(w)
    BY <2>1, CallLedger, InsertLedger, SaveLedger
  <2>2. CASE ~ (Call(w) \/ Cancel(w) \/ Insert(w) \/ Save(w))
    BY <1>1, <1>2, <2>2
       DEF Step, Execute, RecoverOne, Sweep, ReadCreated, Loop, NextRecord, Lookup,
           LookupLost, CallLost, Reconcile, ReconcileLost, Reread, Release, CancelLost
  <2>3. QED BY <2>1, <2>2
<1>3. ASSUME NEW m \in net, Deliver(m)
      PROVE  [Ledger!LedgerNext]_Ledger!ledger
  BY <1>3, ServeLedger DEF Deliver, EInv, IInv, TypeOK, Message
<1>4. CASE Crash
  BY <1>1, <1>4 DEF Crash
<1>5. CASE UNCHANGED vars
  BY <1>1, <1>5 DEF vars
<1>6. QED BY <1>2, <1>3, <1>4, <1>5 DEF Next

(* For every number of keys, threads, losses, late deliveries and crashes, *)
(* what the inspection endpoints can show is a behaviour of EffectLedger.  *)
THEOREM LedgerImplemented == Spec => ImplementsLedger
BY EvidenceInductive, LedgerInit, LedgerStep, PTL DEF Spec, ImplementsLedger, Ledger!LedgerSpec

-----------------------------------------------------------------------------
(* Duplicates of an undisturbed request settle.                            *)

DInv == EInv /\ Undisturbed /\ Attended

LEMMA OnwardFacts ==
    /\ Onward \subseteq States
    /\ "COMPENSATING" \notin Onward /\ "COMPENSATED" \notin Onward /\ "FAILED" \notin Onward
    /\ \A s \in Onward : s # "COMPLETED" => StageOf(s) \in 1 .. 5
    /\ \A s : StageOf(s) \in 1 .. 5 => s \in Onward /\ s # "COMPLETED"
    /\ \A s : StageOf(s) \in 0 .. 5
    /\ StageOf("COMPLETED") = 0 /\ StageOf("ORDER_CREATED") = 3
BY DEF Onward, States, Terminals, StageOf

(* No handler refuses, stalls or answers late                              *)
LEMMA RepliesOk ==
    ASSUME NEW op \in {"create_cart", "create_order", "execute_payment"}, NEW t
    PROVE  Reply(op, t, NoFailure) = "ok"
BY DEF Reply, Rejects, Stalls, Unavailable, Counts, Passes, InjectedError, InjectedLoss, NoFailure

LEMMA Default ==
    ASSUME scenario = NoFailure, NEW w
    PROVE  ScenarioOf(w) = NoFailure
BY DEF ScenarioOf

(* What the other threads are owed and the record of a key nobody writes   *)
LEMMA CalmStays ==
    ASSUME DInv, NEW w \in Threads, OthersKept(w), Calm(w)', UNCHANGED net,
           \A t \in Txs : orders'[t].status # "CANCELLED",
           \A k \in Keys : db'[k].state \in Onward \cup {"NONE"}
    PROVE  Undisturbed'
<1>1. \A v \in Threads \ {w} : Calm(v)'
  BY DEF DInv, Undisturbed, Calm, OthersKept
<1>2. QED BY <1>1 DEF DInv, Undisturbed

LEMMA AttendedStays ==
    ASSUME DInv, NEW w \in Threads, OthersKept(w), UNCHANGED db,
           SavesAgain(w) => /\ rec'[w].key = rec[w].key
                            /\ \/ SavesAgain(w)'
                               \/ db[rec[w].key].state \in {"NONE", "COMPLETED"}
    PROVE  Attended'
<1> SUFFICES ASSUME NEW k \in Keys, HasRow(k)', db'[k].state # "COMPLETED"
             PROVE  \E v \in Threads : rec'[v].key = k /\ SavesAgain(v)'
  BY DEF Attended
<1>1. PICK v \in Threads : rec[v].key = k /\ SavesAgain(v)
  BY DEF DInv, Attended, HasRow
<1>2. CASE v = w
  BY <1>1, <1>2 DEF HasRow
<1>3. CASE v # w
  <2>1. pc'[v] = pc[v] /\ rec'[v] = rec[v] /\ to'[v] = to[v]
    BY <1>3 DEF OthersKept
  <2>2. SavesAgain(v)'
    BY <1>1, <2>1 DEF SavesAgain
  <2>3. QED BY <1>1, <2>1, <2>2
<1>4. QED BY <1>2, <1>3

(* A step of thread w that writes no record                                *)
LEMMA CalmStep ==
    ASSUME DInv, NEW w \in Threads, OthersKept(w), Calm(w)', UNCHANGED <<db, net>>,
           \A t \in Txs : orders'[t].status # "CANCELLED",
           SavesAgain(w) => /\ rec'[w].key = rec[w].key
                            /\ \/ SavesAgain(w)'
                               \/ db[rec[w].key].state \in {"NONE", "COMPLETED"}
    PROVE  Undisturbed' /\ Attended'
<1>1. \A k \in Keys : db'[k].state \in Onward \cup {"NONE"}
  BY DEF DInv, Undisturbed
<1>2. QED BY <1>1, CalmStays, AttendedStays

(* Whoever enters the block of a record's state goes on to save it         *)
LEMMA EnterCalm ==
    ASSUME DInv, NEW w \in Threads, NEW r \in Row, NEW from \in 1 .. 5, Enter(w, r, from),
           r.state \in Onward, \A q \in queue'[w] : q.state \in Onward
    PROVE  /\ Calm(w)' /\ rec'[w] = r
           /\ StageOf(r.state) >= from => SavesAgain(w)'
<1>1. /\ rec'[w] = r
      /\ pc'[w] \in {"done", "returned", "lookup", "call", "save"}
      /\ pc'[w] = "save" => to'[w] \in {"PAYMENT_PENDING", "COMPLETED"}
  BY EnterFacts DEF DInv, EInv, IInv, TypeOK
<1>2. Calm(w)'
  BY <1>1 DEF Calm, Onward
<1>3. ASSUME StageOf(r.state) >= from PROVE SavesAgain(w)'
  <2>1. StageOf(r.state) \in 0 .. 5 /\ ~ StageOf(r.state) < from
    BY <1>3, OnwardFacts
  <2>2. pc'[w] \in {"lookup", "call", "save"}
    BY <1>3, <2>1 DEF Enter, Attempt, DInv, EInv, IInv, TypeOK
  <2>3. QED BY <2>2 DEF SavesAgain
<1>4. QED BY <1>1, <1>2, <1>3

(* ... from a record it was not responsible for, or still is               *)
LEMMA EnterUndisturbed ==
    ASSUME DInv, NEW w \in Threads, NEW r \in Row, NEW from \in 1 .. 5, Enter(w, r, from),
           r.state \in Onward, UNCHANGED <<services, db, net, comp>>,
           queue'[w] \subseteq queue[w], \A v \in Threads \ {w} : queue'[v] = queue[v],
           SavesAgain(w) => /\ r.key = rec[w].key
                            /\ \/ StageOf(r.state) >= from
                               \/ db[rec[w].key].state = "COMPLETED"
    PROVE  Undisturbed' /\ Attended'
<1>1. /\ rec' = [rec EXCEPT ![w] = r]
      /\ \A v \in Threads \ {w} : pc'[v] = pc[v] /\ to'[v] = to[v]
  BY EnterFacts DEF DInv, EInv, IInv
<1>2. OthersKept(w)
  BY <1>1 DEF OthersKept, DInv, EInv, IInv, TypeOK
<1>3. \A q \in queue'[w] : q.state \in Onward
  BY DEF DInv, Undisturbed, Calm
<1>4. /\ Calm(w)' /\ rec'[w] = r
      /\ StageOf(r.state) >= from => SavesAgain(w)'
  BY <1>3, EnterCalm
<1>5. \A t \in Txs : orders'[t].status # "CANCELLED"
  BY DEF services, DInv, Undisturbed
<1>6. QED BY <1>2, <1>4, <1>5, CalmStep

-----------------------------------------------------------------------------

LEMMA OrdersUntouched ==
    ASSUME DInv, UNCHANGED services
    PROVE  \A t \in Txs : orders'[t].status # "CANCELLED"
BY DEF services, DInv, Undisturbed

(* A row that is read is on its way                                        *)
LEMMA ReadOnward ==
    ASSUME DInv, NEW k \in Keys, db[k] # NoRow
    PROVE  db[k] \in Row /\ db[k].state \in Onward /\ db[k].key = k
<1>1. db[k] \in Row /\ db[k].key = k
  BY ReadPins DEF DInv, EInv
<1>2. QED BY <1>1, NoRowFacts DEF DInv, Undisturbed

LEMMA LocalOnward ==
    ASSUME DInv, NEW w \in Threads, rec[w].state # "NONE"
    PROVE  rec[w] \in Row /\ rec[w].state \in Onward
BY LocalRow DEF DInv, EInv, Undisturbed, Calm

LEMMA EndUndisturbed ==
    ASSUME DInv, NEW w \in Threads, pc[w] \notin {"lookup", "call", "save", "reread", "held"},
           pc[w] = "created" => db[rec[w].key].state = "NONE",
           NEW p \in Ended, pc' = [pc EXCEPT ![w] = p],
           UNCHANGED <<services, db, net, rec, comp, to, queue>>
    PROVE  Undisturbed' /\ Attended'
<1>1. pc'[w] = p /\ OthersKept(w)
  BY DEF DInv, EInv, IInv, TypeOK, OthersKept
<1>2. Calm(w)'
  BY <1>1 DEF DInv, Undisturbed, Calm, Ended
<1>3. SavesAgain(w) => db[rec[w].key].state = "NONE"
  BY DEF SavesAgain
<1>4. QED BY <1>1, <1>2, <1>3, OrdersUntouched, CalmStep

LEMMA ExecuteUndisturbed ==
    ASSUME DInv, NEW w \in Threads, Execute(w)
    PROVE  Undisturbed' /\ Attended'
<1>1. PICK k \in Keys, t \in Txs :
          \/ /\ db[k] # NoRow
             /\ Enter(w, db[k], 1)
          \/ /\ db[k] = NoRow
             /\ rec' = [rec EXCEPT ![w] = Unsaved(k, t)]
             /\ pc' = [pc EXCEPT ![w] = "insert"]
             /\ UNCHANGED <<to, tries>>
  BY DEF Execute
<1>2. pc[w] = "idle" /\ ~ SavesAgain(w)
  BY DEF Execute, MayStart, SavesAgain
<1>3. CASE db[k] # NoRow
  BY <1>1, <1>2, <1>3, ReadOnward, EnterUndisturbed DEF Execute, loop
<1>4. CASE db[k] = NoRow
  <2>1. /\ rec' = [rec EXCEPT ![w] = Unsaved(k, t)]
        /\ pc' = [pc EXCEPT ![w] = "insert"]
        /\ UNCHANGED <<to, services, db, net, comp, queue>>
    BY <1>1, <1>4 DEF Execute, loop
  <2>2. rec'[w].state = "NONE" /\ pc'[w] = "insert"
    BY <2>1 DEF Unsaved, DInv, EInv, IInv, TypeOK
  <2>3. OthersKept(w)
    BY <2>1 DEF OthersKept
  <2>4. Calm(w)'
    BY <2>1, <2>2 DEF DInv, Undisturbed, Calm
  <2>5. QED BY <1>2, <2>1, <2>3, <2>4, OrdersUntouched, CalmStep
<1>5. QED BY <1>3, <1>4

LEMMA InsertUndisturbed ==
    ASSUME DInv, NEW w \in Threads, Insert(w)
    PROVE  Undisturbed' /\ Attended'
<1> DEFINE k == rec[w].key
           r == [rec[w] EXCEPT !.state = "STARTED"]
<1>1. k \in Keys /\ rec[w] \in Row \cup Blank /\ ~ SavesAgain(w)
  BY DEF Insert, DInv, EInv, IInv, TypeOK, IdentityInv, LocalsPinned, SavesAgain
<1>2. /\ OthersKept(w) /\ UNCHANGED <<services, net, rec, comp, queue, to>>
      /\ pc'[w] = "created"
  BY DEF Insert, OthersKept, loop, DInv, EInv, IInv, TypeOK
<1>3. Calm(w)'
  BY <1>2 DEF DInv, Undisturbed, Calm
<1>4. CASE UNCHANGED db
  BY <1>1, <1>2, <1>3, <1>4, OrdersUntouched, CalmStep
<1>5. CASE db[k] = NoRow /\ db' = [db EXCEPT ![k] = r]
  <2>1. /\ db'[k] = r /\ r.state = "STARTED" /\ \A j \in Keys \ {k} : db'[j] = db[j]
    BY <1>1, <1>5 DEF DInv, EInv, IInv, TypeOK, Row, Blank, NoRow, Unsaved
  <2>2. \A j \in Keys : db'[j].state \in Onward \cup {"NONE"}
    BY <2>1 DEF DInv, Undisturbed, Onward
  <2>3. Undisturbed'
    BY <1>2, <1>3, <2>2, OrdersUntouched, CalmStays
  <2>4. ASSUME NEW j \in Keys, HasRow(j)', db'[j].state # "COMPLETED"
        PROVE  \E v \in Threads : rec'[v].key = j /\ SavesAgain(v)'
    <3>1. CASE j = k
      BY <1>2, <3>1 DEF SavesAgain
    <3>2. CASE j # k
      <4>1. PICK v \in Threads : rec[v].key = j /\ SavesAgain(v)
        BY <2>1, <2>4, <3>2 DEF DInv, Attended, HasRow
      <4>2. v # w /\ pc'[v] = pc[v] /\ rec'[v] = rec[v] /\ to'[v] = to[v] /\ db'[j] = db[j]
        BY <1>1, <1>2, <2>1, <3>2, <4>1 DEF OthersKept
      <4>3. SavesAgain(v)'
        BY <4>1, <4>2 DEF SavesAgain
      <4>4. QED BY <4>1, <4>2, <4>3
    <3>3. QED BY <3>1, <3>2
  <2>5. QED BY <2>3, <2>4 DEF Attended
<1>6. QED BY <1>4, <1>5 DEF Insert

LEMMA ReadCreatedUndisturbed ==
    ASSUME DInv, NEW w \in Threads, ReadCreated(w)
    PROVE  Undisturbed' /\ Attended'
<1>1. rec[w].key \in Keys
  BY DEF ReadCreated, DInv, EInv, IInv, IdentityInv, LocalsPinned
<1>2. CASE db[rec[w].key] # NoRow
  <2>1. /\ db[rec[w].key] \in Row /\ db[rec[w].key].state \in Onward
        /\ db[rec[w].key].key = rec[w].key
    BY <1>1, <1>2, ReadOnward
  <2>2. db[rec[w].key].state # "COMPLETED" => StageOf(db[rec[w].key].state) >= 1
    BY <2>1, OnwardFacts
  <2>3. QED BY <1>2, <2>1, <2>2, EnterUndisturbed DEF ReadCreated, loop
<1>3. CASE db[rec[w].key] = NoRow
  BY <1>3, NoRowFacts, EndUndisturbed DEF ReadCreated, Ended, loop
<1>4. QED BY <1>2, <1>3

LEMMA RecoverOneUndisturbed ==
    ASSUME DInv, NEW w \in Threads, RecoverOne(w)
    PROVE  Undisturbed' /\ Attended'
<1>1. PICK k \in Keys :
          \/ /\ pc' = [pc EXCEPT ![w] = "error"]
             /\ UNCHANGED rec
          \/ /\ db[k] # NoRow
             /\ rec' = [rec EXCEPT ![w] = db[k]]
             /\ pc' = [pc EXCEPT ![w] = "returned"]
  BY DEF RecoverOne
<1>2. pc[w] = "idle" /\ ~ SavesAgain(w)
  BY DEF RecoverOne, MayStart, SavesAgain
<1>3. CASE pc' = [pc EXCEPT ![w] = "error"] /\ UNCHANGED rec
  BY <1>2, <1>3, EndUndisturbed DEF RecoverOne, Ended, loop
<1>4. CASE /\ db[k] # NoRow
           /\ rec' = [rec EXCEPT ![w] = db[k]]
           /\ pc' = [pc EXCEPT ![w] = "returned"]
  <2>1. rec'[w] = db[k] /\ pc'[w] = "returned" /\ db[k].state \in Onward
    BY <1>4, ReadOnward DEF DInv, EInv, IInv, TypeOK
  <2>2. OthersKept(w)
    BY <1>4 DEF RecoverOne, OthersKept, loop
  <2>3. Calm(w)'
    BY <2>1 DEF RecoverOne, loop, DInv, Undisturbed, Calm
  <2>4. QED BY <1>2, <2>2, <2>3, OrdersUntouched, CalmStep DEF RecoverOne
<1>5. QED BY <1>1, <1>3, <1>4

LEMMA LoopUndisturbed ==
    ASSUME DInv, NEW w \in Threads, Loop(w)
    PROVE  Undisturbed' /\ Attended'
<1>1. pc[w] = "returned" /\ ~ SavesAgain(w)
  BY DEF Loop, SavesAgain
<1>2. rec[w] \in Row /\ rec[w].state \in Onward
  BY LocalOnward DEF Loop, DInv, EInv, IInv, IdentityInv, LocalsPinned
<1>3. CASE Enter(w, rec[w], 1)
  BY <1>1, <1>2, <1>3, EnterUndisturbed DEF Loop
<1>4. CASE pc' = [pc EXCEPT ![w] = "done"] /\ UNCHANGED <<rec, to, tries, prev, rounds>>
  BY <1>1, <1>4, EndUndisturbed DEF Loop, Ended
<1>5. QED BY <1>3, <1>4 DEF Loop

LEMMA SweepUndisturbed ==
    ASSUME DInv, NEW w \in Threads, Sweep(w)
    PROVE  Undisturbed' /\ Attended'
<1>1. pc[w] = "idle" /\ ~ SavesAgain(w)
  BY DEF Sweep, MayStart, SavesAgain
<1>2. \A r \in queue'[w] : r.state \in Onward
  BY DEF Sweep, DInv, EInv, IInv, TypeOK, Undisturbed
<1>3. pc'[w] = "returned" /\ OthersKept(w)
  BY DEF Sweep, OthersKept, DInv, EInv, IInv, TypeOK
<1>4. Calm(w)'
  BY <1>2, <1>3 DEF Sweep, DInv, Undisturbed, Calm
<1>5. QED BY <1>1, <1>3, <1>4, OrdersUntouched, CalmStep DEF Sweep

LEMMA NextRecordUndisturbed ==
    ASSUME DInv, NEW w \in Threads, NextRecord(w)
    PROVE  Undisturbed' /\ Attended'
<1>1. pc[w] = "returned" /\ ~ SavesAgain(w)
  BY DEF NextRecord, SavesAgain
<1>2. CASE \E r \in queue[w] : queue' = [queue EXCEPT ![w] = @ \ {r}] /\ Enter(w, r, 1)
  <2>1. PICK r \in queue[w] : queue' = [queue EXCEPT ![w] = @ \ {r}] /\ Enter(w, r, 1)
    BY <1>2
  <2>2. r \in Row /\ r.state \in Onward
    BY DEF DInv, EInv, IInv, TypeOK, Undisturbed, Calm
  <2>3. queue'[w] \subseteq queue[w]
    BY <2>1 DEF DInv, EInv, IInv, TypeOK
  <2>4. QED BY <1>1, <2>1, <2>2, <2>3, EnterUndisturbed DEF NextRecord
<1>3. CASE pc' = [pc EXCEPT ![w] = "done"] /\ UNCHANGED <<rec, to, tries, queue>>
  BY <1>1, <1>3, EndUndisturbed DEF NextRecord, Ended
<1>4. QED BY <1>2, <1>3 DEF NextRecord

(* The effect of the attempt is known: it will be recorded                 *)
LEMMA AdvanceUndisturbed ==
    ASSUME DInv, NEW w \in Threads, pc[w] \in {"lookup", "call"},
           SaveAs(w, StateAfter(Operation(w))), UNCHANGED <<db, net, comp, queue>>,
           \A t \in Txs : orders'[t].status # "CANCELLED"
    PROVE  Undisturbed' /\ Attended'
<1>1. rec' = rec /\ pc'[w] = "save" /\ to'[w] \in Onward
  BY StateAfterFacts DEF SaveAs, DInv, EInv, IInv, TypeOK, Onward
<1>2. OthersKept(w)
  BY DEF SaveAs, OthersKept
<1>3. Calm(w)' /\ SavesAgain(w)'
  BY <1>1 DEF DInv, Undisturbed, Calm, SavesAgain
<1>4. QED BY <1>1, <1>2, <1>3, CalmStep

LEMMA LookupUndisturbed ==
    ASSUME DInv, NEW w \in Threads, Lookup(w)
    PROVE  Undisturbed' /\ Attended'
<1>1. CASE SaveAs(w, StateAfter(Operation(w)))
  BY <1>1, OrdersUntouched, AdvanceUndisturbed DEF Lookup, loop
<1>2. CASE pc' = [pc EXCEPT ![w] = "call"] /\ UNCHANGED <<rec, to, tries>>
  <2>1. pc'[w] = "call" /\ OthersKept(w)
    BY <1>2 DEF Lookup, OthersKept, loop, DInv, EInv, IInv, TypeOK
  <2>2. Calm(w)' /\ SavesAgain(w)'
    BY <1>2, <2>1 DEF Lookup, loop, DInv, Undisturbed, Calm, SavesAgain
  <2>3. QED BY <1>2, <2>1, <2>2, OrdersUntouched, CalmStep DEF Lookup
<1>3. QED BY <1>1, <1>2 DEF Lookup

LEMMA CallUndisturbed ==
    ASSUME DInv, scenario = NoFailure, NEW w \in Threads, Call(w)
    PROVE  Undisturbed' /\ Attended'
<1>1. /\ Operation(w) \in {"create_cart", "create_order", "execute_payment"}
      /\ Reply(Operation(w), rec[w].tx, ScenarioOf(w)) = "ok"
  BY Default, RepliesOk, OperationFacts
<1>2. \A t \in Txs : orders'[t].status # "CANCELLED"
  <2>1. orders \in [Txs -> OrderRow] /\ \A t \in Txs : orders[t].status # "CANCELLED"
    BY DEF DInv, Undisturbed, EInv, IInv, TypeOK, ServicesTypeOK
  <2>2. Serve(Operation(w), rec[w].key, rec[w].tx, ScenarioOf(w))
    BY DEF Call
  <2>3. QED
    BY <1>1, <2>1, <2>2 DEF Serve, CreateCart, CreateOrder, ExecutePayment
<1>3. SaveAs(w, StateAfter(Operation(w)))
  BY <1>1 DEF Call
<1>4. QED BY <1>2, <1>3, AdvanceUndisturbed DEF Call, loop

(* The last thread to save a record takes it over                          *)
LEMMA SaveUndisturbed ==
    ASSUME DInv, NEW w \in Threads, Save(w)
    PROVE  Undisturbed' /\ Attended'
<1> DEFINE r == Outgoing(w)
<1>1. /\ r \in Row /\ Pinned(r) /\ r.state = to[w] /\ r.key \in Keys
      /\ to[w] \in Onward
  BY OutgoingFacts DEF Save, DInv, EInv, Undisturbed, Calm
<1>2. rec[w] \in Row /\ r.key = rec[w].key
  <2>1. rec[w] \in Row
    BY LocalRow DEF Save, DInv, EInv, IInv, IdentityInv, LocalsPinned, Holding
  <2>2. to[w] # "COMPENSATED"
    BY <1>1, OnwardFacts
  <2>3. QED BY <2>1, <2>2 DEF Outgoing, Row
<1>3. db' = [k \in Keys |-> IF db[k].tx = r.tx THEN [r EXCEPT !.key = k] ELSE db[k]]
  BY DEF Save
<1>4. \A k \in Keys : db[k].tx = r.tx => k = r.key
  BY <1>1 DEF Pinned, DInv, EInv, IInv, IdentityInv
<1>5. /\ db'[rec[w].key].state = to[w]
      /\ \A k \in Keys \ {rec[w].key} : db'[k] = db[k]
  BY <1>1, <1>2, <1>3, <1>4 DEF Pinned, Row
<1>6. /\ OthersKept(w) /\ UNCHANGED <<services, net, rec, comp, to, queue>>
      /\ pc'[w] = "reread"
  BY DEF Save, OthersKept, loop, DInv, EInv, IInv, TypeOK
<1>7. Calm(w)'
  BY <1>1, <1>6 DEF DInv, Undisturbed, Calm
<1>8. \A k \in Keys : db'[k].state \in Onward \cup {"NONE"}
  BY <1>1, <1>5 DEF DInv, Undisturbed
<1>9. Undisturbed'
  BY <1>6, <1>7, <1>8, OrdersUntouched, CalmStays
<1>10. ASSUME NEW k \in Keys, HasRow(k)', db'[k].state # "COMPLETED"
       PROVE  \E v \in Threads : rec'[v].key = k /\ SavesAgain(v)'
  <2>1. CASE k = rec[w].key
    <3>1. to'[w] # "COMPLETED" /\ db'[rec[w].key].state = to'[w] /\ rec'[w].key = k
      BY <1>5, <1>6, <1>10, <2>1
    <3>2. StageOf(to'[w]) >= StageOf(to'[w])
      BY OnwardFacts
    <3>3. SavesAgain(w)'
      BY <1>6, <3>1, <3>2 DEF SavesAgain
    <3>4. QED BY <3>1, <3>3
  <2>2. CASE k # rec[w].key
    <3>1. PICK v \in Threads : rec[v].key = k /\ SavesAgain(v)
      BY <1>5, <1>10, <2>2 DEF DInv, Attended, HasRow
    <3>2. v # w /\ pc'[v] = pc[v] /\ rec'[v] = rec[v] /\ to'[v] = to[v] /\ db'[k] = db[k]
      BY <1>5, <1>6, <2>2, <3>1 DEF OthersKept
    <3>3. SavesAgain(v)'
      BY <3>1, <3>2 DEF SavesAgain
    <3>4. QED BY <3>1, <3>2, <3>3
  <2>3. QED BY <2>1, <2>2
<1>11. QED BY <1>9, <1>10 DEF Attended

LEMMA AfterOrderUndisturbed ==
    ASSUME DInv, scenario = NoFailure, NEW w \in Threads, NEW r \in Row, AfterOrder(w, r),
           r.state \in Onward, UNCHANGED <<services, db, net, comp, queue>>,
           SavesAgain(w) => /\ r.key = rec[w].key
                            /\ \/ StageOf(r.state) >= 3
                               \/ db[rec[w].key].state = "COMPLETED"
    PROVE  Undisturbed' /\ Attended'
<1>1. ScenarioOf(w) # "f9-orchestrator-interruption-after-order"
  BY Default DEF NoFailure
<1>2. QED BY <1>1, EnterUndisturbed DEF AfterOrder

LEMMA ReleaseUndisturbed ==
    ASSUME DInv, scenario = NoFailure, NEW w \in Threads, Release(w)
    PROVE  Undisturbed' /\ Attended'
<1>1. rec[w] \in Row /\ rec[w].state \in Onward
  BY LocalOnward DEF Release, DInv, EInv, IInv, IdentityInv, LocalsPinned, Holding
<1>2. SavesAgain(w) => StageOf(rec[w].state) >= 3
  BY DEF Release, SavesAgain
<1>3. QED BY <1>1, <1>2, AfterOrderUndisturbed DEF Release, loop

LEMMA RereadUndisturbed ==
    ASSUME DInv, scenario = NoFailure, NEW w \in Threads, Reread(w)
    PROVE  Undisturbed' /\ Attended'
<1> DEFINE r == db[rec[w].key]
<1>1. /\ rec[w] \in Row /\ r # NoRow /\ rec[w].key \in Keys /\ pc[w] = "reread"
      /\ to[w] \in Onward
  BY LocalRow, NoRowFacts
     DEF Reread, DInv, EInv, IInv, IdentityInv, LocalsPinned, Holding, Undisturbed, Calm
<1>2. r \in Row /\ r.state \in Onward /\ r.key = rec[w].key
  BY <1>1, ReadOnward
<1>3. UNCHANGED <<services, db, net, queue>>
  BY DEF Reread, loop
<1>4. SavesAgain(w) => to[w] # "COMPLETED" /\ StageOf(r.state) >= StageOf(to[w])
  BY <1>1 DEF SavesAgain
<1>5. CASE to[w] \in {"CART_CREATED", "PAYMENT_PENDING", "PAYMENT_COMPLETED"}
  <2>1. StageOf(to[w]) \in 1 .. 5
    BY <1>5 DEF StageOf
  <2>2. Enter(w, r, StageOf(to[w])) /\ UNCHANGED comp
    BY <1>5 DEF Reread, Terminals
  <2>3. QED BY <1>2, <1>3, <1>4, <2>1, <2>2, EnterUndisturbed
<1>6. CASE to[w] = "ORDER_CREATED" /\ ~ armed[w]
  BY <1>2, <1>3, <1>4, <1>6, OnwardFacts, AfterOrderUndisturbed DEF Reread, Terminals
<1>7. CASE to[w] = "ORDER_CREATED" /\ armed[w]
  <2>1. /\ rec' = [rec EXCEPT ![w] = r] /\ rec'[w] = r
        /\ pc' = [pc EXCEPT ![w] = "held"] /\ pc'[w] = "held"
        /\ UNCHANGED <<to, comp>>
    BY <1>7 DEF Reread, Terminals, DInv, EInv, IInv, TypeOK
  <2>2. OthersKept(w)
    BY <1>3, <2>1 DEF OthersKept
  <2>3. Calm(w)'
    BY <1>2, <1>3, <2>1 DEF DInv, Undisturbed, Calm
  <2>4. SavesAgain(w) => rec'[w].key = rec[w].key /\ SavesAgain(w)'
    BY <1>2, <1>4, <1>7, <2>1, OnwardFacts DEF SavesAgain
  <2>5. QED BY <1>3, <2>2, <2>3, <2>4, OrdersUntouched, CalmStep
<1>8. CASE to[w] = "COMPLETED"
  <2>1. Return(w, r) /\ UNCHANGED comp
    BY <1>8 DEF Reread, Terminals
  <2>2. /\ rec' = [rec EXCEPT ![w] = r] /\ rec'[w] = r
        /\ pc'[w] \in {"done", "returned"} /\ \A v \in Threads \ {w} : pc'[v] = pc[v]
        /\ UNCHANGED to
    BY <2>1 DEF Return, DInv, EInv, IInv, TypeOK
  <2>3. OthersKept(w)
    BY <1>3, <2>1, <2>2 DEF OthersKept
  <2>4. Calm(w)'
    BY <1>2, <1>3, <2>2 DEF DInv, Undisturbed, Calm
  <2>5. ~ SavesAgain(w)
    BY <1>4, <1>8
  <2>6. QED BY <1>3, <2>3, <2>4, <2>5, OrdersUntouched, CalmStep
<1>9. to[w] # "STARTED"
  BY <1>1 DEF Reread, Terminals
<1>10. QED BY <1>1, <1>5, <1>6, <1>7, <1>8, <1>9 DEF Onward

-----------------------------------------------------------------------------

LEMMA DuplicatesNext ==
    ASSUME Faults = {}, MaxCrashes = 0, EInv, DuplicatesInv, [Next]_vars
    PROVE  DuplicatesInv'
<1> SUFFICES ASSUME scenario' = NoFailure
             PROVE  Undisturbed' /\ Attended'
  BY DEF DuplicatesInv
<1>1. scenario = NoFailure
  BY DEF Next, Step, Execute, RecoverOne, Sweep, Insert, ReadCreated, Loop, NextRecord, Lookup,
         LookupLost, Call, CallLost, Reconcile, ReconcileLost, Save, Reread, Release, Cancel,
         CancelLost, Deliver, Crash, vars, cell
<1>2. DInv
  BY <1>1 DEF DuplicatesInv, DInv
<1>3. ASSUME NEW w \in Threads, Execute(w) \/ RecoverOne(w) \/ Sweep(w) \/ Step(w)
      PROVE  Undisturbed' /\ Attended'
  <2>1. pc[w] \notin {"reconcile", "cancel"}
    BY <1>2 DEF DInv, Undisturbed, Calm
  <2>2. ~ LookupLost(w) /\ ~ CallLost(w) /\ ~ Reconcile(w) /\ ~ ReconcileLost(w)
        /\ ~ Cancel(w) /\ ~ CancelLost(w)
    BY <2>1 DEF LookupLost, CallLost, Reconcile, ReconcileLost, Cancel, CancelLost
  <2>3. QED
    BY <1>1, <1>2, <1>3, <2>2, ExecuteUndisturbed, RecoverOneUndisturbed, SweepUndisturbed,
       InsertUndisturbed, ReadCreatedUndisturbed, LoopUndisturbed, NextRecordUndisturbed,
       LookupUndisturbed, CallUndisturbed, SaveUndisturbed, RereadUndisturbed,
       ReleaseUndisturbed DEF Step
<1>4. ~ \E m \in net : Deliver(m)
  BY <1>2 DEF DInv, Undisturbed
<1>5. ~ Crash
  BY <1>2 DEF Crash, DInv, EInv, IInv, TypeOK
<1>6. CASE UNCHANGED vars
  <2>1. UNCHANGED <<orders, db, net, pc, rec, to, queue>>
    BY <1>6 DEF vars, services, loop
  <2>2. QED
    BY <1>2, <2>1 DEF DInv, Undisturbed, Attended, Calm, SavesAgain, HasRow
<1>7. QED BY <1>3, <1>4, <1>5, <1>6 DEF Next

LEMMA DuplicatesInit == Init => DuplicatesInv
<1> SUFFICES ASSUME Init PROVE Undisturbed /\ Attended
  BY DEF DuplicatesInv
<1>1. Undisturbed
  BY NoRowFacts DEF Init, ServicesInit, NoOrder, Undisturbed, Calm
<1>2. Attended
  BY NoRowFacts DEF Init, Attended, HasRow
<1>3. QED BY <1>1, <1>2

(* Where nothing fails, is lost or is killed, any number of duplicates,    *)
(* recoveries and sweeps of any number of purchases, however their saves   *)
(* overwrite each other, leave every record COMPLETED, with its order      *)
(* active and paid, once the last of them has ended.                       *)
THEOREM DuplicatesSettle ==
    ASSUME Faults = {}, MaxCrashes = 0
    PROVE  Spec => []DuplicatesComplete
<1>1. EInv /\ DuplicatesInv => DuplicatesComplete
  <2> SUFFICES ASSUME EInv, DuplicatesInv, scenario = NoFailure, Active = {},
                      NEW k \in Keys, HasRow(k)
               PROVE  db[k].state = "COMPLETED" /\ Agrees(db[k])
    BY DEF DuplicatesComplete
  <2>1. Undisturbed /\ Attended
    BY DEF DuplicatesInv
  <2>2. \A w \in Threads : ~ SavesAgain(w)
    BY DEF Active, Waiting, SavesAgain
  <2>3. db[k].state = "COMPLETED"
    BY <2>1, <2>2 DEF Attended
  <2>4. /\ db[k] \in Row /\ db[k].tx \in Txs /\ db[k].key \in Keys /\ Backed(db[k])
    BY RowTyping, NoRowFacts DEF EInv, EvidenceInv, IInv
  <2>5. orders[db[k].tx].key = db[k].key /\ payments[db[k].tx] = db[k].key
    BY <2>3, <2>4 DEF Backed, Identified, ClaimsOrder, ClaimsCart, ClaimsPayment, States, Terminals
  <2>6. orders[db[k].tx].status \notin {"NONE", "CANCELLED"}
    BY <2>1, <2>4, <2>5, ServicesAssumption DEF Undisturbed, EInv, IInv, IdentityInv, EffectsPinned
  <2>7. orders[db[k].tx].status = "ACTIVE" /\ payments[db[k].tx] # NoKey
    BY <2>4, <2>5, <2>6, ServicesAssumption
       DEF EInv, IInv, TypeOK, ServicesTypeOK, OrderRow
  <2>8. QED BY <2>3, <2>7 DEF Agrees
<1>2. EInv /\ DuplicatesInv /\ [Next]_vars => DuplicatesInv'
  BY DuplicatesNext
<1>3. QED BY <1>1, <1>2, DuplicatesInit, EvidenceInductive, PTL DEF Spec
=============================================================================
