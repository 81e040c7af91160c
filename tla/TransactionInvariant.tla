------------------------ MODULE TransactionInvariant ------------------------
(***************************************************************************)
(* The inductive invariants behind TransactionProperties: what every       *)
(* thread and every request in flight must hold on to so that the promises *)
(* survive the next step.  TransactionProofs and SequentialProofs prove    *)
(* them, TLC checks them.                                                  *)
(***************************************************************************)
EXTENDS TransactionProperties

(* A record that was read from the database pins its row: rows are never   *)
(* deleted and never change their transaction.                             *)
Pinned(r) == HasRow(r.key) /\ db[r.key].tx = r.tx

(* pc values at which "record" holds a row that was read                   *)
Holding == {"lookup", "call", "reconcile", "save", "reread", "held", "cancel"}

(* What thread w keeps in its local variables                              *)
LocalsPinned(w) ==
    /\ pc[w] \in Holding => rec[w].state # "NONE"
    /\ pc[w] = "returned" /\ w \in Recoveries => rec[w].state # "NONE"
    /\ pc[w] \in {"insert", "created"} => rec[w].key \in Keys /\ rec[w].tx \in Txs
    /\ pc[w] \in {"save", "reread"} => to[w] # "NONE"
    /\ pc[w] = "cancel" \/ (pc[w] = "save" /\ to[w] = "COMPENSATED") => comp[w].state # "NONE"
    /\ rec[w].state # "NONE" => Pinned(rec[w])
    /\ comp[w].state # "NONE" => Pinned(comp[w])
    /\ \A r \in queue[w] : Pinned(r)

(* Every effect and every request in flight belongs to the row of its key  *)
EffectsPinned ==
    /\ \A t \in Txs : carts[t] # NoKey => HasRow(carts[t]) /\ db[carts[t]].tx = t
    /\ \A t \in Txs : payments[t] # NoKey => HasRow(payments[t]) /\ db[payments[t]].tx = t
    /\ \A t \in Txs : orders[t].status # "NONE" <=> orders[t].key # NoKey
    /\ \A t \in Txs : orders[t].key # NoKey => HasRow(orders[t].key) /\ db[orders[t].key].tx = t
    /\ \A m \in net : HasRow(m.key) /\ db[m.key].tx = m.tx

(* Together with TypeOK inductive, and it implies IdentityPreserved.       *)
IdentityInv ==
    /\ \A k \in Keys : HasRow(k) => db[k].key = k
    /\ \A j, k \in Keys : HasRow(j) /\ db[j].tx = db[k].tx => j = k
    /\ \A w \in Threads : LocalsPinned(w)
    /\ EffectsPinned

-----------------------------------------------------------------------------

(* States in which continueResilient is about to call a service            *)
Calling == {"STARTED", "CART_CREATED", "PAYMENT_PENDING"}

(* Thread w knows of no effect that does not exist: what it holds, and     *)
(* what it is about to save                                                *)
LocalsBacked(w) ==
    /\ rec[w].state # "NONE" => Backed(rec[w])
    /\ comp[w].state # "NONE" => Backed(comp[w])
    /\ \A r \in queue[w] : Backed(r)
    /\ pc[w] \in {"lookup", "call", "reconcile"} => rec[w].state \in Calling
    /\ pc[w] = "save" => Backed(Outgoing(w))
    /\ pc[w] = "save" /\ to[w] = "COMPENSATED" => orders[comp[w].tx].status = "CANCELLED"

(* A request in flight was sent in the order of the stages                 *)
NetInOrder ==
    \A m \in net : /\ m.op = "create_order" => carts[m.tx] = m.key
                   /\ m.op = "execute_payment" => orders[m.tx].key = m.key

(* Inductive on top of IdentityInv: a step creates the evidence of a claim *)
(* before it records the claim.                                            *)
EvidenceInv ==
    /\ \A k \in Keys : HasRow(k) => Backed(db[k])
    /\ \A w \in Threads : LocalsBacked(w)
    /\ NetInOrder
    /\ EffectsInOrder
    /\ CompensatedMeansCancelled
-----------------------------------------------------------------------------
(* Without an injected failure, a lost call or a crash.                    *)

(* The states a purchase passes through on its way to COMPLETED            *)
Onward == {"STARTED", "CART_CREATED", "ORDER_CREATED", "PAYMENT_PENDING",
           "PAYMENT_COMPLETED", "COMPLETED"}

(* Thread w has met no failure                                             *)
Calm(w) ==
    /\ pc[w] \notin {"reconcile", "cancel"}
    /\ rec[w].state \in Onward \cup {"NONE"}
    /\ pc[w] \in {"save", "reread"} => to[w] \in Onward
    /\ \A r \in queue[w] : r.state \in Onward

Undisturbed ==
    /\ net = {}
    /\ \A t \in Txs : orders[t].status # "CANCELLED"
    /\ \A k \in Keys : db[k].state \in Onward \cup {"NONE"}
    /\ \A w \in Threads : Calm(w)

(* Thread w is going to save the record of its key once more: a thread     *)
(* that re-reads an earlier state than it saved returns instead.           *)
SavesAgain(w) ==
    \/ pc[w] \in {"created", "lookup", "call", "save"}
    \/ /\ pc[w] = "reread" /\ to[w] # "COMPLETED"
       /\ StageOf(db[rec[w].key].state) >= StageOf(to[w])
    \/ pc[w] = "held" /\ StageOf(rec[w].state) >= 3

(* A record that is not COMPLETED is in somebody's hands.  It need not be  *)
(* the thread that inserted it: the last one to save it takes it over.     *)
Attended ==
    \A k \in Keys : HasRow(k) /\ db[k].state # "COMPLETED" =>
        \E w \in Threads : rec[w].key = k /\ SavesAgain(w)

(* Inductive on top of EvidenceInv where nothing is lost and nothing is    *)
(* killed, and it implies DuplicatesComplete.                              *)
DuplicatesInv == scenario = NoFailure => Undisturbed /\ Attended
-----------------------------------------------------------------------------
(* With one thread at a time.                                              *)

Sole == \A v, w \in Threads : pc[v] \in Waiting /\ pc[w] \in Waiting => v = w

(* The record w has begun to compensate                                    *)
Compensated(w) == [rec[w] EXCEPT !.state = "COMPENSATING"]

(* What thread w read is still what the table says                         *)
Current(w) ==
    /\ pc[w] = "insert" => db[rec[w].key] = NoRow
    /\ pc[w] = "created" => db[rec[w].key].state \in {"NONE", "STARTED"}
    /\ pc[w] \in {"lookup", "call", "reconcile", "held"} => db[rec[w].key] = rec[w]
    /\ pc[w] = "held" => rec[w].state = "ORDER_CREATED"
    /\ pc[w] = "save" => \/ db[rec[w].key] = rec[w] /\ to[w] # "COMPENSATED"
                         \/ /\ to[w] \in {"COMPENSATED", "FAILED"}
                            /\ comp[w] = Compensated(w) /\ db[rec[w].key] = Compensated(w)
    /\ pc[w] = "reread" => /\ db[rec[w].key].state = to[w]
                           /\ to[w] = "COMPENSATING" => db[rec[w].key] = Compensated(w)
    /\ pc[w] = "cancel" => comp[w] = Compensated(w) /\ db[rec[w].key] = Compensated(w)
    /\ pc[w] = "returned" /\ w \in Recoveries => db[rec[w].key] = rec[w]
    /\ pc[w] \in Waiting => \A q \in queue[w] : db[q.key] = q
    /\ pc[w] \in Holding => \A q \in queue[w] : q.key # rec[w].key

(* recoverOne begins with nothing done, and what it gets back from         *)
(* continueResilient has gone all the way                                  *)
LoopsOnce(w) ==
    /\ pc[w] = "idle" => prev[w] = "NONE" /\ rounds[w] = 0 /\ queue[w] = {}
    /\ pc[w] \in Waiting /\ w \notin Sweeps => queue[w] = {}
    /\ pc[w] \in {"insert", "created"} => w \in Executions
    /\ pc[w] = "returned" /\ w \in Recoveries =>
          \/ prev[w] = "NONE" /\ rounds[w] = 0
          \/ rec[w].state \in Terminals \cup {"COMPENSATING"}

(* Inductive on top of EvidenceInv where threads do not overlap            *)
AloneInv ==
    /\ Sole
    /\ \A w \in Threads : Current(w) /\ LoopsOnce(w)
    /\ RecoverySettles

-----------------------------------------------------------------------------
(* With one thread at a time, one crash and no failures but the injected.  *)

(* The states a record can be saved in next                                *)
Follows(s) ==
    CASE s = "STARTED" -> {"CART_CREATED", "FAILED"}
      [] s = "CART_CREATED" -> {"ORDER_CREATED", "FAILED"}
      [] s = "ORDER_CREATED" -> {"PAYMENT_PENDING"}
      [] s = "PAYMENT_PENDING" -> {"PAYMENT_COMPLETED", "COMPENSATING"}
      [] s = "PAYMENT_COMPLETED" -> {"COMPLETED"}
      [] s = "COMPENSATING" -> {"COMPENSATED"}
      [] OTHER -> {}

(* The scenario keeps the call from ever having its effect                 *)
Blocked(op, t, sc) == Rejects(op, t, sc) \/ Stalls(op, t, sc)

(* The effects a record in its state can have, and no others               *)
EffectsFollow(k) ==
    LET s == db[k].state
        t == db[k].tx
    IN  /\ s \in {"STARTED", "FAILED"} => orders[t].status = "NONE"
        /\ s \in {"STARTED", "CART_CREATED"} => ~ db[k].order
        /\ orders[t].status = "CANCELLED" => s \in {"COMPENSATING", "COMPENSATED"}
        /\ payments[t] # NoKey => s \in {"PAYMENT_PENDING", "PAYMENT_COMPLETED", "COMPLETED"}

(* A recovery, which no scenario disturbs, is about to record s            *)
Recorded(k, s) ==
    \E w \in Threads \ Executions : pc[w] = "save" /\ to[w] = s /\ rec[w].key = k

(* An effect the scenario forbids is not left unrecorded                   *)
Unspoiled(k) ==
    LET s == db[k].state
        t == db[k].tx
    IN  /\ s = "CART_CREATED" /\ Blocked("create_order", t, scenario)
           /\ orders[t].status # "NONE" => Recorded(k, "ORDER_CREATED")
        /\ s = "PAYMENT_PENDING" /\ Blocked("execute_payment", t, scenario)
           /\ payments[t] # NoKey => Recorded(k, "PAYMENT_COMPLETED")

(* A request that outlived its sender can do no harm any more              *)
Harmless(m) ==
    LET s == db[m.key].state
        blocked == Blocked(m.op, m.tx, scenario)
    IN  /\ blocked => Blocked(m.op, m.tx, m.sc)
        /\ m.op = "create_cart" => (s = "FAILED" => carts[m.tx] # NoKey \/ blocked)
        /\ m.op = "create_order" => s # "STARTED" /\ (s = "FAILED" => blocked)
        /\ m.op = "execute_payment" =>
              \/ s \in {"PAYMENT_PENDING", "PAYMENT_COMPLETED", "COMPLETED"}
              \/ s \in {"COMPENSATING", "COMPENSATED"} /\ blocked
        /\ m.op = "cancel_order" => /\ s = "COMPENSATING"
                                    /\ \A w \in Threads : pc[w] \in Holding => rec[w].key # m.key

(* Thread w gives up only what cannot succeed any more                     *)
Deserved(w) ==
    LET s == db[rec[w].key].state
        t == rec[w].tx
    IN  /\ pc[w] \in {"lookup", "call"} /\ Operation(w) = "execute_payment"
           /\ Counts("execute_payment", t, ScenarioOf(w)) =>
              tries[w] <= attempts["execute_payment"][t]
        /\ pc[w] = "reconcile" =>
              \/ Operation(w) = "create_order" /\ orders[t].status # "NONE"
              \/ Operation(w) = "execute_payment" /\ payments[t] # NoKey
              \/ Operation(w) # "create_cart" /\ Blocked(Operation(w), t, scenario)
        /\ pc[w] = "save" => to[w] \in Follows(s)
        /\ pc[w] = "save" /\ to[w] = "FAILED" =>
              \/ s = "STARTED" /\ (carts[t] # NoKey \/ Blocked("create_cart", t, scenario))
              \/ s = "CART_CREATED" /\ Blocked("create_order", t, scenario)
        /\ pc[w] = "save" /\ to[w] = "COMPENSATING" => Blocked("execute_payment", t, scenario)
        /\ pc[w] = "cancel" => tries[w] = 0 \/ attempts["cancel_order"][t] >= 1
              \/ ~ Counts("cancel_order", t, ScenarioOf(w))

(* No execution was killed or interrupted so far                           *)
Unbroken == crashes = 0 /\ scenario # "f9-orchestrator-interruption-after-order"

(* Nobody but executions finds anything to do then: an open purchase is in *)
(* the hands of the thread that opened it.                                 *)
Attentive ==
    Unbroken =>
        /\ \A w \in Threads : pc[w] \in Holding => w \in Executions
        /\ \A k \in Keys : HasRow(k) /\ db[k].state \notin Terminals =>
              \E w \in Threads : pc[w] \in Holding \cup {"created"} /\ rec[w].key = k

(* Inductive on top of AloneInv.                                           *)
SequentialInv ==
    /\ configuration \in Configurations
    /\ \A k \in Keys : HasRow(k) => EffectsFollow(k) /\ Unspoiled(k)
    /\ \A m \in net : Harmless(m)
    /\ \A w \in Threads : Deserved(w)
    /\ Attentive
=============================================================================
