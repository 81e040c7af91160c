----------------------- MODULE TransactionProperties -----------------------
(***************************************************************************)
(* What the orchestrator and its three services promise together: the      *)
(* README's "Invariants" and I1-I6 of docs/V2_EXPERIMENT_DESIGN.md, stated *)
(* on the state of TransactionService.                                     *)
(***************************************************************************)
EXTENDS TransactionService

HasRow(k) == db[k].state # "NONE"

(* What the inspection endpoints select by a key                           *)
HasCart(k) == \E t \in Txs : carts[t] = k
HasPayment(k) == \E t \in Txs : payments[t] = k

OrderStatus(k) ==
    CASE \E t \in Txs : orders[t] = [key |-> k, status |-> "ACTIVE"] -> "ACTIVE"
      [] \E t \in Txs : orders[t] = [key |-> k, status |-> "CANCELLED"] -> "CANCELLED"
      [] OTHER -> "NONE"

(* Every cart, order and payment belongs to the transaction recorded for   *)
(* the key it carries, two keys never share a transaction, and the calls   *)
(* still in flight keep to that pairing: hence at most one order and one   *)
(* payment per idempotency identity (README "Invariants" 1, 3, 5; I1, I3,  *)
(* I5).  It rests on the two unique constraints of                         *)
(* orchestrator_transactions and on create() re-reading the row by key.    *)
IdentityPreserved ==
    /\ \A k \in Keys, t \in Txs :
          carts[t] = k \/ orders[t].key = k \/ payments[t] = k => db[k].tx = t
    /\ \A m \in net : db[m.key].tx = m.tx
    /\ \A j, k \in Keys : HasRow(j) /\ db[j].tx = db[k].tx => j = k

(* States whose records claim a cart, an order, a payment                  *)
ClaimsCart == States \ {"STARTED", "FAILED"}
ClaimsOrder == ClaimsCart \ {"CART_CREATED"}
ClaimsPayment == {"PAYMENT_COMPLETED", "COMPLETED"}

(* The identifiers of record r match its state ...                         *)
Identified(r) ==
    /\ r.state \in ClaimsCart \/ r.order => r.cart
    /\ r.state \in ClaimsOrder => r.order
    /\ r.state \in ClaimsPayment => r.payment

(* ... and what they name exists, under the same identity                  *)
Backed(r) ==
    /\ Identified(r)
    /\ r.cart => carts[r.tx] = r.key
    /\ r.order => orders[r.tx].key = r.key
    /\ r.payment => payments[r.tx] = r.key

(* A record never claims more than the services hold, neither the durable  *)
(* one nor an answer sent to a client: what it says was created exists     *)
(* under the same identity (README "Invariants" 2, I2), although saves     *)
(* overwrite each other, replies are lost and reconciliation infers        *)
(* effects from counts.                                                    *)
RecordsBacked ==
    /\ \A k \in Keys : HasRow(k) => Backed(db[k])
    /\ \A w \in Threads : pc[w] = "done" /\ rec[w] # NoRow => Backed(rec[w])

(* An order is never requested without a cart_id, nor a payment without an *)
(* order_id: the services would refuse it (required(...) of the            *)
(* controllers), and no record, however stale, leads there.                *)
CallsIdentified ==
    \A w \in Threads : pc[w] = "call" =>
        /\ Operation(w) = "create_order" => rec[w].cart
        /\ Operation(w) = "execute_payment" => rec[w].order

(* Nobody is charged for an order that was never placed, and no order is   *)
(* placed without a cart, whatever crashes, overlaps or arrives late: the  *)
(* payment service itself does not look at the order.                      *)
EffectsInOrder ==
    \A t \in Txs : /\ payments[t] # NoKey => orders[t].key = payments[t]
                   /\ orders[t].status # "NONE" => carts[t] = orders[t].key

(* A transaction reported as COMPENSATED has its order cancelled, for good *)
(* (README "Invariants" 4, I4), under every interleaving.                  *)
CompensatedMeansCancelled ==
    \A k \in Keys :
        db[k].state = "COMPENSATED" => orders[db[k].tx].status = "CANCELLED"

(* Record, order and payment agree in every terminal state (README         *)
(* "Invariants" 6, I6).  Stated for threads that do not overlap and calls  *)
(* that only the injection disturbs.                                       *)
Agrees(r) ==
    CASE r.state = "COMPLETED" ->
            orders[r.tx].status = "ACTIVE" /\ payments[r.tx] # NoKey
      [] r.state = "COMPENSATED" ->
            orders[r.tx].status = "CANCELLED" /\ payments[r.tx] = NoKey
      [] r.state = "FAILED" ->
            orders[r.tx].status # "ACTIVE" /\ payments[r.tx] = NoKey
      [] OTHER -> TRUE

TerminalAgreement == \A k \in Keys : Agrees(db[k])

(* A terminal outcome is final: neither a repeated execution nor a         *)
(* recovery nor a call that was under way at a crash changes the record or *)
(* what the services hold for it.                                          *)
TerminalsAreFinal ==
    [][\A k \in Keys :
          db[k].state \in Terminals =>
              /\ db'[k] = db[k]
              /\ \A t \in Txs : t = db[k].tx =>
                     /\ carts'[t] = carts[t]
                     /\ orders'[t] = orders[t]
                     /\ payments'[t] = payments[t]]_vars

(* Recovery resumes every record it finds, and brings it to a terminal     *)
(* state in one call; a record that was already COMPENSATING is the        *)
(* exception, continueResilient having no block for it.                    *)
RecoverySettles ==
    \A w \in Recoveries :
        pc[w] = "done" => rec[w].state \in Terminals \cup {"COMPENSATING"}

(* The same without the exception: README and experiment design say that   *)
(* recovery resumes intermediate, non-terminal states.                     *)
RecoveryReachesTerminalState ==
    \A w \in Recoveries : pc[w] = "done" => rec[w].state \in Terminals

(* Duplicates of a request that nothing disturbs settle on the one outcome *)
(* a single request has: once no thread is left, the record is COMPLETED   *)
(* and the services agree, although saves of one thread or of a recovery   *)
(* may have sent the record of the other back to an earlier state          *)
(* (scenario f8, which injects nothing).                                   *)
DuplicatesComplete ==
    scenario = NoFailure /\ Active = {} =>
        \A k \in Keys : HasRow(k) => db[k].state = "COMPLETED" /\ Agrees(db[k])

(* Every request comes to an end: the retries of a call, the compensation  *)
(* loop and the loop of recoverOne are all bounded.                        *)
RequestsEnd == \A w \in Threads : pc[w] \in Waiting ~> pc[w] \in Ended
=============================================================================
