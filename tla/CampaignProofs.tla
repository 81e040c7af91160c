--------------------------- MODULE CampaignProofs ---------------------------
(***************************************************************************)
(* Proofs about the campaign drivers, for every plan, any number of        *)
(* repetitions, transactions, commits, starts, failing steps and deaths of *)
(* the driver.                                                             *)
(***************************************************************************)
EXTENDS CampaignProperties, TLAPS

AtWork == Running \cup {"mark"}

(* The steps only a driver with run directories takes.                     *)
BeyondPhase == {"create", "restart_payment", "probe", "arm", "wait", "kill", "restart", "recover"}

(* The run under way is one of the plan; only crash runs take the steps of *)
(* a crash trial.                                                          *)
Placed ==
    /\ todo \subseteq Planned
    /\ pc \in AtWork => slot \in Planned
    /\ pc \in {"record", "mark"} => slot \in summarised
    /\ driver = "phase" => pc \notin BeyondPhase
    /\ driver \in {"phase", "robustness"} => pc # "audit"
    /\ driver = "robustness" => pc # "report"
    /\ pc \in {"probe", "execute"} => ~ IsCrash(slot)

TInv == TypeOK /\ Placed

LEMMA PlannedSlots ==
    ASSUME PlanTypeOK
    PROVE  Planned \subseteq Slots
<1>1. \A c : c \in PrimaryCells \cup RobustnessCells \cup PilotCells \cup PhaseCells
             => c \in AllCells
  BY DEF AllCells
<1>2. QED BY <1>1 DEF Planned, Slots, PlanTypeOK

LEMMA Distances ==
    ASSUME NEW a \in Nat, NEW b \in Nat, NEW n \in Nat, a <= b
    PROVE  /\ a * n \in Nat /\ a * n <= b * n
           /\ n # 0 => a <= a * n
           /\ a # 0 => (a - 1) * n = a * n - n
  BY SMT

LEMMA TxsTyping ==
    ASSUME NEW s \in Slots
    PROVE  TxsOf(s) \subseteq Txs
<1> DEFINE T == Transactions
<1>1. /\ s.rep \in Nat /\ s.rep # 0 /\ s.rep <= Repetitions
      /\ Repetitions \in Nat /\ T \in Nat /\ T # 0
  BY PlanAssumption, CampaignAssumption DEF Slots
<1>2. /\ s.rep * T \in Nat /\ s.rep * T <= Repetitions * T
      /\ s.rep <= s.rep * T /\ (s.rep - 1) * T = s.rep * T - T
      /\ Repetitions * T \in Nat
  BY <1>1, Distances
<1>3. CASE IsCrash(s)
  BY <1>1, <1>2, <1>3 DEF TxsOf, Txs
<1>4. CASE ~ IsCrash(s)
  <2>1. SUFFICES ASSUME NEW i \in 0 .. T - 1
                 PROVE  (s.rep - 1) * T + i \in Txs
    BY <1>4 DEF TxsOf
  <2> DEFINE n == s.rep * T
             m == Repetitions * T
  <2>2. n \in Nat /\ m \in Nat /\ n <= m /\ (s.rep - 1) * T = n - T /\ 0 <= n - T
    <3>1. 0 <= (s.rep - 1) * T
      BY <1>1, Distances, s.rep - 1 \in Nat
    <3>2. QED BY <1>2, <3>1
  <2> HIDE DEF n, m
  <2>3. n - T + i \in 0 .. m
    BY <2>2, <1>1
  <2>4. QED BY <2>2, <2>3 DEF Txs, m
<1>5. QED BY <1>3, <1>4

LEMMA LeastTyping ==
    ASSUME NEW a \in Nat, NEW b \in Nat
    PROVE  Least(a, b) \in 0 .. a /\ Least(a, b) \in 0 .. b
  BY DEF Least

-----------------------------------------------------------------------------
(* What the steps have in common.                                          *)

(* A step fails inside the loop.                                           *)
Fails ==
    /\ pc \in Running
    /\ Raise
    /\ UNCHANGED <<plan, dirs, results, outcome, starts, services>>
    /\ \/ faults < MaxFaults /\ faults' = faults + 1
       \/ faults' = faults /\ pc = "create" /\ slot \in dirs
       \/ faults' = faults /\ pc = "arm" /\ ~ up

(* create_run makes the directory.                                         *)
Begins ==
    /\ pc = "create" /\ pc' = "truncate"
    /\ slot \notin dirs /\ dirs' = dirs \cup {slot}
    /\ UNCHANGED <<plan, ledger, failed, results, outcome, loop, run, services>>

ArmsTrial ==
    /\ pc = "arm" /\ up
    /\ trial' = [trial EXCEPT !.before = instance]
    /\ pc' = "wait"
    /\ UNCHANGED <<plan, disk, loop, slot, executed, injected, services>>

ServiceStep ==
    \/ Truncate \/ RestartPayment \/ Probe
    \/ \E t \in Txs : RunTransaction(t)
    \/ ArmsTrial \/ Reach \/ Wait \/ Kill \/ Restart \/ Recover

LEMMA Classify ==
    ASSUME TypeOK, Next
    PROVE  \/ Prepare \/ Start \/ Pick \/ Fails \/ Die \/ Summarise \/ Record \/ Mark
           \/ Report \/ Audit \/ Begins \/ ServiceStep \/ EndRun
<1>1. CASE Abort
  BY <1>1 DEF Abort, Fails, TypeOK
<1>2. CASE Create
  <2>1. CASE slot \notin dirs
    BY <1>2, <2>1 DEF Create, Begins, loop, run
  <2>2. CASE slot \in dirs
    <3>1. pc = "create" /\ Raise /\ UNCHANGED dirs
          /\ UNCHANGED <<plan, results, outcome, starts, faults, services>>
      BY <1>2, <2>2, Zenon DEF Create
    <3>2. pc \in Running
      BY <3>1 DEF Running
    <3>3. Fails
      BY <2>2, <3>1, <3>2, Zenon DEF Fails
    <3>4. QED BY <3>3
  <2>3. QED BY <2>1, <2>2
<1>3. CASE Arm
  BY <1>3 DEF Arm, Fails, ServiceStep, ArmsTrial, Running, disk, loop
<1>4. QED BY <1>1, <1>2, <1>3 DEF Next, ServiceStep

(* The steps of a run on the services leave the disk and the plan alone.   *)
Works ==
    /\ UNCHANGED <<plan, disk, loop, slot>>
    /\ pc \in Running \ {"create"} /\ pc' \in Running \ {"create", "record"}

LEMMA ServiceWorks ==
    ASSUME ServiceStep
    PROVE  Works
  BY DEF ServiceStep, Works, Running, AfterReset, Truncate, RestartPayment, Probe, RunTransaction,
         ArmsTrial, Reach, Wait, Kill, Restart, Recover, run

-----------------------------------------------------------------------------
(* Types and places.                                                       *)

(* What a failing step leaves behind, whatever the driver.                 *)
LEMMA FailsFacts ==
    ASSUME Fails
    PROVE  /\ UNCHANGED <<plan, dirs, results, outcome, starts, services>>
           /\ pc \in Running /\ pc' \in {"off", "pick"}
           /\ ledger' = ledger \/ ledger' = [ledger EXCEPT ![slot] = "FAILED_INFRASTRUCTURE"]
           /\ ~ Ledgered => ledger' = ledger
           /\ failed' = failed \/ failed' = failed \cup {slot}
           /\ todo' = todo \/ todo' = {}
           /\ slot' = NoSlot /\ executed' = {}
           /\ injected' = [t \in Txs |-> 0] /\ trial' = NoTrial
  BY DEF Fails, Raise, RecordFailure, Stop, Forget

LEMMA Forgotten == NoTrial \in Trial /\ [t \in Txs |-> 0] \in [Txs -> 0 .. 2]
<1>1. NoTrial \in Trial
  BY DEF NoTrial, Trial
<1>2. QED BY <1>1

LEMMA InitTyped == Init => TInv
<1>1. ASSUME Init PROVE TypeOK
  <2>1. /\ 1 \in 1 .. MaxCommits /\ 0 \in 0 .. MaxCommits
        /\ 0 \in 0 .. MaxStarts /\ 0 \in 0 .. MaxFaults /\ 0 \in 0 .. AttemptsCap
    BY PlanAssumption, CampaignAssumption DEF AttemptsCap
  <2>2. PlanTypeOK
    <3>1. driver \in {"primary", "robustness", "pilot", "phase"}
      BY <1>1, PlanAssumption DEF Init, PlanInit
    <3>2. ledger \in [Slots -> States]
      BY <1>1 DEF Init, PlanInit, States
    <3>3. QED BY <1>1, <2>1, <3>1, <3>2 DEF Init, PlanInit, PlanTypeOK
  <2>3. draw \in [Txs -> 1 .. 3]
    BY <1>1 DEF Init
  <2>4. /\ code \in [Slots -> 0 .. MaxCommits] /\ injected \in [Txs -> 0 .. 2]
        /\ payAttempts \in [Txs -> 0 .. AttemptsCap]
        /\ cancelAttempts \in [Txs -> 0 .. AttemptsCap]
    BY <1>1, <2>1 DEF Init
  <2>5. QED
    BY <1>1, <2>1, <2>2, <2>3, <2>4, Forgotten DEF Init, TypeOK
<1>2. ASSUME Init PROVE Placed
  BY <1>2 DEF Init, Placed, AtWork, Running, BeyondPhase
<1>3. QED BY <1>1, <1>2 DEF TInv

LEMMA PlanTyped ==
    ASSUME TypeOK, PlanNext
    PROVE  PlanTypeOK' /\ driver' = driver
<1>1. [commit |-> head, dirty |-> dirty] \in Manifests
  BY DEF TypeOK, PlanTypeOK, Manifests
<1>2. CASE CreateManifest
  BY <1>1, <1>2 DEF CreateManifest, Freeze, PlanAfresh, TypeOK, PlanTypeOK, States
<1>3. CASE Amend
  BY <1>1, <1>3 DEF Amend, Freeze, PlanAfresh, TypeOK, PlanTypeOK, States
<1>4. CASE Edit
  BY <1>4 DEF Edit, TypeOK, PlanTypeOK
<1>5. CASE Discard
  BY <1>5 DEF Discard, TypeOK, PlanTypeOK
<1>6. CASE Commit
  <2>1. head' \in 1 .. MaxCommits
    BY <1>6, PlanAssumption DEF Commit, TypeOK, PlanTypeOK
  <2>2. QED BY <1>6, <2>1 DEF Commit, TypeOK, PlanTypeOK
<1>7. QED BY <1>2, <1>3, <1>4, <1>5, <1>6 DEF PlanNext

LEMMA RunTyped ==
    ASSUME TypeOK, NEW t \in Txs, RunTransaction(t)
    PROVE  TypeOK'
<1>1. /\ UNCHANGED <<plan, disk, pc, loop, slot, orchestrator, trial>>
      /\ executed' = executed \cup {t}
      /\ rows' \in {rows, rows \cup {t}}
  BY DEF RunTransaction
<1>2. PaymentAttempts(slot) \in Nat
  BY DEF PaymentAttempts
<1>3. payAttempts[t] \in 0 .. 3 /\ cancelAttempts[t] \in 0 .. 3
  BY DEF TypeOK, AttemptsCap
<1>4. Refused(slot, t) \in 0 .. 2
  BY <1>2, <1>3 DEF Refused, Least
<1>5. Uncancelled(t) \in 0 .. 1
  BY DEF Uncancelled
<1>6. injected' \in [Txs -> 0 .. 2]
  <2>1. \E n \in {Refused(slot, t), Uncancelled(t), 1, 0} : injected' = [injected EXCEPT ![t] = n]
    BY DEF RunTransaction
  <2>2. QED BY <1>4, <1>5, <2>1 DEF TypeOK
<1>7. payAttempts' \in [Txs -> 0 .. AttemptsCap]
  <2> DEFINE n == payAttempts[t] + Least(PaymentAttempts(slot), Refused(slot, t) + 1)
  <2>1. n \in Nat
    <3>1. Refused(slot, t) + 1 \in Nat
      BY <1>4
    <3>2. Least(PaymentAttempts(slot), Refused(slot, t) + 1) \in Nat
      BY <1>2, <3>1 DEF Least
    <3>3. QED BY <1>3, <3>2
  <2>2. payAttempts' = payAttempts
        \/ payAttempts' = [payAttempts EXCEPT ![t] = Least(AttemptsCap, n)]
    BY DEF RunTransaction
  <2> HIDE DEF n
  <2>3. Least(AttemptsCap, n) \in 0 .. AttemptsCap
    BY <2>1, LeastTyping DEF AttemptsCap
  <2>4. QED BY <2>2, <2>3 DEF TypeOK
<1>8. cancelAttempts' \in [Txs -> 0 .. AttemptsCap]
  <2> DEFINE n == cancelAttempts[t] + Uncancelled(t) + 1
  <2>1. n \in Nat
    BY <1>3, <1>5
  <2>2. cancelAttempts' = cancelAttempts
        \/ cancelAttempts' = [cancelAttempts EXCEPT ![t] = Least(AttemptsCap, n)]
    BY DEF RunTransaction
  <2> HIDE DEF n
  <2>3. Least(AttemptsCap, n) \in 0 .. AttemptsCap
    BY <2>1, LeastTyping DEF AttemptsCap
  <2>4. QED BY <2>2, <2>3 DEF TypeOK
<1>9. QED
  BY <1>1, <1>6, <1>7, <1>8
     DEF TypeOK, PlanTypeOK, plan, campaign, manifest, disk, results, outcome, loop, orchestrator

LEMMA ServiceTyped ==
    ASSUME TInv, ServiceStep
    PROVE  TypeOK'
<1>1. slot \in Slots /\ TxsOf(slot) \subseteq Txs
  BY ServiceWorks, PlannedSlots, TxsTyping DEF TInv, TypeOK, Placed, Works, AtWork
<1> USE DEF plan, campaign, manifest, disk, results, outcome, loop, run, memory, orchestrator,
            services
<1> USE DEF TInv, TypeOK, PlanTypeOK, Running
<1>2. CASE Truncate
  BY <1>2 DEF Truncate
<1>3. CASE RestartPayment
  BY <1>3 DEF RestartPayment, AfterReset, AttemptsCap
<1>4. CASE Probe
  BY <1>4 DEF Probe
<1>5. CASE \E t \in Txs : RunTransaction(t)
  BY <1>5, RunTyped DEF TInv
<1>6. CASE ArmsTrial
  BY <1>6 DEF ArmsTrial, Trial
<1>7. CASE Reach
  BY <1>1, <1>7 DEF Reach
<1>8. CASE Wait
  BY <1>8 DEF Wait, Trial
<1>9. CASE Kill
  BY <1>9 DEF Kill
<1>10. CASE Restart
  <2>1. instance' \in Nat /\ trial' \in Trial
    BY <1>10 DEF Restart, Trial
  <2>2. QED BY <1>10, <2>1 DEF Restart
<1>11. CASE Recover
  BY <1>1, <1>11 DEF Recover
<1>12. QED
  BY <1>2, <1>3, <1>4, <1>5, <1>6, <1>7, <1>8, <1>9, <1>10, <1>11 DEF ServiceStep

LEMMA TypePreserved ==
    ASSUME TInv, Next
    PROVE  TypeOK'
<1> USE DEF plan, campaign, manifest, disk, results, outcome, loop, run, memory, orchestrator,
            services
<1>1. CASE Prepare
  BY <1>1, PlanTyped DEF Prepare, TInv, TypeOK
<1>2. CASE Start
  <2>1. starts' \in 0 .. MaxStarts /\ instance' \in Nat
    BY <1>2, CampaignAssumption DEF Start, TInv, TypeOK
  <2>2. Planned \subseteq Slots
    BY PlannedSlots DEF TInv, TypeOK
  <2>3. QED BY <1>2, <2>1, <2>2 DEF Start, TInv, TypeOK, PlanTypeOK
<1>3. CASE Pick
  BY <1>3 DEF Pick, Open, TInv, TypeOK, PlanTypeOK, States, Running
<1>4. CASE Fails
  <2>1. faults' \in 0 .. MaxFaults
    BY <1>4, CampaignAssumption DEF Fails, TInv, TypeOK
  <2>2. slot \in Slots
    BY <1>4, PlannedSlots DEF Fails, TInv, TypeOK, Placed, AtWork
  <2>3. /\ ledger' \in [Slots -> States] /\ failed' \subseteq Slots
        /\ trial' \in Trial /\ injected' \in [Txs -> 0 .. 2] /\ executed' \subseteq Txs
    <3>1. ledger' \in [Slots -> States]
      BY <1>4, <2>2, FailsFacts DEF TInv, TypeOK, PlanTypeOK, States
    <3>2. failed' \subseteq Slots
      BY <1>4, <2>2, FailsFacts DEF TInv, TypeOK
    <3>3. QED BY <1>4, <3>1, <3>2, FailsFacts, Forgotten
  <2>4. /\ pc' \in {"off", "pick"} /\ slot' = NoSlot /\ todo' \subseteq Slots
        /\ UNCHANGED <<plan, dirs, results, outcome, starts, services>>
    BY <1>4, FailsFacts DEF TInv, TypeOK
  <2>5. QED
    BY <2>1, <2>3, <2>4 DEF TInv, TypeOK, PlanTypeOK
<1>5. CASE Die
  BY <1>5, CampaignAssumption DEF Die, Stop, Forget, TInv, TypeOK, PlanTypeOK, Trial, NoTrial
<1>6. CASE Summarise
  <2>1. slot \in Slots
    BY <1>6, PlannedSlots DEF Summarise, TInv, TypeOK, Placed, AtWork, Running
  <2>2. QED BY <1>6, <2>1 DEF Summarise, TInv, TypeOK, PlanTypeOK, Running
<1>7. CASE Record
  <2>1. slot \in Slots
    BY <1>7, PlannedSlots DEF Record, TInv, TypeOK, Placed, AtWork, Running
  <2>2. slot \in summarised
    BY <1>7 DEF Record, TInv, Placed
  <2>3. QED BY <1>7, <2>1, <2>2 DEF Record, TInv, TypeOK, PlanTypeOK, Running
<1>8. CASE Mark
  <2>1. slot \in Slots
    BY <1>8, PlannedSlots DEF Mark, TInv, TypeOK, Placed, AtWork
  <2>2. ledger' \in [Slots -> States]
    BY <1>8, <2>1 DEF Mark, TInv, TypeOK, PlanTypeOK, States
  <2>3. QED BY <1>8, <2>2 DEF Mark, Forget, TInv, TypeOK, PlanTypeOK, Trial, NoTrial
<1>9. CASE Report
  <2>1. Reported \subseteq Slots
    BY PlannedSlots DEF Reported, TInv, TypeOK
  <2>2. QED BY <1>9, <2>1 DEF Report, TInv, TypeOK, PlanTypeOK
<1>10. CASE Audit
  BY <1>10 DEF Audit, TInv, TypeOK, PlanTypeOK
<1>11. CASE Begins
  <2>1. slot \in Slots
    BY <1>11, PlannedSlots DEF Begins, TInv, TypeOK, Placed, AtWork, Running
  <2>2. QED BY <1>11, <2>1 DEF Begins, TInv, TypeOK, PlanTypeOK, Running
<1>12. CASE EndRun
  <2>1. slot \in Slots
    BY <1>12, PlannedSlots DEF EndRun, TInv, TypeOK, Placed, AtWork, Running
  <2>2. faults' \in 0 .. MaxFaults /\ uncollected' \subseteq Slots
    BY <1>12, <2>1, CampaignAssumption DEF EndRun, TInv, TypeOK
  <2>3. QED BY <1>12, <2>2 DEF EndRun, TInv, TypeOK, PlanTypeOK, Running
<1>13. QED
  BY <1>1, <1>2, <1>3, <1>4, <1>5, <1>6, <1>7, <1>8, <1>9, <1>10, <1>11, <1>12, Classify,
     ServiceTyped DEF TInv

LEMMA SamePlan ==
    ASSUME TInv, Next
    PROVE  driver' = driver /\ Planned' = Planned /\ Ledgered' = Ledgered
<1>1. driver' = driver
  BY Classify, PlanTyped, FailsFacts, ServiceWorks
     DEF TInv, Works, Prepare, Start, Pick, Die, Summarise, Record, Mark, Report, Audit, Begins,
         EndRun, plan, campaign
<1>2. QED BY <1>1 DEF Planned, Ledgered

LEMMA PlacePreserved ==
    ASSUME TInv, Next
    PROVE  Placed'
<1> USE DEF plan, campaign, disk, results, Placed, AtWork, Running, BeyondPhase
<1>1. driver' = driver /\ Planned' = Planned
  BY SamePlan
<1>2. CASE ServiceStep
  <2>1. /\ slot' = slot /\ todo' = todo /\ summarised' = summarised
        /\ pc \in Running /\ pc' \in Running \ {"record"}
    BY <1>2, ServiceWorks DEF Works, loop
  <2>2. driver = "phase" => pc' \notin BeyondPhase
    BY <1>2 DEF ServiceStep, TInv, Truncate, RestartPayment, Probe, RunTransaction,
         ArmsTrial, Reach, Wait, Kill, Restart, Recover
  <2>3. pc' \in {"probe", "execute"} => ~ IsCrash(slot)
    <3>1. driver \in {"phase", "robustness"} => ~ IsCrash(slot)
      <4>1. slot \in Planned
        BY <2>1 DEF TInv
      <4>2. CASE driver = "phase"
        BY <4>1, <4>2, PlanAssumption DEF Planned, IsCrash
      <4>3. CASE driver = "robustness"
        BY <4>1, <4>3, PlanAssumption DEF Planned, IsCrash
      <4>4. QED BY <4>2, <4>3
    <3>2. QED
      BY <1>2, <3>1 DEF ServiceStep, TInv, Truncate, RestartPayment, AfterReset, Probe,
         RunTransaction, ArmsTrial, Reach, Wait, Kill, Restart, Recover
  <2>4. QED BY <1>1, <2>1, <2>2, <2>3 DEF TInv, IsCrash
<1>3. CASE Prepare
  BY <1>1, <1>3 DEF Prepare, AtRest, loop, TInv
<1>4. CASE Start
  BY <1>1, <1>4 DEF Start, TInv
<1>5. CASE Pick
  BY <1>1, <1>5 DEF Pick, Open, TInv
<1>6. CASE Fails
  BY <1>1, <1>6, FailsFacts DEF TInv
<1>7. CASE Die
  BY <1>1, <1>7 DEF Die, Stop, TInv
<1>8. CASE Summarise
  BY <1>1, <1>8 DEF Summarise, loop, run, TInv
<1>9. CASE Record
  BY <1>1, <1>9 DEF Record, loop, run, TInv
<1>10. CASE Mark
  BY <1>1, <1>10 DEF Mark, loop, TInv
<1>11. CASE Report
  BY <1>1, <1>11 DEF Report, AtRest, loop, run, TInv
<1>12. CASE Audit
  BY <1>1, <1>12 DEF Audit, AtRest, loop, run, TInv
<1>13. CASE Begins
  BY <1>1, <1>13 DEF Begins, loop, run, TInv
<1>14. CASE EndRun
  BY <1>1, <1>14 DEF EndRun, run, TInv
<1>15. QED
  BY <1>2, <1>3, <1>4, <1>5, <1>6, <1>7, <1>8, <1>9, <1>10, <1>11, <1>12, <1>13, <1>14,
     Classify DEF TInv

LEMMA StutterTyped == ASSUME TInv, UNCHANGED vars PROVE TInv'
  BY DEF TInv, TypeOK, Placed, Planned, IsCrash, vars, plan, campaign, manifest, disk, results,
         outcome, loop, run, memory, orchestrator, services, PlanTypeOK

LEMMA TInvHolds == Spec => []TInv
<1>1. Init => TInv
  BY InitTyped
<1>2. TInv /\ [Next]_vars => TInv'
  BY TypePreserved, PlacePreserved, StutterTyped DEF TInv
<1>3. QED BY <1>1, <1>2, PTL DEF Spec

(* The drivers keep their types.                                           *)
THEOREM TypeCorrect == Spec => []TypeOK
<1>1. TInv => TypeOK
  BY DEF TInv
<1>2. QED BY <1>1, TInvHolds, PTL

-----------------------------------------------------------------------------
(* Records: what a run has left on disk is in a directory of its own, and  *)
(* a directory is made once.                                               *)

RecordInv ==
    /\ driver # "phase" => recorded \subseteq dirs
    /\ driver # "phase" /\ pc \in Running \ {"create"} => slot \in dirs
    /\ driver = "phase" => todo \cap recorded = {}
    /\ pc \in AtWork => slot \notin todo
    /\ pc = "mark" => slot \in recorded
    /\ RunsOnce

LEMMA RecordPreserved ==
    ASSUME TInv, TInv', RecordInv, Next
    PROVE  RecordInv'
<1> USE DEF RecordInv, RunsOnce, AtWork, Running, disk, results, loop, run
<1>1. driver' = driver
  BY SamePlan
<1>2. CASE Prepare
  BY <1>1, <1>2 DEF Prepare, AtRest
<1>3. CASE Start
  BY <1>1, <1>3 DEF Start
<1>4. CASE Pick
  <2>1. \/ pc' \in {"ended", "report"} /\ todo' = todo
        \/ /\ pc' = IF driver = "phase" THEN "truncate" ELSE "create"
           /\ slot' \in todo /\ slot' \notin todo' /\ todo' \subseteq todo
    BY <1>4 DEF Pick, Open
  <2>2. UNCHANGED <<recorded, dirs>>
    BY <1>4 DEF Pick
  <2>3. QED BY <1>1, <2>1, <2>2
<1>5. CASE Fails
  BY <1>1, <1>5, FailsFacts
<1>6. CASE Die
  BY <1>1, <1>6 DEF Die, Stop
<1>7. CASE Summarise
  BY <1>1, <1>7 DEF Summarise
<1>8. CASE Record
  BY <1>1, <1>8 DEF Record
<1>9. CASE Mark
  BY <1>1, <1>9 DEF Mark
<1>10. CASE Report
  BY <1>1, <1>10 DEF Report, AtRest
<1>11. CASE Audit
  BY <1>1, <1>11 DEF Audit, AtRest
<1>12. CASE Begins
  BY <1>1, <1>12 DEF Begins, TInv, Placed, BeyondPhase
<1>13. CASE ServiceStep
  BY <1>1, <1>13, ServiceWorks DEF Works
<1>14. CASE EndRun
  BY <1>1, <1>14 DEF EndRun
<1>15. QED
  BY <1>2, <1>3, <1>4, <1>5, <1>6, <1>7, <1>8, <1>9, <1>10, <1>11, <1>12, <1>13, <1>14,
     Classify DEF TInv

-----------------------------------------------------------------------------
(* The ledger: a slot it calls COMPLETED has its artifacts, made by the    *)
(* frozen commit.                                                          *)

LedgerInv ==
    /\ ~ Ledgered => \A s \in Slots : ledger[s] # "COMPLETED"
    /\ pc \in AtWork => ledger[slot] # "COMPLETED"
    /\ Ledgered /\ ~ AtRest => frozen.commit = head /\ frozen # NoManifest
    /\ Ledgered /\ pc = "mark" => code[slot] = head
    /\ CompletedIsComplete
    /\ CompletedAtFrozenCommit

(* What work on the plan does to the ledger                                *)
LEMMA PlanLedger ==
    ASSUME PlanNext
    PROVE  \/ UNCHANGED <<ledger, frozen>>
           \/ ledger' = [s \in Slots |-> "PLANNED"]
  BY DEF PlanNext, CreateManifest, Amend, Edit, Discard, Commit, PlanAfresh

LEMMA LedgerPreserved ==
    ASSUME TInv, TInv', RecordInv, LedgerInv, Next
    PROVE  LedgerInv'
<1> USE DEF LedgerInv, CompletedIsComplete, CompletedAtFrozenCommit, AtRest, AtWork, Running, disk,
            results, plan, manifest, loop, run
<1>1. driver' = driver /\ Ledgered' = Ledgered
  BY SamePlan
<1>2. CASE Prepare
  <2>1. pc' = "off" /\ UNCHANGED <<recorded, code>> /\ Ledgered
    BY <1>2 DEF Prepare
  <2>2. CASE UNCHANGED <<ledger, frozen>>
    BY <1>1, <2>1, <2>2
  <2>3. CASE ledger' = [s \in Slots |-> "PLANNED"]
    BY <1>1, <2>1, <2>3
  <2>4. QED BY <1>2, <2>2, <2>3, PlanLedger DEF Prepare
<1>3. CASE Start
  <2>1. Ledgered => recorded' = recorded
    BY <1>3 DEF Start, Ledgered
  <2>2. Ledgered => frozen.commit = head /\ frozen # NoManifest
    BY <1>3 DEF Start, MayRun
  <2>3. pc' = "pick" /\ UNCHANGED <<ledger, frozen, head, code>>
    BY <1>3 DEF Start
  <2>4. QED BY <1>1, <2>1, <2>2, <2>3
<1>4. CASE Pick
  <2>1. UNCHANGED <<plan, results>> /\ pc = "pick"
    BY <1>4 DEF Pick
  <2>2. CASE UNCHANGED ledger /\ pc' \in {"ended", "report"}
    BY <1>1, <2>1, <2>2
  <2>3. CASE /\ slot' \in todo /\ ledger[slot'] # "COMPLETED" /\ pc' \in {"truncate", "create"}
             /\ ledger' = IF Ledgered THEN [ledger EXCEPT ![slot'] = "RUNNING"] ELSE ledger
    <3>1. slot' \in Slots
      BY <2>3 DEF TInv, TypeOK
    <3>2. \A s \in Slots : ledger'[s] = "COMPLETED" => ledger[s] = "COMPLETED"
      BY <2>3, <3>1 DEF TInv, TypeOK, PlanTypeOK
    <3>3. ledger'[slot'] # "COMPLETED"
      BY <2>3, <3>1 DEF TInv, TypeOK, PlanTypeOK
    <3>4. QED BY <1>1, <2>1, <2>3, <3>2, <3>3
  <2>4. QED BY <1>4, <2>2, <2>3 DEF Pick, Open
<1>5. CASE Fails
  <2>1. UNCHANGED <<plan, results>> /\ pc \in Running /\ pc' \in {"off", "pick"}
    BY <1>5, FailsFacts
  <2>2. \A s \in Slots : ledger'[s] = "COMPLETED" => ledger[s] = "COMPLETED"
    BY <1>5, FailsFacts DEF TInv, TypeOK, PlanTypeOK
  <2>3. QED BY <1>1, <2>1, <2>2
<1>6. CASE Die
  BY <1>1, <1>6 DEF Die, Stop
<1>7. CASE Summarise
  BY <1>1, <1>7 DEF Summarise
<1>8. CASE Record
  <2>1. /\ pc = "record" /\ pc' = "mark" /\ UNCHANGED <<plan, ledger, slot>>
        /\ recorded' = recorded \cup {slot}
        /\ code' = IF Ledgered THEN [code EXCEPT ![slot] = head] ELSE code
    BY <1>8 DEF Record
  <2>2. slot \in Slots /\ code \in [Slots -> 0 .. MaxCommits]
    BY <2>1, PlannedSlots DEF TInv, TypeOK, Placed
  <2>3. QED BY <1>1, <2>1, <2>2
<1>9. CASE Mark
  <2>1. /\ pc = "mark" /\ pc' = "pick" /\ UNCHANGED <<plan, results>>
        /\ ledger' = IF Ledgered THEN [ledger EXCEPT ![slot] = "COMPLETED"] ELSE ledger
    BY <1>9 DEF Mark
  <2>2. slot \in Slots /\ ledger \in [Slots -> States]
    BY <2>1, PlannedSlots DEF TInv, TypeOK, PlanTypeOK, Placed
  <2>3. slot \in recorded /\ (Ledgered => code[slot] = frozen.commit)
    BY <2>1 DEF RecordInv
  <2>4. QED BY <1>1, <2>1, <2>2, <2>3
<1>10. CASE Report
  BY <1>1, <1>10 DEF Report, Ledgered
<1>11. CASE Audit
  BY <1>1, <1>11 DEF Audit, Ledgered
<1>12. CASE Begins
  BY <1>1, <1>12 DEF Begins
<1>13. CASE ServiceStep
  BY <1>1, <1>13, ServiceWorks DEF Works
<1>14. CASE EndRun
  BY <1>1, <1>14 DEF EndRun
<1>15. QED
  BY <1>2, <1>3, <1>4, <1>5, <1>6, <1>7, <1>8, <1>9, <1>10, <1>11, <1>12, <1>13, <1>14,
     Classify DEF TInv

-----------------------------------------------------------------------------
(* Crash trials: the token of a run is reached by this run alone, after    *)
(* its order was persisted.                                                *)

TrialInv ==
    /\ reached \subseteq dirs
    /\ pc \in {"truncate", "restart_payment", "probe", "execute", "arm"} /\ driver # "phase"
          => slot \notin reached
    /\ pc = "wait" => /\ slot \in reached => TxsOf(slot) \subseteq rows
                      /\ trial.before <= instance
    /\ pc \in {"kill", "restart"} => trial.persisted /\ trial.before <= instance
    /\ pc \in {"recover", "summarise", "record", "mark"} /\ IsCrash(slot)
          => trial.persisted /\ trial.before < trial.after

LEMMA TrialPreserved ==
    ASSUME TInv, TInv', RecordInv, TrialInv, Next
    PROVE  TrialInv'
<1> USE DEF TrialInv, AtWork, Running, disk, results, plan, manifest, loop, run, services,
            orchestrator, memory
<1>1. driver' = driver
  BY SamePlan
<1>2. CASE Prepare
  BY <1>1, <1>2 DEF Prepare
<1>3. CASE Start
  BY <1>1, <1>3 DEF Start
<1>4. CASE Pick
  BY <1>1, <1>4 DEF Pick
<1>5. CASE Fails
  BY <1>1, <1>5, FailsFacts
<1>6. CASE Die
  BY <1>1, <1>6 DEF Die, Stop
<1>7. CASE Summarise
  BY <1>1, <1>7 DEF Summarise, IsCrash
<1>8. CASE Record
  BY <1>1, <1>8 DEF Record, IsCrash
<1>9. CASE Mark
  BY <1>1, <1>9 DEF Mark
<1>10. CASE Report
  BY <1>1, <1>10 DEF Report, AtRest
<1>11. CASE Audit
  BY <1>1, <1>11 DEF Audit, AtRest
<1>12. CASE Begins
  BY <1>1, <1>12 DEF Begins
<1>13. CASE EndRun
  BY <1>1, <1>13 DEF EndRun, TInv, Placed, IsCrash
<1>14. CASE Truncate \/ RestartPayment \/ Probe
  <2>1. UNCHANGED <<dirs, slot, reached, trial, instance>>
        /\ pc \in {"truncate", "restart_payment", "probe"}
    BY <1>14 DEF Truncate, RestartPayment, Probe
  <2>2. pc' \in {"restart_payment", "probe", "execute", "arm"}
    BY <1>14 DEF Truncate, RestartPayment, Probe, AfterReset
  <2>3. QED BY <1>1, <2>1, <2>2
<1>15. CASE \E t \in Txs : RunTransaction(t)
  BY <1>1, <1>15 DEF RunTransaction
<1>16. CASE ArmsTrial
  <2>1. trial'.before = instance
    BY <1>16 DEF ArmsTrial, TInv, TypeOK, Trial
  <2>2. instance \in Nat
    BY DEF TInv, TypeOK
  <2>3. driver # "phase"
    BY <1>16 DEF ArmsTrial, TInv, Placed, BeyondPhase
  <2>4. QED BY <1>1, <1>16, <2>1, <2>2, <2>3 DEF ArmsTrial
<1>17. CASE Reach
  <2>1. /\ pc = "wait" /\ UNCHANGED <<pc, dirs, slot, trial, instance>>
        /\ rows' = rows \cup TxsOf(slot) /\ reached' = reached \cup {slot}
    BY <1>17 DEF Reach, TokenOf
  <2>2. slot \in dirs
    BY <2>1 DEF RecordInv, TInv, Placed, BeyondPhase
  <2>3. TxsOf(slot)' = TxsOf(slot)
    BY <2>1 DEF TxsOf, IsCrash
  <2>4. QED BY <1>1, <2>1, <2>2, <2>3
<1>18. CASE Wait
  <2>1. trial'.persisted = (TxsOf(slot) \subseteq rows) /\ trial'.before = trial.before
    BY <1>18 DEF Wait, TInv, TypeOK, Trial
  <2>2. QED BY <1>1, <1>18, <2>1 DEF Wait, TokenOf
<1>19. CASE Kill
  BY <1>1, <1>19 DEF Kill
<1>20. CASE Restart
  <2>1. trial' = [trial EXCEPT !.after = instance + 1]
    BY <1>20 DEF Restart
  <2>2. /\ trial'.after = instance + 1 /\ trial'.before = trial.before
        /\ trial'.persisted = trial.persisted
    BY <2>1 DEF TInv, TypeOK, Trial
  <2>3. trial.before \in Nat /\ instance \in Nat
    BY DEF TInv, TypeOK, Trial
  <2>4. QED BY <1>1, <1>20, <2>2, <2>3 DEF Restart
<1>21. CASE Recover
  <2>1. pc = "recover" /\ pc' = "summarise" /\ UNCHANGED <<dirs, slot, reached, trial>>
    BY <1>21 DEF Recover
  <2>2. IsCrash(slot)' = IsCrash(slot)
    BY <2>1 DEF IsCrash
  <2>3. QED BY <1>1, <2>1, <2>2
<1>22. QED
  BY <1>2, <1>3, <1>4, <1>5, <1>6, <1>7, <1>8, <1>9, <1>10, <1>11, <1>12, <1>13, <1>14, <1>15,
     <1>16, <1>17, <1>18, <1>19, <1>20, <1>21, Classify DEF TInv, ServiceStep

-----------------------------------------------------------------------------
(* Decisions: every planned slot is decided, still to come or at work.     *)

Decided(s) ==
    CASE driver = "primary" -> ledger[s] \in {"COMPLETED", "FAILED_INFRASTRUCTURE"}
      [] driver = "robustness" -> ledger[s] = "COMPLETED"
      [] OTHER -> s \in recorded \cup failed

DecisionInv ==
    /\ pc # "off" =>
          \A s \in Planned : Decided(s) \/ s \in todo \/ (pc \in AtWork /\ s = slot)
    /\ pc \in {"report", "audit", "ended"} => \A s \in Planned : Decided(s)
    /\ pc = "ended" /\ ~ Ledgered => recorded \subseteq report

(* A decision stands while the ledger and the records keep what they say.  *)
LEMMA DecisionStands ==
    ASSUME TInv, NEW s,
           driver' = driver, Decided(s),
           ledger'[s] = ledger[s] \/ (Ledgered /\ ledger'[s] = "COMPLETED"),
           recorded \subseteq recorded', failed \subseteq failed'
    PROVE  Decided(s)'
<1>1. CASE driver = "primary"
  BY <1>1 DEF Decided, Ledgered
<1>2. CASE driver = "robustness"
  BY <1>2 DEF Decided, Ledgered
<1>3. CASE driver \notin {"primary", "robustness"}
  BY <1>3 DEF Decided
<1>4. QED BY <1>1, <1>2, <1>3

LEMMA DecisionPreserved ==
    ASSUME TInv, TInv', RecordInv, LedgerInv, DecisionInv, Next
    PROVE  DecisionInv'
<1> USE DEF DecisionInv, AtWork, Running, disk, results, outcome, plan, loop, run
<1>1. driver' = driver /\ Planned' = Planned /\ Ledgered' = Ledgered
  BY SamePlan
<1>2. Planned \subseteq Slots /\ ledger \in [Slots -> States]
  BY PlannedSlots DEF TInv, TypeOK, PlanTypeOK
<1>3. CASE Prepare
  BY <1>3 DEF Prepare
<1>4. CASE Start
  BY <1>1, <1>4 DEF Start
<1>5. CASE Pick
  <2>1. pc = "pick" /\ UNCHANGED <<recorded, failed>>
    BY <1>5 DEF Pick
  <2>2. CASE UNCHANGED <<ledger, todo, slot>> /\ pc' \in {"ended", "report"} /\ Open = {}
             /\ (pc' = "ended" => driver = "robustness")
    <3>1. \A s \in Planned : Decided(s)
      <4>1. SUFFICES ASSUME NEW s \in Planned, s \in todo, ~ Decided(s) PROVE FALSE
        BY <2>1
      <4>2. ledger[s] = "COMPLETED"
        BY <2>2, <4>1 DEF Open
      <4>3. Ledgered
        BY <1>2, <4>2 DEF LedgerInv
      <4>4. QED BY <4>1, <4>2, <4>3 DEF Decided, Ledgered
    <3>2. \A s \in Planned : Decided(s)'
      BY <1>1, <2>1, <2>2, <3>1, DecisionStands
    <3>3. QED BY <1>1, <2>2, <3>2 DEF Ledgered
  <2>3. CASE /\ slot' \in Open /\ todo' = Open \ {slot'} /\ pc' \in {"truncate", "create"}
             /\ ledger' = IF Ledgered THEN [ledger EXCEPT ![slot'] = "RUNNING"] ELSE ledger
    <3>1. SUFFICES ASSUME NEW s \in Planned, s # slot', s \notin Open
                   PROVE  Decided(s)'
      BY <1>1, <2>3
    <3>2. Decided(s)
      <4>1. CASE s \in todo
        <5>1. ledger[s] = "COMPLETED"
          BY <3>1, <4>1 DEF Open
        <5>2. Ledgered
          BY <1>2, <5>1 DEF LedgerInv
        <5>3. QED BY <5>1, <5>2 DEF Decided, Ledgered
      <4>2. QED BY <2>1, <4>1
    <3>3. ledger'[s] = ledger[s]
      BY <1>2, <2>3, <3>1
    <3>4. QED BY <1>1, <2>1, <3>2, <3>3, DecisionStands
  <2>4. QED BY <1>5, <2>2, <2>3 DEF Pick
<1>6. CASE Fails
  <2>1. CASE pc' = "off"
    BY <2>1
  <2>2. CASE pc' # "off"
    <3>1. /\ ~ Unguarded /\ driver # "robustness" /\ pc' = "pick" /\ todo' = todo
          /\ RecordFailure /\ UNCHANGED recorded /\ pc \in Running
      BY <1>6, <2>2 DEF Fails, Raise, Stop
    <3>2. slot \in Slots
      BY <1>2, <3>1 DEF TInv, Placed
    <3>3. ASSUME NEW s \in Planned, s = slot
          PROVE  Decided(s)'
      <4>1. CASE driver = "primary"
        BY <1>1, <1>2, <3>1, <3>2, <3>3, <4>1 DEF Decided, RecordFailure, Ledgered
      <4>2. CASE driver # "primary"
        BY <1>1, <3>1, <3>3, <4>2 DEF Decided, RecordFailure, Ledgered
      <4>3. QED BY <4>1, <4>2
    <3>4. ASSUME NEW s \in Planned, s # slot, Decided(s)
          PROVE  Decided(s)'
      <4>1. ledger'[s] = ledger[s] /\ failed \subseteq failed'
        BY <1>2, <3>1, <3>4 DEF RecordFailure
      <4>2. QED BY <1>1, <3>1, <3>4, <4>1, DecisionStands
    <3>5. QED BY <1>1, <3>1, <3>3, <3>4
  <2>3. QED BY <2>1, <2>2
<1>7. CASE Die
  BY <1>7 DEF Die, Stop
<1>8. ASSUME /\ pc # "off" /\ UNCHANGED <<ledger, failed, todo, slot>>
             /\ recorded \subseteq recorded'
             /\ pc \in AtWork => pc' \in AtWork
             /\ pc' \in {"audit", "ended"} => pc \in {"report", "audit", "ended"}
             /\ pc' # "report"
             /\ pc' = "ended" /\ ~ Ledgered => recorded' \subseteq report'
      PROVE  DecisionInv'
  <2>1. \A s \in Planned : Decided(s) => Decided(s)'
    BY <1>1, <1>8, DecisionStands
  <2>2. QED BY <1>1, <1>8, <2>1
<1>9. CASE Summarise
  BY <1>8, <1>9 DEF Summarise
<1>10. CASE Record
  BY <1>8, <1>10 DEF Record
<1>11. CASE Mark
  <2>1. /\ pc = "mark" /\ pc' = "pick" /\ UNCHANGED <<failed, recorded, todo>>
        /\ ledger' = IF Ledgered THEN [ledger EXCEPT ![slot] = "COMPLETED"] ELSE ledger
    BY <1>11 DEF Mark
  <2>2. slot \in Slots /\ slot \in recorded
    BY <1>2, <2>1 DEF TInv, Placed, RecordInv
  <2>3. ASSUME NEW s \in Planned, s = slot
        PROVE  Decided(s)'
    BY <1>1, <1>2, <2>1, <2>2, <2>3 DEF Decided, Ledgered
  <2>4. ASSUME NEW s \in Planned, Decided(s)
        PROVE  Decided(s)'
    <3>1. ledger'[s] = ledger[s] \/ (Ledgered /\ ledger'[s] = "COMPLETED")
      BY <1>2, <2>1
    <3>2. QED BY <1>1, <2>1, <2>4, <3>1, DecisionStands
  <2>5. QED BY <1>1, <2>1, <2>3, <2>4
<1>12. CASE Report
  <2>1. CASE pc = "report"
    <3>1. UNCHANGED <<ledger, failed, todo, slot, recorded>> /\ pc' \in {"audit", "ended"}
          /\ report' = Reported
      BY <1>12, <2>1 DEF Report, AtRest
    <3>2. ~ Ledgered => recorded \subseteq Reported
      BY DEF Reported, Ledgered, TInv, TypeOK
    <3>3. QED BY <1>8, <2>1, <3>1, <3>2
  <2>2. CASE driver = "robustness" /\ UNCHANGED pc
    <3>1. UNCHANGED <<ledger, failed, todo, slot, recorded>>
      BY <1>12 DEF Report
    <3>2. CASE pc = "off"
      BY <2>2, <3>2
    <3>3. QED BY <1>8, <1>12, <2>2, <3>1, <3>2 DEF Report, AtRest, Ledgered
  <2>3. QED BY <1>12, <2>1, <2>2 DEF Report
<1>13. CASE Audit
  <2>1. UNCHANGED <<ledger, failed, todo, slot, recorded, report>>
    BY <1>13 DEF Audit
  <2>2. CASE pc = "off"
    BY <1>13, <2>2 DEF Audit
  <2>3. QED BY <1>8, <1>13, <2>1, <2>2 DEF Audit, AtRest, Ledgered
<1>14. CASE Begins
  BY <1>8, <1>14 DEF Begins
<1>15. CASE ServiceStep
  BY <1>8, <1>15, ServiceWorks DEF Works
<1>16. CASE EndRun
  BY <1>8, <1>16 DEF EndRun
<1>17. QED
  BY <1>3, <1>4, <1>5, <1>6, <1>7, <1>9, <1>10, <1>11, <1>12, <1>13, <1>14, <1>15, <1>16,
     Classify DEF TInv

-----------------------------------------------------------------------------
(* The verdict: what it says stays true, because no run is done twice.     *)

AuditInv ==
    /\ verdict # "NONE" => Ledgered /\ frozen # NoManifest
    /\ verdict = "PASS" => Planned \subseteq recorded \ uncollected
    /\ driver = "primary" /\ verdict = "PASS" => Planned \subseteq report
    /\ driver = "primary" /\ pc = "audit" => report = summarised
    /\ driver = "robustness" /\ verdict = "PASS" =>
          \A s \in Planned : ledger[s] = "COMPLETED"
    /\ driver = "robustness" => report \in {{}, Planned}

LEMMA AuditPreserved ==
    ASSUME TInv, TInv', RecordInv, LedgerInv, AuditInv, Next
    PROVE  AuditInv'
<1> USE DEF AuditInv, Running, disk, results, outcome, plan, manifest, loop, run
<1>1. driver' = driver /\ Planned' = Planned /\ Ledgered' = Ledgered
  BY SamePlan
<1>2. Planned \subseteq Slots /\ ledger \in [Slots -> States] /\ recorded \subseteq summarised
  BY PlannedSlots DEF TInv, TypeOK, PlanTypeOK
<1>3. CASE Prepare
  <2>1. /\ Ledgered /\ PlanNext /\ pc' = "off"
        /\ UNCHANGED <<recorded, uncollected, summarised, report, verdict>>
    BY <1>3 DEF Prepare
  <2>2. frozen # NoManifest => frozen' # NoManifest
    BY <2>1 DEF PlanNext, CreateManifest, Amend, Freeze, Edit, Discard, Commit, NoManifest, TInv,
                TypeOK, PlanTypeOK
  <2>3. driver = "robustness" /\ frozen # NoManifest => ledger' = ledger
    BY <2>1 DEF PlanNext, CreateManifest, Amend, Edit, Discard, Commit
  <2>4. QED BY <1>1, <2>1, <2>2, <2>3
<1>4. CASE Start
  <2>1. Ledgered => UNCHANGED <<recorded, summarised>>
    BY <1>4 DEF Start, Ledgered
  <2>2. UNCHANGED <<ledger, frozen, uncollected, report, verdict>> /\ pc' = "pick"
    BY <1>4 DEF Start
  <2>3. QED BY <1>1, <2>1, <2>2
<1>5. CASE Pick
  <2>1. UNCHANGED <<plan, results, outcome>> /\ pc' # "audit"
    BY <1>5 DEF Pick
  <2>2. \A s \in Planned : ledger[s] = "COMPLETED" => ledger'[s] = "COMPLETED"
    <3>1. CASE UNCHANGED ledger
      BY <3>1
    <3>2. CASE \E s \in Open :
                  ledger' = IF Ledgered THEN [ledger EXCEPT ![s] = "RUNNING"] ELSE ledger
      BY <1>2, <3>2 DEF Open
    <3>3. QED BY <1>5, <3>1, <3>2 DEF Pick
  <2>3. QED BY <1>1, <2>1, <2>2
<1>6. CASE Fails
  <2>1. UNCHANGED <<plan, results, outcome>> /\ pc' # "audit" /\ pc \in Running
    BY <1>6, FailsFacts
  <2>2. ledger[slot] # "COMPLETED"
    BY <2>1 DEF LedgerInv, AtWork
  <2>3. \A s \in Planned : ledger[s] = "COMPLETED" => ledger'[s] = "COMPLETED"
    BY <1>2, <1>6, <2>2, FailsFacts
  <2>4. QED BY <1>1, <2>1, <2>3
<1>7. CASE Die
  BY <1>1, <1>7 DEF Die, Stop
<1>8. CASE Summarise
  BY <1>1, <1>8 DEF Summarise
<1>9. CASE Record
  BY <1>1, <1>9 DEF Record
<1>10. CASE Mark
  <2>1. UNCHANGED <<plan, results, outcome>> /\ pc' = "pick" /\ pc = "mark"
        /\ ledger' = IF Ledgered THEN [ledger EXCEPT ![slot] = "COMPLETED"] ELSE ledger
    BY <1>10 DEF Mark
  <2>2. \A s \in Planned : ledger[s] = "COMPLETED" => ledger'[s] = "COMPLETED"
    BY <1>2, <2>1
  <2>3. QED BY <1>1, <2>1, <2>2
<1>11. CASE Report
  <2>1. UNCHANGED <<plan, ledger, results, verdict>> /\ report' = Reported
    BY <1>11 DEF Report
  <2>2. CASE driver = "primary"
    <3>1. report' = summarised
      BY <2>1, <2>2 DEF Reported
    <3>2. QED BY <1>1, <1>2, <2>1, <2>2, <3>1
  <2>3. CASE driver = "robustness"
    <3>1. verdict = "PASS"
      BY <1>11, <2>3 DEF Report, TInv, Placed
    <3>2. report' = Planned
      BY <2>1, <2>3, <3>1 DEF Reported
    <3>3. QED BY <1>1, <2>1, <2>3, <3>1, <3>2
  <2>4. QED BY <1>1, <2>1, <2>2, <2>3 DEF Ledgered
<1>12. CASE Audit
  <2>1. /\ UNCHANGED <<plan, ledger, results, report>> /\ Ledgered
        /\ verdict' = IF Passes THEN "PASS" ELSE "FAIL"
        /\ frozen # NoManifest
    BY <1>12 DEF Audit, Ledgered, LedgerInv, AtRest
  <2>2. Passes => /\ \A s \in Planned : ledger[s] = "COMPLETED"
                  /\ Planned \subseteq recorded \ uncollected
    BY <1>2 DEF Passes, LedgerInv, CompletedIsComplete
  <2>3. driver = "primary" => report = summarised /\ pc' # "audit"
    BY <1>12 DEF Audit
  <2>4. driver = "robustness" => pc' = pc
    BY <1>12 DEF Audit
  <2>5. QED BY <1>1, <1>2, <2>1, <2>2, <2>3, <2>4
<1>13. CASE Begins
  BY <1>1, <1>13 DEF Begins
<1>14. CASE ServiceStep
  BY <1>1, <1>14, ServiceWorks DEF Works
<1>15. CASE EndRun
  <2>1. UNCHANGED <<plan, ledger, summarised, recorded, outcome>>
        /\ pc = "execute" /\ pc' = "summarise"
        /\ uncollected' \subseteq uncollected \cup {slot}
    BY <1>15 DEF EndRun
  <2>2. slot \in Planned /\ slot \notin recorded
    BY <2>1 DEF TInv, Placed, AtWork, RecordInv, RunsOnce
  <2>3. QED BY <1>1, <2>1, <2>2
<1>16. QED
  BY <1>3, <1>4, <1>5, <1>6, <1>7, <1>8, <1>9, <1>10, <1>11, <1>12, <1>13, <1>14, <1>15,
     Classify DEF TInv

-----------------------------------------------------------------------------
(* A primary campaign that met no fault and no amendment has a directory   *)
(* for completed runs only, so that it never stops short of its plan.      *)

CleanInv ==
    driver = "primary" /\ faults = 0 /\ ~ amended =>
        /\ uncollected = {}
        /\ frozen = NoManifest => dirs = {}
        /\ \A s \in dirs : ledger[s] = "COMPLETED"
                           \/ (pc \in AtWork \ {"create"} /\ s = slot)
        /\ ~ AtRest /\ pc # "restart" => up
        /\ pc # "off" => \A s \in Planned : ledger[s] = "COMPLETED" \/ s \in todo
                                            \/ (pc \in AtWork /\ s = slot)
        /\ pc \in {"report", "audit", "ended"} => \A s \in Planned : ledger[s] = "COMPLETED"
        /\ pc = "ended" => verdict = "PASS"

LEMMA CleanPreserved ==
    ASSUME TInv, TInv', RecordInv, LedgerInv, CleanInv, Next
    PROVE  CleanInv'
<1> USE DEF AtWork, Running, AtRest, disk, results, outcome, plan, manifest, loop, run
<1> SUFFICES ASSUME driver' = "primary", faults' = 0, ~ amended'
             PROVE  CleanInv'
  BY DEF CleanInv
<1>1. driver = "primary" /\ Ledgered /\ Planned' = Planned
  BY SamePlan DEF Ledgered
<1>2. /\ Planned \subseteq Slots /\ ledger \in [Slots -> States] /\ faults \in Nat
      /\ recorded \subseteq summarised /\ dirs \subseteq Slots
  BY PlannedSlots, CampaignAssumption DEF TInv, TypeOK, PlanTypeOK
<1>3. CASE Prepare
  <2>1. PlanNext /\ pc' = "off" /\ UNCHANGED <<dirs, uncollected, faults>>
    BY <1>3 DEF Prepare
  <2>2. ~ amended
    BY <2>1 DEF PlanNext, CreateManifest, Amend, Edit, Discard, Commit
  <2>3. AtRest /\ uncollected = {} /\ (frozen = NoManifest => dirs = {})
        /\ \A s \in dirs : ledger[s] = "COMPLETED"
    BY <1>1, <1>3, <2>1, <2>2 DEF Prepare, CleanInv
  <2>4. UNCHANGED <<ledger, frozen>> \/ frozen = NoManifest
    BY <2>1 DEF PlanNext, CreateManifest, Amend, Edit, Discard, Commit
  <2>5. QED BY <1>1, <2>1, <2>3, <2>4 DEF CleanInv
<1>4. ASSUME UNCHANGED plan, faults' = faults
      PROVE  /\ uncollected = {} /\ (frozen = NoManifest => dirs = {})
             /\ \A s \in dirs : ledger[s] = "COMPLETED"
                           \/ (pc \in AtWork \ {"create"} /\ s = slot)
             /\ ~ AtRest /\ pc # "restart" => up
             /\ pc # "off" => \A s \in Planned : ledger[s] = "COMPLETED" \/ s \in todo
                                            \/ (pc \in AtWork /\ s = slot)
             /\ pc \in {"report", "audit", "ended"} => \A s \in Planned : ledger[s] = "COMPLETED"
             /\ pc = "ended" => verdict = "PASS"
             /\ frozen' = frozen
  BY <1>1, <1>4 DEF CleanInv
<1>5. CASE Start
  <2>1. frozen # NoManifest
    BY <1>1, <1>5 DEF Start, MayRun, NoManifest, TInv, TypeOK, PlanTypeOK
  <2>2. UNCHANGED <<plan, ledger, dirs, uncollected, faults>> /\ AtRest /\ pc' = "pick"
        /\ up' /\ todo' = Planned
    BY <1>5 DEF Start
  <2>3. QED BY <1>1, <1>4, <2>1, <2>2 DEF CleanInv
<1>6. CASE Pick
  <2>1. UNCHANGED <<plan, results, dirs, outcome, faults, up>> /\ pc = "pick"
    BY <1>6 DEF Pick, services, orchestrator
  <2>2. CASE UNCHANGED <<ledger, slot, todo>> /\ Open = {} /\ pc' = "report"
    <3>1. \A s \in Planned : ledger[s] = "COMPLETED"
      BY <1>4, <2>1, <2>2 DEF Open
    <3>2. QED BY <1>1, <1>4, <2>1, <2>2, <3>1 DEF CleanInv
  <2>3. CASE /\ slot' \in Open /\ todo' = Open \ {slot'} /\ pc' = "create"
             /\ ledger' = [ledger EXCEPT ![slot'] = "RUNNING"]
    <3>1. \A s \in Slots : ledger[s] = "COMPLETED" => ledger'[s] = "COMPLETED"
      BY <1>2, <2>3 DEF Open
    <3>2. \A s \in Planned : ledger[s] = "COMPLETED" \/ s \in Open
      BY <1>4, <2>1 DEF Open
    <3>3. QED BY <1>1, <1>2, <1>4, <2>1, <2>3, <3>1, <3>2 DEF CleanInv
  <2>4. QED BY <1>1, <1>6, <2>2, <2>3 DEF Pick
<1>7. CASE Fails
  <2>1. CASE faults' = faults + 1
    BY <1>2, <2>1
  <2>2. CASE faults' = faults /\ pc = "create" /\ slot \in dirs
    <3>1. ledger[slot] # "COMPLETED"
      BY <2>2 DEF LedgerInv
    <3>2. QED BY <1>4, <1>7, <2>2, <3>1 DEF Fails
  <2>3. CASE faults' = faults /\ pc = "arm" /\ ~ up
    BY <1>4, <1>7, <2>3 DEF Fails
  <2>4. QED BY <1>7, <2>1, <2>2, <2>3 DEF Fails
<1>8. CASE Die
  BY <1>2, <1>8 DEF Die
(* nothing that matters changes but the driver's place                     *)
<1>9. ASSUME /\ UNCHANGED <<plan, ledger, dirs, uncollected, todo, slot, faults, up>>
             /\ pc \in AtWork \ {"create", "restart"} /\ pc' \in AtWork \ {"create", "restart"}
      PROVE  CleanInv'
  BY <1>1, <1>4, <1>9 DEF CleanInv
<1>10. CASE Summarise
  BY <1>9, <1>10 DEF Summarise, services, orchestrator
<1>11. CASE Record
  BY <1>9, <1>11 DEF Record, services, orchestrator
<1>12. CASE Mark
  <2>1. /\ pc = "mark" /\ pc' = "pick"
        /\ UNCHANGED <<plan, dirs, results, outcome, todo, faults, up>>
        /\ ledger' = [ledger EXCEPT ![slot] = "COMPLETED"]
    BY <1>1, <1>12 DEF Mark, services, orchestrator
  <2>2. slot \in Slots
    BY <1>2, <2>1 DEF TInv, Placed
  <2>3. \A s \in Slots : ledger[s] = "COMPLETED" \/ s = slot => ledger'[s] = "COMPLETED"
    BY <1>2, <2>1, <2>2
  <2>4. QED BY <1>1, <1>2, <1>4, <2>1, <2>3 DEF CleanInv
<1>13. CASE Report
  <2>1. /\ pc = "report" /\ pc' = "audit"
        /\ UNCHANGED <<plan, ledger, dirs, results, todo, slot, faults, up>>
    BY <1>1, <1>13 DEF Report, services, orchestrator
  <2>2. QED BY <1>1, <1>4, <2>1 DEF CleanInv
<1>14. CASE Audit
  <2>1. /\ pc = "audit" /\ pc' = "ended"
        /\ UNCHANGED <<plan, ledger, dirs, results, todo, slot, faults, up>>
        /\ verdict' = IF Passes THEN "PASS" ELSE "FAIL"
    BY <1>1, <1>14 DEF Audit, services, orchestrator
  <2>2. Passes
    <3>1. uncollected = {} /\ \A s \in Planned : ledger[s] = "COMPLETED"
      BY <1>4, <2>1
    <3>2. Planned \subseteq summarised
      BY <1>2, <3>1 DEF LedgerInv, CompletedIsComplete
    <3>3. QED BY <3>1, <3>2 DEF Passes
  <2>3. QED BY <1>1, <1>4, <2>1, <2>2 DEF CleanInv
<1>15. CASE Begins
  <2>1. /\ pc = "create" /\ pc' = "truncate" /\ dirs' = dirs \cup {slot}
        /\ UNCHANGED <<plan, ledger, uncollected, todo, slot, faults, up>>
    BY <1>15 DEF Begins, services, orchestrator
  <2>2. frozen # NoManifest
    BY <1>1, <2>1 DEF LedgerInv
  <2>3. QED BY <1>1, <1>4, <2>1, <2>2 DEF CleanInv
<1>16. CASE ServiceStep
  <2>1. Works
    BY <1>16, ServiceWorks
  <2>2. CASE Kill \/ Restart
    <3>1. \/ pc = "kill" /\ pc' = "restart"
          \/ pc = "restart" /\ pc' = "recover" /\ up'
      BY <2>2 DEF Kill, Restart
    <3>2. UNCHANGED <<plan, ledger, dirs, uncollected, todo, slot, faults>>
      BY <2>1 DEF Works
    <3>3. QED BY <1>1, <1>4, <3>1, <3>2 DEF CleanInv
  <2>3. CASE ~ (Kill \/ Restart)
    <3>1. up' = up /\ pc # "restart" /\ pc' # "restart"
      BY <1>16, <2>3 DEF ServiceStep, Truncate, RestartPayment, AfterReset, Probe, RunTransaction,
         ArmsTrial, Reach, Wait, Recover, services, orchestrator
    <3>2. QED BY <1>9, <2>1, <3>1 DEF Works
  <2>4. QED BY <2>2, <2>3
<1>17. CASE EndRun
  <2>1. CASE faults' = faults + 1
    BY <1>2, <2>1
  <2>2. CASE UNCHANGED <<uncollected, faults>>
    BY <1>9, <1>17, <2>2 DEF EndRun, services, orchestrator
  <2>3. QED BY <1>17, <2>1, <2>2 DEF EndRun
<1>18. QED
  BY <1>3, <1>5, <1>6, <1>7, <1>8, <1>10, <1>11, <1>12, <1>13, <1>14, <1>15, <1>16, <1>17,
     Classify DEF TInv

-----------------------------------------------------------------------------
(* The theorems.                                                           *)

CInv == TInv /\ RecordInv /\ LedgerInv /\ TrialInv /\ DecisionInv /\ AuditInv /\ CleanInv

LEMMA InitCampaign == Init => CInv
<1> SUFFICES ASSUME Init PROVE CInv
  OBVIOUS
<1>1. TInv
  BY InitTyped
<1>2. RecordInv
  BY DEF Init, RecordInv, RunsOnce, AtWork, Running
<1>3. LedgerInv
  BY DEF Init, PlanInit, LedgerInv, AtWork, Running, AtRest, CompletedIsComplete,
         CompletedAtFrozenCommit
<1>4. TrialInv
  BY DEF Init, TrialInv
<1>5. DecisionInv
  BY DEF Init, DecisionInv
<1>6. AuditInv
  BY DEF Init, AuditInv
<1>7. CleanInv
  BY DEF Init, CleanInv, AtRest
<1>8. QED BY <1>1, <1>2, <1>3, <1>4, <1>5, <1>6, <1>7 DEF CInv

LEMMA StutterCampaign == ASSUME CInv, UNCHANGED vars PROVE CInv'
<1>1. TInv'
  BY StutterTyped DEF CInv
<1> USE DEF CInv, vars, plan, campaign, manifest, disk, results, outcome, loop, run, memory,
            orchestrator, services
<1>2. Planned' = Planned /\ Ledgered' = Ledgered /\ AtRest' = AtRest
  BY DEF Planned, Ledgered, AtRest
<1>3. RecordInv'
  BY DEF RecordInv, RunsOnce
<1>4. LedgerInv'
  BY <1>2 DEF LedgerInv, CompletedIsComplete, CompletedAtFrozenCommit
<1>5. TrialInv'
  BY DEF TrialInv, IsCrash, TxsOf
<1>6. DecisionInv'
  BY <1>2 DEF DecisionInv, Decided
<1>7. AuditInv'
  BY <1>2 DEF AuditInv
<1>8. CleanInv'
  BY <1>2 DEF CleanInv
<1>9. QED BY <1>1, <1>3, <1>4, <1>5, <1>6, <1>7, <1>8

LEMMA CampaignInvariant == Spec => []CInv
<1>1. Init => CInv
  BY InitCampaign
<1>2. CInv /\ [Next]_vars => CInv'
  <2>1. ASSUME CInv, Next PROVE CInv'
    <3>1. TInv'
      BY <2>1, TypePreserved, PlacePreserved DEF CInv, TInv
    <3>2. QED
      BY <2>1, <3>1, RecordPreserved, LedgerPreserved, TrialPreserved, DecisionPreserved,
         AuditPreserved, CleanPreserved DEF CInv
  <2>2. QED BY <2>1, StutterCampaign
<1>3. QED BY <1>1, <1>2, PTL DEF Spec

(* No driver ever executes a run again whose artifacts are on disk         *)
(* (create_run makes its directory once), whatever it died on.             *)
THEOREM RunsOnceHolds == Spec => []RunsOnce
<1>1. CInv => RunsOnce
  BY DEF CInv, RecordInv
<1>2. QED BY <1>1, CampaignInvariant, PTL

(* A slot the ledger of run_primary or run_campaign calls COMPLETED has    *)
(* all its artifacts.                                                      *)
THEOREM CompletedIsCompleteHolds == Spec => []CompletedIsComplete
<1>1. CInv => CompletedIsComplete
  BY DEF CInv, LedgerInv
<1>2. QED BY <1>1, CampaignInvariant, PTL

(* What the ledger calls COMPLETED was run at the commit of the effective  *)
(* manifest (the guards of run_primary and run_campaign, amend_manifest).  *)
THEOREM FrozenCommitHolds == Spec => []CompletedAtFrozenCommit
<1>1. CInv => CompletedAtFrozenCommit
  BY DEF CInv, LedgerInv
<1>2. QED BY <1>1, CampaignInvariant, PTL

(* A recorded crash run was killed at its own crash point, with its order  *)
(* persisted, and recovered by another instance (run_crash_cell).          *)
THEOREM TrialsGenuine == Spec => []GenuineTrials
<1>1. CInv => GenuineTrials
  BY DEF CInv, TrialInv, GenuineTrials
<1>2. QED BY <1>1, CampaignInvariant, PTL

(* A driver that ends leaves no planned slot undecided.                    *)
THEOREM SlotsDecided == Spec => []EverySlotDecided
<1>1. ASSUME CInv, pc = "ended", NEW s \in Planned
      PROVE  CASE driver = "primary" -> ledger[s] \in {"COMPLETED", "FAILED_INFRASTRUCTURE"}
               [] driver = "robustness" -> ledger[s] = "COMPLETED"
               [] OTHER -> s \in report \cup failed
  <2>1. Decided(s)
    BY <1>1 DEF CInv, DecisionInv
  <2>2. ~ Ledgered => recorded \subseteq report
    BY <1>1 DEF CInv, DecisionInv
  <2>3. CASE driver = "primary"
    BY <2>1, <2>3 DEF Decided
  <2>4. CASE driver = "robustness"
    BY <2>1, <2>4 DEF Decided
  <2>5. CASE driver \notin {"primary", "robustness"}
    BY <2>1, <2>2, <2>5 DEF Decided, Ledgered
  <2>6. QED BY <2>3, <2>4, <2>5
<1>2. CInv => EverySlotDecided
  BY <1>1 DEF EverySlotDecided
<1>3. QED BY <1>2, CampaignInvariant, PTL

(* A verdict PASS is deserved and stays so; a primary campaign without     *)
(* fault and amendment gets it (audit, aggregate).                         *)
THEOREM VerdictDeserved == Spec => []AuditSound
<1>1. CInv => AuditSound
  BY DEF CInv, AuditInv, CleanInv, AuditSound
<1>2. QED BY <1>1, CampaignInvariant, PTL

-----------------------------------------------------------------------------
(* The execution order.                                                    *)

(* A sequence of numbers comes before another: the order of Earlier        *)
Before(p, q) ==
    \E i \in DOMAIN p : p[i] < q[i] /\ \A j \in 1 .. i - 1 : p[j] = q[j]

LEMMA BeforeAsymmetric ==
    ASSUME NEW n \in Nat, NEW p \in [1 .. n -> Nat], NEW q \in [1 .. n -> Nat],
           Before(p, q), Before(q, p)
    PROVE  FALSE
<1>1. PICK i \in 1 .. n : p[i] < q[i] /\ \A j \in 1 .. i - 1 : p[j] = q[j]
  BY DEF Before
<1>2. PICK k \in 1 .. n : q[k] < p[k] /\ \A j \in 1 .. k - 1 : q[j] = p[j]
  BY DEF Before
<1>3. p[i] \in Nat /\ q[i] \in Nat /\ p[k] \in Nat /\ q[k] \in Nat
  OBVIOUS
<1>4. CASE i < k
  BY <1>1, <1>2, <1>3, <1>4
<1>5. CASE k < i
  BY <1>1, <1>2, <1>3, <1>5
<1>6. CASE i = k
  BY <1>1, <1>2, <1>3, <1>6
<1>7. QED BY <1>4, <1>5, <1>6

LEMMA PositionTyping ==
    ASSUME PlanTypeOK
    PROVE  \E n \in Nat : \A s \in Slots : Position(s) \in [1 .. n -> Nat]
<1>1. ASSUME NEW s \in Slots
      PROVE  /\ Rank(s.cell.family) \in Nat /\ s.cell.rate \in Nat
             /\ s.cell.id \in Nat /\ s.rep \in Nat
  <2>1. s.cell \in AllCells /\ s.rep \in 1 .. Repetitions
    BY DEF Slots
  <2>2. s.cell \in [id : Nat, family : Families, rate : Rates, config : Configs]
    BY <2>1, PlanAssumption
  <2>3. QED BY <2>1, <2>2, PlanAssumption DEF Families, Rates, Rank
<1>2. CASE Ledgered
  <2>1. ASSUME NEW s \in Slots PROVE Position(s) \in [1 .. 4 -> Nat]
    <3>1. \A a, b, c, d \in Nat : <<a, b, c, d>> \in [1 .. 4 -> Nat]
      OBVIOUS
    <3>2. LedgerPosition(s) \in [1 .. 4 -> Nat]
      BY <1>1, <3>1 DEF LedgerPosition
    <3>3. QED BY <1>2, <3>2 DEF Position, Ledgered
  <2>2. QED BY <2>1
<1>3. CASE ~ Ledgered
  <2>1. \A s \in Slots : Position(s) \in [1 .. 3 -> Nat]
    BY <1>1, <1>3 DEF Position, PilotPosition, PhasePosition, PlanTypeOK, Ledgered
  <2>2. QED BY <2>1
<1>4. QED BY <1>2, <1>3

LEMMA EarlierAsymmetric ==
    ASSUME PlanTypeOK, NEW s \in Slots, NEW u \in Slots, Earlier(s, u), Earlier(u, s)
    PROVE  FALSE
<1>1. PICK n \in Nat : \A v \in Slots : Position(v) \in [1 .. n -> Nat]
  BY PositionTyping
<1>2. Before(Position(s), Position(u)) /\ Before(Position(u), Position(s))
  BY DEF Earlier, Before
<1>3. QED BY <1>1, <1>2, BeforeAsymmetric

(* What is still to do comes after the slot that is taken up.              *)
OrderInv == pc = "create" => \A u \in todo : Earlier(slot, u)

LEMMA OrderPreserved ==
    ASSUME TInv, OrderInv, [Next]_vars
    PROVE  OrderInv'
<1> USE DEF OrderInv
<1>1. CASE UNCHANGED vars
  BY <1>1 DEF vars, plan, campaign, manifest, loop, run, Earlier, Position, LedgerPosition,
              PilotPosition, PhasePosition, Ledgered
<1>2. CASE Next /\ ~ Pick
  <2>1. pc' # "create"
    <3>1. CASE Prepare \/ Start \/ Die \/ Summarise \/ Record \/ Report \/ Audit
      BY <3>1 DEF Prepare, Start, Die, Stop, Summarise, Record, Report, Audit, AtRest
    <3>2. CASE Mark \/ EndRun \/ Begins
      BY <3>2 DEF Mark, EndRun, Begins
    <3>3. CASE Fails
      BY <3>3 DEF Fails, Raise, Stop
    <3>4. CASE ServiceStep
      BY <3>4, ServiceWorks DEF Works
    <3>5. QED BY <1>2, <3>1, <3>2, <3>3, <3>4, Classify DEF TInv
  <2>2. QED BY <2>1
<1>3. CASE Pick
  <2>1. SUFFICES ASSUME pc' = "create" PROVE \A u \in todo' : Earlier(slot, u)'
    OBVIOUS
  <2>2. PICK s \in Open : /\ \A u \in Open \ {s} : Earlier(s, u)
                          /\ slot' = s /\ todo' = Open \ {s}
    BY <1>3, <2>1 DEF Pick
  <2>3. driver' = driver
    BY <1>3 DEF Pick, plan, campaign, manifest
  <2>4. \A u : Earlier(s, u)' <=> Earlier(s, u)
    BY <2>3 DEF Earlier, Position, LedgerPosition, PilotPosition, PhasePosition, Ledgered
  <2>5. \A u : Earlier(slot, u)' <=> Earlier(s, u)'
    BY <2>2 DEF Earlier
  <2>6. QED BY <2>2, <2>4, <2>5
<1>4. QED BY <1>1, <1>2, <1>3

(* Over all starts and deaths of a driver a slot is taken up only when the *)
(* ones before it are decided (execution_order, and the loops of           *)
(* run_primary, run_campaign and the pilot).                               *)
THEOREM OrderHolds == Spec => []LedgerOrder
<1>1. CInv /\ OrderInv => LedgerOrder
  <2>1. SUFFICES ASSUME CInv, OrderInv, pc = "create", NEW s \in Planned, Earlier(s, slot)
                 PROVE  CASE driver = "primary" -> ledger[s] # "PLANNED"
                          [] driver = "robustness" -> ledger[s] = "COMPLETED"
                          [] OTHER -> s \in recorded \cup failed
    BY DEF LedgerOrder
  <2>2. PlanTypeOK /\ s \in Slots /\ slot \in Slots
    BY <2>1, PlannedSlots DEF CInv, TInv, TypeOK, Placed, AtWork, Running
  <2>3. s # slot /\ s \notin todo
    BY <2>1, <2>2, EarlierAsymmetric DEF OrderInv
  <2>4. Decided(s)
    BY <2>1, <2>3 DEF CInv, DecisionInv
  <2>5. QED BY <2>4 DEF Decided
<1>2. Init => OrderInv
  BY DEF Init, OrderInv
<1>3. CInv /\ OrderInv /\ [Next]_vars => OrderInv'
  BY OrderPreserved DEF CInv
<1>4. QED BY <1>1, <1>2, <1>3, CampaignInvariant, PTL DEF Spec

-----------------------------------------------------------------------------
(* Isolation: crash runs come last, so that whoever runs after one that    *)
(* left no orchestrator behind notices it; and a reset forgets all.        *)

TrialSteps == {"arm", "wait", "kill", "restart", "recover"}
BeforeWork == {"create", "truncate", "restart_payment", "probe", "arm"}

IsolationInv ==
    /\ pc \in TrialSteps => IsCrash(slot)
    /\ pc \in AtWork /\ IsCrash(slot) => \A u \in todo : IsCrash(u)
    /\ up \/ AtRest \/ ((\A u \in todo : IsCrash(u)) /\ (pc \in AtWork => IsCrash(slot)))
    /\ pc \notin AtWork \/ pc \in BeforeWork => executed = {}
    /\ pc \in {"restart_payment", "probe"} => rows = {}
    /\ pc = "probe" => \A t \in Txs : payAttempts[t] = 0
    /\ pc = "execute" => rows = executed
    /\ pc = "execute" /\ driver # "phase" => \A t \in Txs \ executed : payAttempts[t] = 0

LEMMA CrashLast ==
    ASSUME PlanTypeOK, driver # "phase", NEW s \in Slots, NEW u \in Slots,
           IsCrash(s), Earlier(s, u)
    PROVE  IsCrash(u)
<1>1. PICK i \in DOMAIN Position(s) : /\ Position(s)[i] < Position(u)[i]
                                      /\ \A j \in 1 .. i - 1 : Position(s)[j] = Position(u)[j]
  BY DEF Earlier
<1>2. u.cell.family \in Families
  BY PlanAssumption DEF Slots
<1>3. CASE Ledgered
  <2>1. Position(s) = LedgerPosition(s) /\ Position(u) = LedgerPosition(u)
    BY <1>3 DEF Position, Ledgered
  <2>2. i \in 1 .. 4 /\ Position(s)[1] = 5 /\ Position(u)[1] = Rank(u.cell.family)
    <3>1. Rank("crash") = 5
      BY DEF Rank
    <3>2. LedgerPosition(s)[1] = Rank(s.cell.family) /\ LedgerPosition(u)[1] = Rank(u.cell.family)
      BY DEF LedgerPosition
    <3>3. DOMAIN LedgerPosition(s) = 1 .. 4
      BY DEF LedgerPosition
    <3>4. QED BY <1>1, <2>1, <3>1, <3>2, <3>3 DEF IsCrash
  <2>3. Rank(u.cell.family) \in 1 .. 5 /\ (Rank(u.cell.family) = 5 => IsCrash(u))
    BY <1>2 DEF Families, Rank, IsCrash
  <2>4. CASE i = 1
    BY <1>1, <2>2, <2>3, <2>4
  <2>5. CASE i # 1
    <3>1. 1 \in 1 .. i - 1
      BY <2>2, <2>5
    <3>2. QED BY <1>1, <2>2, <2>3, <3>1
  <2>6. QED BY <2>4, <2>5
<1>4. CASE ~ Ledgered
  <2>1. Position(s) = PilotPosition(s) /\ Position(u) = PilotPosition(u)
    BY <1>4 DEF Position, Ledgered, PlanTypeOK
  <2>2. /\ i \in 1 .. 3 /\ Position(s)[1] = 1
        /\ Position(u)[1] = IF IsCrash(u) THEN 1 ELSE 0
    BY <1>1, <2>1 DEF PilotPosition
  <2>3. CASE i = 1
    BY <1>1, <2>2, <2>3
  <2>4. CASE i # 1
    <3>1. 1 \in 1 .. i - 1
      BY <2>2, <2>4
    <3>2. QED BY <1>1, <2>2, <3>1
  <2>5. QED BY <2>3, <2>4
<1>5. QED BY <1>3, <1>4

LEMMA NoCrashInPhase ==
    ASSUME driver = "phase", NEW s \in Planned
    PROVE  ~ IsCrash(s)
  BY PlanAssumption DEF Planned, IsCrash

LEMMA IsolationOfRun ==
    ASSUME TInv, IsolationInv, ServiceStep \/ EndRun
    PROVE  IsolationInv'
<1> USE DEF IsolationInv, AtWork, Running, TrialSteps, BeforeWork, plan, campaign, disk, results,
            loop, run, memory, orchestrator, services
<1>1. slot' = slot /\ todo' = todo /\ driver' = driver /\ pc \in AtWork /\ pc' \in AtWork
      /\ (IsCrash(slot)' <=> IsCrash(slot)) /\ ~ AtRest
  BY ServiceWorks DEF Works, EndRun, IsCrash, AtRest
<1>2. pc \in AtWork /\ ~ IsCrash(slot) => up
  BY <1>1
<1>3. (\A u \in todo : IsCrash(u)) => (\A u \in todo' : IsCrash(u))
  BY <1>1
<1>4. CASE Truncate
  <2>1. rows' = {} /\ executed' = executed /\ up' = up /\ executed = {}
    BY <1>4 DEF Truncate
  <2>2. pc' \in {"execute", "restart_payment"} /\ (pc' = "execute" => driver = "phase")
    BY <1>4 DEF Truncate
  <2>3. QED BY <1>1, <1>3, <2>1, <2>2
<1>5. CASE RestartPayment
  <2>1. /\ rows' = rows /\ executed' = executed /\ up' = up /\ executed = {} /\ rows = {}
        /\ \A t \in Txs : payAttempts'[t] = 0
    BY <1>5 DEF RestartPayment
  <2>2. pc' \in {"probe", "arm", "execute"} /\ (pc' = "arm" => IsCrash(slot))
    BY <1>5 DEF RestartPayment, AfterReset
  <2>3. QED BY <1>1, <1>3, <2>1, <2>2
<1>6. CASE Probe
  <2>1. pc = "probe" /\ pc' = "execute" /\ UNCHANGED <<rows, executed, up, payAttempts>>
    BY <1>6 DEF Probe
  <2>2. QED BY <1>1, <1>3, <2>1
<1>7. CASE \E t \in Txs : RunTransaction(t)
  <2>1. PICK t \in Txs : RunTransaction(t)
    BY <1>7
  <2>2. pc = "execute" /\ pc' = pc /\ up' = up /\ executed' = executed \cup {t}
    BY <2>1 DEF RunTransaction
  <2>3. up
    BY <1>2, <2>2 DEF TInv, Placed
  <2>4. rows' = rows \cup {t}
    BY <2>1, <2>3 DEF RunTransaction
  <2>5. \A x \in Txs \ {t} : payAttempts'[x] = payAttempts[x]
    BY <2>1 DEF RunTransaction, TInv, TypeOK
  <2>6. QED BY <1>1, <1>3, <2>2, <2>4, <2>5
<1>8. CASE ArmsTrial \/ Reach \/ Wait \/ Kill \/ Restart \/ Recover
  <2>1. /\ pc \in TrialSteps /\ pc' \in {"wait", "kill", "restart", "recover", "summarise"}
    BY <1>8 DEF ArmsTrial, Reach, Wait, Kill, Restart, Recover
  <2>2. IsCrash(slot) /\ \A u \in todo : IsCrash(u)
    BY <1>1, <2>1
  <2>3. QED BY <1>1, <1>3, <2>1, <2>2
<1>9. CASE EndRun
  <2>1. pc' = "summarise" /\ up' = up
    BY <1>9 DEF EndRun
  <2>2. QED BY <1>1, <1>3, <2>1
<1>10. QED BY <1>4, <1>5, <1>6, <1>7, <1>8, <1>9 DEF ServiceStep

LEMMA IsolationPreserved ==
    ASSUME TInv, TInv', IsolationInv, Next
    PROVE  IsolationInv'
<1> USE DEF IsolationInv, AtWork, Running, TrialSteps, BeforeWork, plan, campaign, disk, results,
            outcome, loop, run, memory, orchestrator, services
<1>1. driver' = driver /\ Planned' = Planned
  BY SamePlan
<1>2. CASE ServiceStep \/ EndRun
  BY <1>2, IsolationOfRun
<1>3. CASE Prepare
  BY <1>3 DEF Prepare, AtRest
<1>4. CASE Start
  BY <1>4 DEF Start, AtRest
<1>5. CASE Pick
  <2>1. pc = "pick" /\ UNCHANGED <<executed, up, rows, payAttempts>> /\ executed = {}
    BY <1>5 DEF Pick
  <2>2. CASE UNCHANGED todo /\ pc' \in {"ended", "report"}
    BY <2>1, <2>2 DEF AtRest
  <2>3. CASE \E s \in Open : /\ \A u \in Open \ {s} : Earlier(s, u)
                             /\ slot' = s /\ todo' = Open \ {s} /\ pc' \in {"truncate", "create"}
    <3>1. PICK s \in Open : /\ \A u \in Open \ {s} : Earlier(s, u)
                            /\ slot' = s /\ todo' = Open \ {s} /\ pc' \in {"truncate", "create"}
      BY <2>3
    <3>2. Open \subseteq todo /\ Open \subseteq Planned /\ PlanTypeOK /\ Planned \subseteq Slots
      BY PlannedSlots DEF Open, TInv, TypeOK, Placed
    <3>3. IsCrash(s) => \A u \in Open \ {s} : IsCrash(u)
      BY <3>1, <3>2, CrashLast, NoCrashInPhase
    <3>4. IsCrash(slot)' <=> IsCrash(s)
      BY <3>1 DEF IsCrash
    <3>5. up \/ \A u \in Open : IsCrash(u)
      BY <2>1, <3>2 DEF AtRest
    <3>6. \A u : IsCrash(u)' <=> IsCrash(u)
      BY DEF IsCrash
    <3>7. QED BY <2>1, <3>1, <3>3, <3>4, <3>5, <3>6
  <2>4. QED BY <1>5, <2>2, <2>3 DEF Pick
<1>6. CASE Fails
  BY <1>6 DEF Fails, Raise, Stop, Forget, AtRest
<1>7. CASE Die
  BY <1>7 DEF Die, Stop, Forget, AtRest
<1>8. CASE Summarise \/ Record \/ Begins
  <2>1. /\ UNCHANGED <<slot, todo, executed, up, rows>>
        /\ \/ pc \in {"summarise", "record"} /\ pc' \in {"record", "mark"}
           \/ pc = "create" /\ pc' = "truncate"
    BY <1>8 DEF Summarise, Record, Begins
  <2>2. IsCrash(slot)' <=> IsCrash(slot)
    BY <2>1 DEF IsCrash
  <2>3. QED BY <2>1, <2>2 DEF AtRest
<1>9. CASE Mark
  BY <1>9 DEF Mark, Forget, AtRest
<1>10. CASE Report \/ Audit
  <2>1. /\ UNCHANGED <<slot, todo, executed, up, rows>>
        /\ \/ pc \in {"report", "audit"} /\ pc' \in {"audit", "ended"}
           \/ AtRest /\ pc' = pc
    BY <1>10 DEF Report, Audit
  <2>2. QED BY <2>1 DEF AtRest
<1>11. QED BY <1>2, <1>3, <1>4, <1>5, <1>6, <1>7, <1>8, <1>9, <1>10, Classify DEF TInv

LEMMA IsolationIdle == ASSUME IsolationInv, UNCHANGED vars PROVE IsolationInv'
  BY DEF vars, plan, campaign, loop, run, memory, orchestrator, services, IsolationInv, AtRest, IsCrash

(* A run meets nothing of the runs before it (reset_database, and the      *)
(* order of the crash cells): rows, attempts and orchestrator are its own. *)
THEOREM IsolationHolds == Spec => []RunsIsolated
<1>1. CInv /\ IsolationInv => RunsIsolated
  <2>1. SUFFICES ASSUME CInv, IsolationInv, pc = "execute"
                 PROVE  /\ up /\ rows = executed
                        /\ driver # "phase" =>
                              \A t \in TxsOf(slot) \ executed : payAttempts[t] = 0
    BY DEF RunsIsolated
  <2>2. up
    BY <2>1 DEF IsolationInv, CInv, TInv, Placed, AtRest, AtWork, Running
  <2>3. slot \in Slots
    BY <2>1, PlannedSlots DEF CInv, TInv, TypeOK, Placed, AtWork, Running
  <2>4. TxsOf(slot) \subseteq Txs
    BY <2>3, TxsTyping
  <2>5. QED BY <2>1, <2>2, <2>4 DEF IsolationInv
<1>2. Init => IsolationInv
  BY DEF Init, IsolationInv, AtRest, AtWork, Running, TrialSteps
<1>3. CInv /\ CInv' /\ IsolationInv /\ [Next]_vars => IsolationInv'
  BY IsolationPreserved, IsolationIdle DEF CInv
<1>4. QED BY <1>1, <1>2, <1>3, CampaignInvariant, PTL DEF Spec

-----------------------------------------------------------------------------
(* Failure schedules: an isolated run meets its own, whatever ran before.  *)

Paired == driver # "phase" /\ slot.cell.family \in {"F11", "F5"}

ScheduleInv ==
    /\ pc \in {"execute", "summarise", "record", "mark"} /\ Paired =>
          \A t \in executed : injected[t] = Scheduled(slot, t)
    /\ pc \in {"summarise", "record", "mark"} => TxsOf(slot) \subseteq executed

LEMMA RefusalScheduled ==
    ASSUME NEW s, NEW t, payAttempts[t] = 0
    PROVE  Refused(s, t) = Least(2, PaymentAttempts(s))
<1>1. PaymentAttempts(s) \in {1, 3}
  BY DEF PaymentAttempts
<1>2. Refused(s, t) = Least(PaymentAttempts(s), 2)
  BY DEF Refused, Least
<1>3. QED BY <1>1, <1>2 DEF Least

LEMMA TransactionScheduled ==
    ASSUME TInv, IsolationInv, ScheduleInv, NEW t \in Txs, RunTransaction(t)
    PROVE  ScheduleInv'
<1>1. /\ pc = "execute" /\ pc' = pc /\ slot' = slot /\ driver' = driver /\ draw' = draw
      /\ t \notin executed /\ executed' = executed \cup {t}
  BY DEF RunTransaction, plan, campaign
<1>2. up
  BY <1>1 DEF TInv, Placed, IsolationInv, AtRest, AtWork, Running
<1>3. /\ \A x : Scheduled(slot, x)' = Scheduled(slot, x)
      /\ Paired' <=> Paired
  BY <1>1 DEF Scheduled, Selected, PaymentAttempts, Compensates, Paired
<1>4. \A x \in Txs \ {t} : injected'[x] = injected[x]
  BY DEF RunTransaction, TInv, TypeOK
<1>5. Paired => injected'[t] = Scheduled(slot, t)
  <2>1. SUFFICES ASSUME Paired PROVE injected'[t] = Scheduled(slot, t)
    OBVIOUS
  <2>2. payAttempts[t] = 0
    BY <1>1, <2>1 DEF IsolationInv, Paired
  <2>3. injected'[t] = LET hit == Selected(slot, t)
                       IN  IF hit /\ slot.cell.family = "F11" THEN Refused(slot, t)
                           ELSE IF hit /\ slot.cell.family = "F12" /\ Compensates(slot)
                                THEN Uncancelled(t)
                           ELSE IF hit /\ slot.cell.family = "F5" THEN 1 ELSE 0
    BY <1>2 DEF RunTransaction, TInv, TypeOK
  <2>4. CASE slot.cell.family = "F11"
    BY <2>2, <2>3, <2>4, RefusalScheduled DEF Scheduled
  <2>5. CASE slot.cell.family = "F5"
    BY <2>3, <2>5 DEF Scheduled
  <2>6. QED BY <2>1, <2>4, <2>5 DEF Paired
<1>6. executed \subseteq Txs
  BY DEF TInv, TypeOK
<1>7. QED BY <1>1, <1>3, <1>4, <1>5, <1>6 DEF ScheduleInv

LEMMA SchedulePreserved ==
    ASSUME TInv, IsolationInv, ScheduleInv, Next
    PROVE  ScheduleInv'
<1> USE DEF ScheduleInv, plan, campaign, disk, results, loop, run
<1>1. CASE \E t \in Txs : RunTransaction(t)
  BY <1>1, TransactionScheduled
<1>2. CASE EndRun \/ Summarise \/ Record
  <2>1. /\ UNCHANGED <<driver, draw, slot, executed, injected>>
        /\ pc \in {"execute", "summarise", "record"} /\ pc' \in {"summarise", "record", "mark"}
        /\ pc = "execute" => TxsOf(slot) \subseteq executed
    BY <1>2 DEF EndRun, Summarise, Record
  <2>2. /\ \A t : Scheduled(slot, t)' = Scheduled(slot, t)
        /\ TxsOf(slot)' = TxsOf(slot) /\ (Paired' <=> Paired)
    BY <2>1 DEF Scheduled, Selected, PaymentAttempts, Compensates, Paired, TxsOf, IsCrash
  <2>3. QED BY <2>1, <2>2
<1>3. CASE Truncate \/ RestartPayment \/ Probe
  <2>1. executed' = {} /\ pc' \notin {"summarise", "record", "mark"}
    BY <1>3 DEF Truncate, RestartPayment, Probe, AfterReset, IsolationInv, AtWork, Running, BeforeWork
  <2>2. QED BY <2>1
<1>4. CASE Recover
  <2>1. /\ pc = "recover" /\ pc' = "summarise" /\ executed' = TxsOf(slot) /\ slot' = slot
    BY <1>4 DEF Recover
  <2>2. slot.cell.family = "crash"
    BY <2>1 DEF IsolationInv, TrialSteps, IsCrash
  <2>3. ~ Paired' /\ TxsOf(slot)' = TxsOf(slot)
    BY <2>1, <2>2 DEF Paired, TxsOf, IsCrash
  <2>4. QED BY <2>1, <2>3
<1>5. CASE ArmsTrial \/ Reach \/ Wait \/ Kill \/ Restart
  <2>1. pc' \in {"wait", "kill", "restart", "recover"}
    BY <1>5 DEF ArmsTrial, Reach, Wait, Kill, Restart
  <2>2. QED BY <2>1
<1>6. CASE Prepare \/ Start \/ Pick \/ Die \/ Mark \/ Begins \/ Report \/ Audit
  <2>1. pc' \notin {"execute", "summarise", "record", "mark"}
    BY <1>6 DEF Prepare, Start, Pick, Die, Stop, Mark, Begins, Report, Audit, AtRest
  <2>2. QED BY <2>1
<1>7. CASE Fails
  BY <1>7 DEF Fails, Raise, Stop
<1>8. QED
  BY <1>1, <1>2, <1>3, <1>4, <1>5, <1>6, <1>7, Classify DEF TInv, ServiceStep

(* Every scheduled payment failure or lost response is injected, and no    *)
(* other, whatever ran before with the same identifiers (the restart of    *)
(* the payment simulator in reset_database).                               *)
THEOREM SchedulesHold == Spec => []RetrySchedules
<1>1. CInv /\ ScheduleInv => RetrySchedules
  BY DEF ScheduleInv, RetrySchedules, Paired
<1>2. Init => IsolationInv /\ ScheduleInv
  BY DEF Init, IsolationInv, ScheduleInv, AtRest, AtWork, Running, TrialSteps
<1>3. CInv /\ CInv' /\ IsolationInv /\ ScheduleInv /\ [Next]_vars
      => IsolationInv' /\ ScheduleInv'
  <2>1. SUFFICES ASSUME CInv, IsolationInv, ScheduleInv, UNCHANGED vars
                 PROVE  ScheduleInv'
    BY IsolationPreserved, IsolationIdle, SchedulePreserved DEF CInv
  <2>2. QED
    BY <2>1 DEF vars, plan, campaign, run, ScheduleInv, Scheduled, Selected, PaymentAttempts,
                Compensates, Paired, TxsOf, IsCrash
<1>4. QED BY <1>1, <1>2, <1>3, CampaignInvariant, PTL DEF Spec
=============================================================================
