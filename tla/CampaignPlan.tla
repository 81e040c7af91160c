---------------------------- MODULE CampaignPlan ----------------------------
(***************************************************************************)
(* What a campaign is to run: the cells of the four drivers, their slots   *)
(* and execution order, and for the two frozen campaigns (v2_final,        *)
(* v2_robustness) the manifest, which pins the code, and the ledger.       *)
(* Git is external: a head, and a working tree that is dirty or not.       *)
(***************************************************************************)
EXTENDS Naturals, FiniteSets

CONSTANTS
    PrimaryCells,     \* cells [id, family, rate, config] of v2_final
    RobustnessCells,  \* cells of v2_robustness
    PilotCells,       \* cells of v2_pilot
    PhaseCells,       \* cells of phase_a, phase_b1 or phase_b2, one per mode
    Drivers,          \* which of the four is run
    Repetitions,      \* repetitions of a cell
    MaxCommits        \* bound: commits of the repository

Families == {"F11", "F5", "F12", "F0", "crash"}
Rates == 0 .. 2       \* no failures, and two rates
Configs == {"C1", "C2", "C3", "C5", "C6", "C7", "C8", "BASELINE", "RESILIENT"}

AllCells == PrimaryCells \cup RobustnessCells \cup PilotCells \cup PhaseCells

(* Every scenario and rate of a phase has a seed of its own, shared by the *)
(* two modes; one draw of failures stands for one seed.                    *)
ASSUME PlanAssumption ==
    /\ AllCells \subseteq [id : Nat, family : Families, rate : Rates, config : Configs]
    /\ \A c \in RobustnessCells : c.family \in {"F11", "F5", "F12"}
    /\ \A c \in PhaseCells : c.config \in {"BASELINE", "RESILIENT"} /\ c.family # "crash"
    /\ \A c, d \in PhaseCells : c.rate > 0 /\ d.rate > 0 => c.family = d.family /\ c.rate = d.rate
    /\ Drivers \subseteq {"primary", "robustness", "pilot", "phase"}
    /\ Repetitions \in Nat \ {0} /\ MaxCommits \in Nat \ {0}

Slots == [cell : AllCells, rep : 1 .. Repetitions]
NoSlot == [cell |-> [id |-> 0, family |-> "F0", rate |-> 0, config |-> "C1"], rep |-> 0]

VARIABLES
    driver,     \* the campaign, fixed
    ledger,     \* campaign-ledger.json
    frozen,     \* the effective manifest: its commit, and whether it was dirty
    amended,    \* it is amendment 001
    head,       \* git rev-parse HEAD
    dirty       \* git status --porcelain is not empty

States == {"PLANNED", "RUNNING", "COMPLETED", "FAILED_INFRASTRUCTURE"}
Manifests == [commit : 1 .. MaxCommits, dirty : BOOLEAN]
NoManifest == [commit |-> 0, dirty |-> FALSE]

(* The pilot and the phases keep no manifest and no ledger.                *)
Ledgered == driver \in {"primary", "robustness"}

IsCrash(s) == s.cell.family = "crash"

PlanTypeOK ==
    /\ driver \in {"primary", "robustness", "pilot", "phase"}
    /\ ledger \in [Slots -> States]
    /\ frozen \in Manifests \cup {NoManifest}
    /\ amended \in BOOLEAN /\ head \in 1 .. MaxCommits /\ dirty \in BOOLEAN

Planned ==
    [cell : CASE driver = "primary" -> PrimaryCells
              [] driver = "robustness" -> RobustnessCells
              [] driver = "pilot" -> PilotCells
              [] driver = "phase" -> PhaseCells,
     rep : 1 .. Repetitions]

PlanInit ==
    /\ driver \in Drivers
    /\ ledger = [s \in Slots |-> "PLANNED"]
    /\ frozen = NoManifest /\ amended = FALSE /\ head = 1 /\ dirty = FALSE

-----------------------------------------------------------------------------
(* The order of the runs.                                                  *)

(* A faulty variant: the crash cells run before the cells without failures *)
RankCrashEarly(family) ==
    CASE family = "F11" -> 1 [] family = "F5" -> 2 [] family = "F12" -> 3
      [] family = "crash" -> 4 [] family = "F0" -> 5

(* the groups of execution_order                                           *)
Rank(family) ==
    CASE family = "F11" -> 1 [] family = "F5" -> 2 [] family = "F12" -> 3
      [] family = "F0" -> 4 [] family = "crash" -> 5

(* the two loops of the pilot: ordinary cells, crash cells                 *)
PilotPosition(s) == <<IF IsCrash(s) THEN 1 ELSE 0, s.cell.id, s.rep>>

(* scenario, rate and mode, which make a cell here, then repetition        *)
PhasePosition(s) == <<0, s.cell.id, s.rep>>

(* by family, rate, repetition and cell                                    *)
LedgerPosition(s) == <<Rank(s.cell.family), s.cell.rate, s.rep, s.cell.id>>

Position(s) ==
    CASE Ledgered -> LedgerPosition(s)
      [] driver = "pilot" -> PilotPosition(s)
      [] driver = "phase" -> PhasePosition(s)

Earlier(s, u) ==
    \E i \in DOMAIN Position(s) :
        /\ Position(s)[i] < Position(u)[i]
        /\ \A j \in 1 .. i - 1 : Position(s)[j] = Position(u)[j]

-----------------------------------------------------------------------------
(* The manifest.                                                           *)

Freeze == frozen' = [commit |-> head, dirty |-> dirty]

PlanAfresh == ledger' = [s \in Slots |-> "PLANNED"]

(* create_manifest.  That of the primary campaign also writes              *)
(* docs/V2_FINAL_CAMPAIGN_MANIFEST.md, which git sees.                     *)
CreateManifest ==
    /\ Ledgered /\ frozen = NoManifest
    /\ Freeze /\ PlanAfresh
    /\ dirty' = (dirty \/ driver = "primary")
    /\ UNCHANGED <<driver, amended, head>>

(* A faulty variant: the ledger goes on under the new manifest.            *)
AmendInPlace ==
    /\ driver = "primary" /\ frozen # NoManifest /\ ~ amended
    /\ amended' = TRUE
    /\ Freeze
    /\ dirty' = TRUE
    /\ UNCHANGED <<driver, head, ledger>>

(* amend_manifest, which does not ask whether a run has started            *)
Amend ==
    /\ driver = "primary" /\ frozen # NoManifest /\ ~ amended
    /\ amended' = TRUE
    /\ Freeze /\ PlanAfresh
    /\ dirty' = TRUE
    /\ UNCHANGED <<driver, head>>

(* Work on the repository between the commands.                            *)
Edit == ~ dirty /\ dirty' = TRUE /\ UNCHANGED <<driver, ledger, frozen, amended, head>>

Discard == dirty /\ dirty' = FALSE /\ UNCHANGED <<driver, ledger, frozen, amended, head>>

(* Commits are counted from the first manifest on.                         *)
Commit ==
    /\ dirty /\ head < MaxCommits /\ frozen # NoManifest
    /\ head' = head + 1 /\ dirty' = FALSE
    /\ UNCHANGED <<driver, ledger, frozen, amended>>

(* The guards of run_primary and run_campaign.                             *)
MayRun == Ledgered => /\ frozen # NoManifest
                      /\ ~ frozen.dirty /\ frozen.commit = head /\ ~ dirty

PlanNext == CreateManifest \/ Amend \/ Edit \/ Discard \/ Commit
=============================================================================
