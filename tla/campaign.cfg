SPECIFICATION Spec
CONSTANTS
    PrimaryCells <- FinalCells
    RobustnessCells <- RateCells
    PilotCells <- ShortPilot
    PhaseCells <- ShortPhase
    Drivers = {"primary", "robustness", "pilot", "phase"}
    MaxCommits = 2
    Repetitions = 2
    Transactions = 1
    MaxStarts = 3
    MaxFaults = 2
INVARIANTS
    TypeOK
    RunsIsolated
    RetrySchedules
    RunsOnce
    CompletedIsComplete
    LedgerOrder
    GenuineTrials
    EverySlotDecided
    AuditSound
    CompletedAtFrozenCommit
CHECK_DEADLOCK FALSE
