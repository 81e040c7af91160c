SPECIFICATION Spec
CONSTANTS
    PrimaryCells <- FinalCompensation
    RobustnessCells <- RateCompensation
    PilotCells <- ShortPilot
    PhaseCells <- ShortPhase
    Drivers = {"primary", "robustness", "phase"}
    MaxCommits = 1
    Repetitions = 2
    Transactions = 1
    MaxStarts = 1
    MaxFaults = 0
INVARIANT ExactSchedules
CHECK_DEADLOCK FALSE
