SPECIFICATION Spec
CONSTANTS
    PrimaryCells <- FinalCells
    RobustnessCells <- ComparedCells
    PilotCells <- ShortPilot
    PhaseCells <- ShortPhase
    Drivers = {"robustness"}
    MaxCommits = 1
    Repetitions = 2
    Transactions = 1
    MaxStarts = 1
    MaxFaults = 0
INVARIANT RobustnessAuditable
CHECK_DEADLOCK FALSE
