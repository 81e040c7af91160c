SPECIFICATION FairSpec
CONSTANTS
    Keys <- OneKey
    OpenStates = {"STARTED"}
    Runs <- ChosenRuns
INVARIANTS
    TypeOK
    NoFalseAlarm
    CountsNeverOverstate
    OutcomesBacked
PROPERTY RunEnds
CHECK_DEADLOCK FALSE
