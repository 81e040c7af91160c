SPECIFICATION FairSpec
CONSTANTS
    NoKey = NoKey
    Keys = {1, 2, 3}
    Size = 3
    Cells <- AllCells
    MaxAttempts = 3
INVARIANTS
    TypeOK
    RecordsBacked
    Settled
    ReportsOwnRecordAlone
    NoViolationReported
PROPERTIES
    TerminalsAreFinal
    WorkersEnd
CHECK_DEADLOCK FALSE
