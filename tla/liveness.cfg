SPECIFICATION FairSpec
CONSTANTS
    NoKey = NoKey
    NoTx = NoTx
    Keys <- OneKey
    Txs <- OneTx
    Executions = {e1, e2}
    Recoveries = {r1}
    Sweeps = {}
    Configurations = {"HISTORICAL", "C3", "C4", "C5", "C6", "C7"}
    ScenarioChoices = {"f0-no-failure", "f12-compensation-failure-retry"}
    CrashPoints = {TRUE}
    Faults = {}
    MaxAttempts = 2
    MaxActive = 2
    MaxCrashes = 0
INVARIANTS
    DuplicatesComplete
PROPERTIES
    RequestsEnd
CHECK_DEADLOCK FALSE
