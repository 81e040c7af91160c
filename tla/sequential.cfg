SPECIFICATION Spec
CONSTANTS
    NoKey = NoKey
    NoTx = NoTx
    Keys <- OneKey
    Txs <- OneTx
    Executions = {e1, e2}
    Recoveries = {r1}
    Sweeps = {s1}
    Configurations = {"HISTORICAL", "C8"}
    ScenarioChoices <- Scenarios
    CrashPoints = {TRUE, FALSE}
    Faults = {}
    MaxAttempts = 3
    MaxActive = 1
    MaxCrashes = 1
INVARIANTS
    TypeOK
    TerminalAgreement
    RecoverySettles
PROPERTIES
    TerminalsAreFinal
    ImplementsSaga
CHECK_DEADLOCK FALSE
