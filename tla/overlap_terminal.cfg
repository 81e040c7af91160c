SPECIFICATION Spec
CONSTANTS
    NoKey = NoKey
    NoTx = NoTx
    Keys <- OneKey
    Txs <- OneTx
    Executions = {e1, e2}
    Recoveries = {}
    Sweeps = {}
    Configurations = {"HISTORICAL", "C8"}
    ScenarioChoices <- Scenarios
    CrashPoints = {FALSE}
    Faults = {}
    MaxAttempts = 3
    MaxActive = 2
    MaxCrashes = 0
INVARIANTS
    TerminalAgreement
CHECK_DEADLOCK FALSE
