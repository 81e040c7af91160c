SPECIFICATION Spec
CONSTANTS
    NoKey = NoKey
    NoTx = NoTx
    Keys <- OneKey
    Txs <- OneTx
    Executions = {e1}
    Recoveries = {r1}
    Sweeps = {}
    Configurations = {"HISTORICAL", "C8"}
    ScenarioChoices = {"f10-payment-permanently-fails"}
    CrashPoints = {FALSE}
    Faults = {}
    MaxAttempts = 2
    MaxActive = 1
    MaxCrashes = 1
INVARIANTS
    RecoveryReachesTerminalState
CHECK_DEADLOCK FALSE
