SPECIFICATION Spec
CONSTANTS
    NoKey = NoKey
    NoTx = NoTx
    Keys <- OneKey
    Txs <- OneTx
    Executions = {e1, e2}
    Recoveries = {}
    Sweeps = {}
    Configurations = {"HISTORICAL", "C8"}
    ScenarioChoices = {"f0-no-failure", "f10-payment-permanently-fails"}
    CrashPoints = {FALSE}
    Faults = {"call", "inspection"}
    MaxAttempts = 2
    MaxActive = 2
    MaxCrashes = 1
INVARIANTS
    RecordsBacked
    CallsIdentified
    EffectsInOrder
    CompensatedMeansCancelled
SYMMETRY AlikeRequests
CHECK_DEADLOCK FALSE
PROPERTY ImplementsLedger
