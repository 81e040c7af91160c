SPECIFICATION Spec
CONSTANTS
    NoKey = NoKey
    NoTx = NoTx
    Keys <- TwoKeys
    Txs <- TwoTxs
    Executions = {e1, e2}
    Recoveries = {}
    Sweeps = {}
    Configurations = {"C8"}
    ScenarioChoices = {"f0-no-failure", "f10-payment-permanently-fails"}
    CrashPoints = {FALSE}
    Faults = {"call"}
    MaxAttempts = 1
    MaxActive = 2
    MaxCrashes = 0
INVARIANTS
    IdentityPreserved
PROPERTIES
    EffectsArePermanent
SYMMETRY AlikeRequests
CHECK_DEADLOCK FALSE
