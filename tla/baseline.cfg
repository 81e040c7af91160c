SPECIFICATION Spec
CONSTANTS
    NoKey = NoKey
    NoTx = NoTx
    Keys <- TwoKeys
    Txs <- TwoTxs
    Requests = {w1, w2, w3}
    Modes = {"BASELINE", "C0", "C1"}
    ScenarioChoices <- Scenarios
    Lossy = TRUE
INVARIANTS
    TypeOK
    OneEffectPerKey
    CompletedIsBacked
    PrefixLeft
SYMMETRY AlikeRequests
CHECK_DEADLOCK FALSE
