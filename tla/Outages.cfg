\* One crash or disconnection and a periodic recovery run, with timeouts and a
\* positions cache that lags.
SPECIFICATION Spec
CONSTANTS
    E = E
    S = S
    T = T
    Entry = E
    Child <- MCOneChild
    GtdLeg = {}
    TempId <- MCTempIds
    MaxId = 4
    ReqIds = {1}
    MaxRetries = 0
    MaxRecoveries = 1
    MaxOutages = 1
    Faults = {"crash", "disconnect", "timeout", "stalePositions"}
INVARIANTS
    IndInv
    OneFillPerLeg
    EntryHasExit
\* A group that has been dealt with is a final state.
CHECK_DEADLOCK FALSE
