\* Retries, token confirmations and the LOC/GTD cut-off under fairness.
SPECIFICATION FairSpec
CONSTANTS
    E = E
    S = S
    T = T
    Entry = E
    Child <- MCOneChild
    GtdLeg = {S}
    TempId <- MCTempIds
    MaxId = 4
    ReqIds = {1}
    MaxRetries = 1
    MaxRecoveries = 0
    MaxOutages = 0
    Faults = {"reauth", "cutoff", "bounce"}
PROPERTIES
    CreatedIsHandled
\* A group that has been dealt with is a final state.
CHECK_DEADLOCK FALSE
