\* A crash at any point, timeouts in recovery, token confirmations, late cancel errors, under fairness.
SPECIFICATION FairSpec
CONSTANTS
    E = E
    S = S
    T = T
    Entry = E
    Child <- MCOneChild
    GtdLeg = {}
    TempId <- MCTempIds
    MaxId = 4
    ReqIds = {1}
    MaxRetries = 0
    MaxRecoveries = 0
    MaxOutages = 1
    Faults = {"cancelRace", "crash", "lock", "timeout", "reauth", "refuse"}
PROPERTIES
    CreatedIsHandled
\* A group that has been dealt with is a final state.
CHECK_DEADLOCK FALSE
