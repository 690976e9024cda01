\* A two-leg group whose orders bounce with a retriable code.
SPECIFICATION Spec
CONSTANTS
    E = E
    S = S
    T = T
    Entry = E
    Child <- MCOneChild
    GtdLeg = {}
    TempId <- MCTempIds
    MaxId = 4
    ReqIds = {1}
    MaxRetries = 1
    MaxRecoveries = 0
    MaxOutages = 0
    Faults = {"refuse", "reject", "bounce", "cancel"}
INVARIANTS
    LiveOrdersBooked
    TempIdNeverSent
    OneFillPerLeg
PROPERTIES
    ImplementsOrderBook
\* A group that has been dealt with is a final state.
CHECK_DEADLOCK FALSE
