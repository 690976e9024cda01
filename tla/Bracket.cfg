\* A bracket of three legs, TWS cancelling and refusing orders; no recovery run.
SPECIFICATION Spec
CONSTANTS
    E = E
    S = S
    T = T
    Entry = E
    Child <- MCChildren
    GtdLeg = {}
    TempId <- MCTempIds
    MaxId = 4
    ReqIds = {1}
    MaxRetries = 0
    MaxRecoveries = 0
    MaxOutages = 0
    Faults = {"refuse", "reject", "cancel"}
INVARIANTS
    TypeOK
    EntryHasExit
    BracketReleased
    CancelledIsDead
    BookAgrees
PROPERTIES
    FilledIsFinal
\* A group that has been dealt with is a final state.
CHECK_DEADLOCK FALSE
