\* Every settlement ends although locks are dropped under waiting tasks.
SPECIFICATION FairSpec
CONSTANTS
    EntryFill = {"e1"}
    ExitFill = {"x1"}
    ExitRole = "EXIT"
    MaxTries = 0
    MaxSettlements = 2
    MaxRecoveries = 1
    MaxOutages = 0
    Faults = {"cancelled"}
PROPERTIES SettlersFinish
\* A group that has been dealt with is a final state.
CHECK_DEADLOCK FALSE
