\* Commissions, a crash and the Flex synchronisation beside two settlement tasks.
SPECIFICATION Spec
CONSTANTS
    EntryFill = {"e1"}
    ExitFill = {"x1"}
    ExitRole = "SL"
    MaxTries = 1
    MaxSettlements = 2
    MaxRecoveries = 0
    MaxOutages = 1
    Faults = {"commission", "crash", "flex"}
INVARIANTS TypeOK SettledWhenClosed ReportedOnce BookedOnce
PROPERTIES SettledOnce
\* A group that has been dealt with is a final state.
CHECK_DEADLOCK FALSE
