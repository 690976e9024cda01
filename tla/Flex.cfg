\* Three groups, two of one size and one with a cancelled entry row, are entered and closed
\* with and without the program while statements are worked off, under fairness.
SPECIFICATION FairSpec
CONSTANTS
    None = None
    Group = {1, 2, 3}
    Long = {1, 2, 3}
    Qty <- TwoSizes
    CutShort = {3}
    Position <- NetPosition
    IdKind = "exec"
    Run = {1}
    MaxDay = 3
    MaxSent = 2
    MaxAborts = 1
    ExDay = 1
    PayDay = 2
    Delay = 1
    Faults = {"missed", "abort"}
INVARIANTS TypeOK HeldNotClosed ExitsFit
PROPERTIES MissedExitSettled
CHECK_DEADLOCK FALSE
