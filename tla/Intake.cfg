\* Entries of one day and a standalone exit of the next over a queue of one place,
\* with a lost session, a crash, an exception or a RETRIABLE refusal, under fairness.
SPECIFICATION FairSpec
CONSTANTS
    g1 = g1  g2 = g2  g3 = g3
    Group = {g1, g2, g3}
    None = None
    Content <- TwoDays
    Funds = {3, 4}
    MaxFunds = 4
    Cash = {1}
    NetLiq = 4
    FactorNum = 1
    FactorDen = 1
    LimitPct = 100
    SizingMode = "margin_adjusted_capital"
    Margin = 1
    QueueSize = 1
    MaxFaults = 1
    Faults = {"cut", "crash", "raise", "bounce"}
INVARIANTS TypeOK BudgetKept ExitsCovered
PROPERTIES ArchivedIsProcessed FilesArchived ImportedIsHandled
\* The files have been imported and the orders are done with.
CHECK_DEADLOCK FALSE
