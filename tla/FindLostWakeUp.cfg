\* Finding: a session lost during the recovery run after a reconnection stays lost.
SPECIFICATION FairSpec
CONSTANTS
    Task = {t1, t2}
    MaxAttempts = 2
    MaxFails = 4
    MaxOutages = 2
    MaxManual = 0
PROPERTIES
    SessionReturns
CHECK_DEADLOCK FALSE
