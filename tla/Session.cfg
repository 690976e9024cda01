\* Two lost, mute or refused sessions and a manual request, under fairness.
SPECIFICATION FairSpec
CONSTANTS
    Task = {t1, t2, t3}
    MaxAttempts = 2
    MaxFails = 4
    MaxOutages = 2
    MaxManual = 1
INVARIANTS
    TypeOK
    OneLoop
    SettledIsRecovered
PROPERTIES
    LoopReconnects
    StallIsDetected
\* A session lost during a reconnection is a dead end: see FindLostWakeUp.
CHECK_DEADLOCK FALSE
