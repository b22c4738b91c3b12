SPECIFICATION FairSpec
CONSTANTS
    d1 = d1
    c1 = c1
    c2 = c2
    Devices = {d1}
    Contexts = {c1, c2}
    Sleepy = {d1}
    MaxCrashes = 1
INVARIANT TypeOK
INVARIANT OneTaskPerDevice
INVARIANT RetriedAfterRestart
PROPERTY PendingEndsIfScheduled
CHECK_DEADLOCK FALSE
