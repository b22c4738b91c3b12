SPECIFICATION FairSpec
CONSTANTS
    r1 = r1
    r2 = r2
    e1 = e1
    Requests = {r1, r2}
    Devices = {e1}
    DeviceOf <- OneDevice
    MaxInits = 2
INVARIANT TypeOK
INVARIANT BusyIsAccurate
INVARIANT NoForgottenWork
PROPERTY ReturnsUnlessMutexLost
CHECK_DEADLOCK FALSE
