SPECIFICATION Spec
CONSTANTS
    NoDevice = NoDevice
    Devices = {d1}
    Radios = {r1}
    Setters = {s1}
    Removers = {x1}
    Timeouts = {0, 1, 2}
    MillisPerSec = 2
    U32 = 5
    FastDivisors = {}
    LpmMillis = {}
    MinUpdateInterval = 1
    MaxRestarts = 2
INVARIANT TypeOK
INVARIANT TimeAccounted
PROPERTY NoEarlyFailure
