SPECIFICATION FairSpec
CONSTANTS
    NoDevice = NoDevice
    Devices = {d1}
    Radios = {r1}
    Setters = {s1, s2}
    Removers = {}
    Timeouts = {1}
    MillisPerSec = 1
    U32 = 2
    FastDivisors = {2}
    LpmMillis = {1}
    MinUpdateInterval = 0
    MaxRestarts = 2
INVARIANT MonitorGoneAfterTerm
PROPERTY ExpiryIsPublished
