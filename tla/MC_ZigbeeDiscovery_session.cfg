SPECIFICATION Spec
CONSTANTS
    light = light
    lock = lock
    d1 = d1
    Drivers = {light, lock}
    Devices = {d1}
    Claims <- LightClaims
    MaxCycles = 2
    Recoverers = {light}
INVARIANT TypeOK
INVARIANT RefCountAccurate
INVARIANT SessionRunsUnlessOverlapped
INVARIANT KnownDevicesStayUnlessOvertaken
CHECK_DEADLOCK FALSE
