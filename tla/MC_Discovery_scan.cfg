SPECIFICATION FairSpec
CONSTANTS
    sensor = sensor
    light = light
    zigbeeSensor = zigbeeSensor
    zigbeeLight = zigbeeLight
    hue = hue
    Classes = {sensor, light}
    Filters = {"any"}
    Drivers = {zigbeeSensor, zigbeeLight, hue}
    Supports <- ThreeDrivers
    NeverReject = {}
    Discovers = {zigbeeSensor, zigbeeLight, hue}
    Recovers = {zigbeeSensor, zigbeeLight}
    Timeouts = {"timed", "untimed"}
    Monitors = {m1, m2}
    MaxStarts = 2
INVARIANT TypeOK
INVARIANT NoOrphanedScan
INVARIANT SessionScansUnlessCrossed
PROPERTY Implements
PROPERTY SessionEnds
CHECK_DEADLOCK FALSE
