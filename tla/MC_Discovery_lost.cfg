SPECIFICATION FairSpec
CONSTANTS
    sensor = sensor
    light = light
    zigbeeSensor = zigbeeSensor
    zigbeeLight = zigbeeLight
    hue = hue
    Classes = {sensor}
    Filters = {"any"}
    Drivers = {zigbeeSensor}
    Supports <- OneClass
    NeverReject = {}
    Discovers = {zigbeeSensor}
    Recovers = {zigbeeSensor}
    Timeouts = {"untimed"}
    Monitors = {m1}
    MaxStarts = 1
PROPERTY StopIsAnnounced
CHECK_DEADLOCK FALSE
