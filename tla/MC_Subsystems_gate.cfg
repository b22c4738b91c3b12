SPECIFICATION Spec
CONSTANTS
    Subsystems = {s1, s2}
    Flaky = {s1}
    Service = Service
    MaxStarts = 1
INVARIANT TypeOK
INVARIANT NoMissedReadiness
PROPERTY ReadyOnlyWhenAllAre
CHECK_DEADLOCK FALSE
