SPECIFICATION Spec
CONSTANTS
    d1 = d1
    sensor = sensor
    lock = lock
    any = any
    model = model
    Devices = {d1}
    Classes = {sensor, lock}
    ClassOf <- OneClass
    Filters = {any, model}
    FiltersFor <- UsedFilters
    Matches <- OneMatches
INVARIANT TypeOK
INVARIANT UncontestedAgree
INVARIANT MarkedInTimeIsGone
PROPERTY FiltersHonoured
