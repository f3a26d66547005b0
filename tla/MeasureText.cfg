SPECIFICATION Spec
CHECK_DEADLOCK FALSE

CONSTANTS
    u = u
    v = v
    None = None
    Urls = {u}
    Values = {v}
    Cooldown = 1
    Windows = {1}
    Lag = 1
    Limit = 4
    FirstDay = 0
    MaxDay = 3
    Broken <- NoneBroken
    DatesSurvive = FALSE
    Faults = {}

PROPERTIES
    DueIsMeasured
