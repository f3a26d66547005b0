SPECIFICATION Spec
CHECK_DEADLOCK FALSE

CONSTANTS
    u = u
    v = v
    None = None
    Urls = {u}
    Values = {v}
    Cooldown = 2
    Windows = {1}
    Lag = 1
    Limit = 4
    FirstDay = 2
    MaxDay = 3
    Broken <- TitleIsBroken
    DatesSurvive = TRUE
    Faults = {"record_lost", "list_fails", "measure_lost", "notify_fails"}

INVARIANTS
    TypeOK
    PeriodIsFinal
    OnlyValidatedMeasured
    PeriodFollowsChangeUnlessStale
PROPERTIES
    ListedIsAnswered
