SPECIFICATION Spec
CHECK_DEADLOCK FALSE

CONSTANTS
    a = a
    f = f
    g = g
    id1 = id1
    id2 = id2
    RunIds = {a}
    Notified = {}
    Claims = {f, g}
    FindingId <- SameIds
    SpecialistRoles <- Specialists
    MaxVerdicts = 2
    MaxChosen = 1
    MaxStarts = 1
    Faults = {}

INVARIANTS
    GroundedOnly
