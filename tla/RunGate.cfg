SPECIFICATION Spec
CHECK_DEADLOCK FALSE

CONSTANTS
    a = a
    f = f
    g = g
    id1 = id1
    id2 = id2
    RunIds = {a}
    Notified = {a}
    Claims = {f, g}
    FindingId <- OwnIds
    SpecialistRoles <- Specialists
    MaxVerdicts = 3
    MaxChosen = 1
    MaxStarts = 1
    Faults = {"agent_fails", "ack_lost", "create_fails", "result_fails", "result_retried", "complete_fails", "complete_lost", "complete_late", "notify_fails"}

INVARIANTS
    TypeOK
    GroundedOnly
