SPECIFICATION Spec
CHECK_DEADLOCK FALSE

CONSTANTS
    a = a
    f = f
    g = g
    id1 = id1
    id2 = id2
    RunIds = {a}
    Notified = {a}
    Claims = {f, g}
    FindingId <- OwnIds
    SpecialistRoles <- Specialists
    MaxVerdicts = 1
    MaxChosen = 1
    MaxStarts = 2
    Faults = {"agent_fails", "ack_lost", "result_fails", "notify_fails"}

INVARIANTS
    RowTellsOutcome
    ResultsComplete

PROPERTIES
    RowsSettle
