SPECIFICATION Spec
CHECK_DEADLOCK FALSE

CONSTANTS
    r1 = r1
    r2 = r2
    c1 = c1
    c2 = c2
    u1 = u1
    u2 = u2
    s1 = s1
    p1 = p1
    p2 = p2
    v0 = v0
    v1 = v1
    v2 = v2
    None = None
    Runs = {r1, r2}
    Cycles = {c1, c2}
    CycleOf <- OwnCycle
    Urls = {u1}
    Posts = {p1}
    PostOf <- OwnPost
    Sites = {s1}
    SiteOf <- OneSite
    Values = {v0, v1}
    Original = v0
    StoredAs <- Wavering
    Modes = {"PRODUCTION_APPROVED"}
    MaxInterventions = 1
    MaxMutationsPerSite = 1
    MaxPlan = 1
    MaxDay = 0
    Cooldown = 1
    InitialGates = {"production", "TITLE", "CONTENT"}
    Overlap = TRUE
    Faults = {"apply_lost", "apply_late", "rollback_fails", "rollback_late", "record_fails", "record_lost", "record_late", "notify_fails", "editor"}

INVARIANTS
    TypeOK
    BackupClean
    BackupReady
PROPERTIES
    RollbackUndoes
