SPECIFICATION Spec
CHECK_DEADLOCK FALSE

CONSTANTS
    r1 = r1
    r2 = r2
    c1 = c1
    c2 = c2
    u1 = u1
    u2 = u2
    s1 = s1
    p1 = p1
    p2 = p2
    v0 = v0
    v1 = v1
    v2 = v2
    None = None
    Runs = {r1, r2}
    Cycles = {c1, c2}
    CycleOf <- SameCycle
    Urls = {u1, u2}
    Posts = {p1}
    PostOf <- SharedPost
    Sites = {s1}
    SiteOf <- OneSite
    Values = {v0, v1}
    Original = v0
    StoredAs <- Wavering
    Modes = {"READ_ONLY", "DRAFT", "PRODUCTION_APPROVED"}
    MaxInterventions = 2
    MaxMutationsPerSite = 1
    MaxPlan = 1
    MaxDay = 0
    Cooldown = 1
    InitialGates = {"production", "TITLE", "CONTENT"}
    Overlap = FALSE
    Faults = {"gates", "record_fails"}

INVARIANTS
    DraftNeverWrites
    CycleBudget
PROPERTIES
    ProductionGate
    RunsClose
    WritesAreGuarded
