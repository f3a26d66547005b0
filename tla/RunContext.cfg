SPECIFICATION Spec
CHECK_DEADLOCK FALSE

CONSTANTS
    a = a
    b = b
    w = w
    p = p
    m = m
    x = x
    s1 = s1
    s2 = s2
    s3 = s3
    s4 = s4
    here = here
    there = there
    NoRun = NoRun
    NoPool = NoPool
    RunIds = {a, b}
    Updates = {w, p, m, x}
    Reception <- Received
    Matching <- References
    Tries <- Retries
    FeedbackFaults = {"db_fails", "insert_lost", "reply_fails", "reply_lost", "impatient"}
    Slots = {here, there}
    Portfolio <- FourSites
    HasProperty = {s1, s3}
    HasHostname = {s1, s2, s3}
    MaxSites = 3
    Lookback = 2
    RowCounts = {20}
    MaxDay = 1
    EvidenceFaults = {"query_fails", "bad_number", "no_account", "gsc_fails", "probe_slow"}
    Self = b
    Slot = here
    Earlier <- EarlierRun
    MemoryLimit = 3
    ChiefFeedback = 1
    LedgerFaults = {"open_fails"}

CONSTRAINT
    Quiet

INVARIANTS
    TypeOK
    NothingLost
    PoolsBounded
    SitesIsolated
    ComparisonIsFair
    VerifierCanLookUp
PROPERTIES
    FactoredIn
