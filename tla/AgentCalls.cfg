SPECIFICATION Spec
CHECK_DEADLOCK FALSE

CONSTANTS
    f = f
    g = g
    NoUsage = NoUsage
    Findings = {f, g}
    Documents <- Written
    MaxDocs = 2
    MaxVerdicts = 2
    MaxFindings = 2
    Options <- Proposals
    MaxChosen = 2
    MaxAttempts = 2
    Usages = {2, NoUsage}

INVARIANTS
    TypeOK
    VerdictsAreWhole
    EchoGroundsNothing
    TokensCounted
    NoDominatedAhead
PROPERTIES
    CallsEnd
