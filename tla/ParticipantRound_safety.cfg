CONSTANTS
    d1 = d1
    d2 = d2
    c1 = c1
    c2 = c2
    Did = {d1}
    Cohort = {c1, c2}
    TermsSet = TRUE
    Mainnet = TRUE
    Unreachable = 1
    GoneReads = 2
    LagAttempts = 2
    MaxJoins = 2
    MaxReads = 2
    MaxDesk = 1
    None = None
SPECIFICATION Spec
INVARIANTS
    HandlesFollowTheRound
    VerdictsAreReal
    PolledFactsAreOfThisRound
PROPERTIES
    GateSettledOnlyByClick
SYMMETRY MCSymmetry
CHECK_DEADLOCK FALSE
