CONSTANTS
    Cohort = {c1, c2}
    MaxAttempts = 2
    MaxTerminal = 1
    MaxMonitored = 1
    MaxEnded = 1
SPECIFICATION Spec
SYMMETRY CohortSymmetry
INVARIANTS AnchorHonest RowsHonest FoldsAgree AwaitingExplained
PROPERTIES VerdictsStand QuietAfterStop
CHECK_DEADLOCK FALSE
