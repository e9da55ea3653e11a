CONSTANTS
    Cohort = {c1, c2, c3}
    None = None
    MaxEntries = 2
SPECIFICATION Spec
SYMMETRY CohortSymmetry
INVARIANTS SwitchHolds LegsAgree WatchesEnd ReleasedStaysReleased
CHECK_DEADLOCK FALSE
