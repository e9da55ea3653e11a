CONSTANTS
    Cohort = {c1, c2, c3}
    Draft = {d1}
    None = None
    MaxTerminal = 2
    Windows <- MCWindows
    CohortTtl <- MCCohortTtl
    PhaseStep <- MCPhaseStep
SPECIFICATION Spec
SYMMETRY CohortSymmetry
INVARIANTS FateHonest BookMatchesSession SlotMirrored
PROPERTIES RepairNeverOverLiveAdvert FateRetraction ImplementsLedger
