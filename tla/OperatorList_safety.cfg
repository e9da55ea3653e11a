CONSTANTS
    Cohort = {c1, c2}
    Draft = {d1}
    None = None
    MaxTerminal = 1
    MaxMonitored = 1
    MaxEnded = 1
    Windows <- MCWindows
    CohortTtl <- MCCohortTtl
    PhaseStep <- MCPhaseStep
    WatchStates <- MCWatchStates
SPECIFICATION ListSpec
SYMMETRY ListSymmetry
INVARIANTS RowsTellTheFate CountsHaveRows OffersAreHonoured
PROPERTIES RowsNeverRegress
