CONSTANTS
    Cohort = {c1, c2, c3}
    Draft = {d1}
    None = None
    MaxTerminal = 1
    Windows <- MCWindows
    CohortTtl <- MCCohortTtl
    PhaseStep <- MCPhaseStep
SPECIFICATION Spec
SYMMETRY CohortSymmetry
PROPERTY RepairServesJoinable
