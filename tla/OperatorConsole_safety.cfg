CONSTANTS
    c1 = c1
    c2 = c2
    q1 = q1
    q2 = q2
    Cohort = {c1, c2}
    Flight = {q1, q2}
    MaxActs = 2
    MaxLogins = 2
    MaxProbes = 2
    Nil = Nil
SPECIFICATION ConsoleSpec
INVARIANTS
    SliceOwned
    NoDeadSpinner
    DetailIsOfTheOpenCohort
PROPERTIES
    RefusalEndsItsOwnSession
SYMMETRY MCSymmetry
CHECK_DEADLOCK FALSE
