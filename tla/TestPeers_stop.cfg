CONSTANTS
    CohortId = {c1, c2}
    Request = {r1, r2}
    Capacity = 2
    NoCohort = NoCohort
SPECIFICATION PeersSpec
SYMMETRY PeerSymmetry
INVARIANT PeersEndWithService
CHECK_DEADLOCK FALSE
