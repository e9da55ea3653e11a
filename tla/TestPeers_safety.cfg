CONSTANTS
    CohortId = {c1, c2}
    Request = {r1, r2, r3}
    Capacity = 2
    NoCohort = NoCohort
SPECIFICATION PeersSpec
SYMMETRY PeerSymmetry
INVARIANTS EveryPeerIsHeld
PROPERTY EndsReachTheirPeers
CHECK_DEADLOCK FALSE
