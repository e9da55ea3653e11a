---- MODULE MCTestPeers ----
\* Finite instances of TestPeers.
EXTENDS TestPeers, TLC

PeerSymmetry == Permutations(CohortId) \cup Permutations(Request)
====
