---- MODULE MCBeaconPublication ----
\* Finite instances of BeaconPublication.
EXTENDS BeaconPublication, TLC

CohortSymmetry == Permutations(Cohort)
====
