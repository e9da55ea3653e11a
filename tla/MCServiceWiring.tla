---- MODULE MCServiceWiring ----
\* Finite instances of ServiceWiring.
EXTENDS ServiceWiring, TLC

CohortSymmetry == Permutations(Cohort)
====
