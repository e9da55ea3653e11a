---- MODULE MCOperatorList ----
\* Finite instances of OperatorList: fewer cohorts than a phase could tell apart
\* are enough, since each bound is one record.
EXTENDS OperatorList, TLC

\* Joinable, filled and waiting for funds, signing, falling back.
MCPhaseStep ==
    {<<"Advertised", "CohortSet">>, <<"CohortSet", "SigningStarted">>,
     <<"SigningStarted", "FallbackRequested">>}

MCWindows == {1}
MCCohortTtl == 2
MCWatchStates == {"waiting", "funded"}

ListSymmetry == Permutations(Cohort)
====
