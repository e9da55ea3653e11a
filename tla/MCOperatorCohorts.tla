---- MODULE MCOperatorCohorts ----
\* Finite instances of OperatorCohorts.
EXTENDS OperatorCohorts, TLC

\* One phase of each kind the code tells apart: joinable, filled but still
\* "open", waiting for funding, signing, falling back.
MCPhaseStep ==
    {<<"Advertised", "CohortSet">>, <<"CohortSet", "Validated">>,
     <<"Validated", "SigningStarted">>, <<"SigningStarted", "FallbackRequested">>}

\* A window that arms a timer and one at the TTL, which does not.
MCWindows == {1, 2}
MCCohortTtl == 2

CohortSymmetry == Permutations(Cohort)
====
