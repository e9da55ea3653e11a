---- MODULE CohortPhases ----
\* The phase vocabulary every surface of the service reads a cohort through
\* (packages/shared/src/phases.ts).  The library reports a cohort's phase as one
\* string; these sets classify it.

OPEN_PHASES == {"Advertised", "CohortSet", "CollectingUpdates"}

IN_FLIGHT_PHASES ==
    {"SigningStarted", "NoncesCollected", "AwaitingPartialSigs",
     "UpdatesCollected", "DataDistributed", "Validated", "FallbackRequested"}

FINALIZABLE_PHASES == {"SigningStarted", "NoncesCollected", "AwaitingPartialSigs"}

DISPLAY_PHASES == OPEN_PHASES \cup IN_FLIGHT_PHASES

\* getCohortPhase of a cohort the session does not (or no longer) hold.
NoPhase == "not-in-session"
====
