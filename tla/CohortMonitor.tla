---- MODULE CohortMonitor ----
(***************************************************************************)
(* The operator's view of every cohort (packages/service/src/monitor.ts):  *)
(* three bounded maps folded from the runner's events, the broadcaster's   *)
(* frames, the funding watch and the operator's own actions, and the       *)
(* projections the console and the public funding read are answered from.  *)
(*                                                                         *)
(* Of a live entry only the fallback mark is kept: members, rounds and the *)
(* activity log are display data.  Of an ended record the fate is kept and *)
(* the mark of the script path.                                            *)
(***************************************************************************)
EXTENDS BoundedMap

CONSTANTS
    MaxMonitored,   \* MAX_MONITORED (24)
    MaxEnded        \* MAX_TERMINAL (24)

ASSUME MonitorAssumption == MaxMonitored \in Nat \ {0} /\ MaxEnded \in Nat \ {0}

VARIABLES
    entries,        \* live fold: [id, fellBack]
    ended,          \* terminal records: [id, chip, viaFallback]
    fundingViews    \* latest funding view: [id, view]

monitorVars == <<entries, ended, fundingViews>>

FundingStates == {"waiting", "awaiting-confirmation", "funded", "dead-end"}
Views == [state : FundingStates, esploraStale : BOOLEAN, terminal : BOOLEAN]

-----------------------------------------------------------------------------
(* The folds *)

FellBack(c) == c \in Keys(entries) /\ Lookup(entries, c).fellBack

\* entryFor, then remember: every membership and round event, and every
\* operator action noted against the cohort.
Touch(c, fell) ==
    entries' = Remember(entries, [id |-> c, fellBack |-> FellBack(c) \/ fell],
                        MaxMonitored)

\* rememberEnded.
RememberEnded(c, chip, via) ==
    ended' = Remember(ended, [id |-> c, chip |-> chip, viaFallback |-> via],
                      MaxEnded)

SigningCompleteFold_EntryOnly(c, path) ==   \* mutant: result.path is not read
    RememberEnded(c, IF FellBack(c) THEN "co-signed-fallback" ELSE "co-signed",
                  FellBack(c))

\* The signing-complete listener: the result's path or the entry's mark.
SigningCompleteFold(c, path) ==
    LET via == path = "script-path" \/ FellBack(c)
    IN  RememberEnded(c, IF via THEN "co-signed-fallback" ELSE "co-signed", via)

\* The listeners of cohort-failed and beacon-broadcast-failed.
FailedFold(c) == RememberEnded(c, "failed", FALSE)

AnchoredFold_Unconfirmed(c, confirmed) ==   \* mutant: no early return
    LET via == c \in Keys(ended) /\ Lookup(ended, c).viaFallback
    IN  RememberEnded(c, IF via THEN "fallback" ELSE "anchored", via)

\* The beacon-anchored listener promotes on a confirmation, and reads the
\* path off the record that stands.
AnchoredFold(c, confirmed) ==
    IF ~confirmed
    THEN UNCHANGED ended
    ELSE LET via == c \in Keys(ended) /\ Lookup(ended, c).viaFallback
         IN  RememberEnded(c, IF via THEN "fallback" ELSE "anchored", via)

RowCanceled(c) == c \in Keys(ended) /\ Lookup(ended, c).chip = "canceled"

\* noteCanceled.
NoteCanceled(c) ==
    IF RowCanceled(c)
    THEN UNCHANGED <<entries, ended>>
    ELSE Touch(c, FALSE) /\ RememberEnded(c, "canceled", FALSE)

\* noteFunding: once funded, never back.
NoteFunding(c, view) ==
    IF c \in Keys(fundingViews) /\ Lookup(fundingViews, c).view.state = "funded"
       /\ view.state # "funded"
    THEN UNCHANGED fundingViews
    ELSE fundingViews' = Remember(fundingViews, [id |-> c, view |-> view], MaxEnded)

\* dismissEnded, refused for a cohort still filling or co-signing.
DismissEnded(c, phaseDisplayed) ==
    /\ c \in Keys(ended)
    /\ ~phaseDisplayed
    /\ ended' = Delete(ended, c)
    /\ entries' = Delete(entries, c)
    /\ fundingViews' = Delete(fundingViews, c)

-----------------------------------------------------------------------------
(* The projections *)

\* publicFunding(c).awaitingFunding
publicFunding(c) ==
    /\ ~RowCanceled(c)
    /\ c \in Keys(fundingViews)
    /\ LET view == Lookup(fundingViews, c).view
       IN  ~view.terminal /\ view.state \in {"waiting", "awaiting-confirmation"}

\* The chip of c's summary row, given the row its phase asks for ("filling",
\* "co-signing", or "none" when the session shows no live phase).
summaryChip(c, live) ==
    IF live # "none"
    THEN IF c \in Keys(fundingViews)
            /\ Lookup(fundingViews, c).view.state # "funded"
         THEN "needs-funding" ELSE live
    ELSE IF c \in Keys(ended) THEN Lookup(ended, c).chip ELSE "none"
====
