---- MODULE BeaconPublicationProofs ----
(***************************************************************************)
(* Proofs about BeaconPublication, for any number of cohorts, any bound on *)
(* the maps and any number of attempts: the anchor answer never outruns    *)
(* the network, a verdict stands, nothing moves after the stop, every row  *)
(* of the console is the cohort's own fate, the two folds of one stream of *)
(* frames agree, and the public read asks for money only with a reason.    *)
(***************************************************************************)
EXTENDS BeaconPublication, BoundedMapProofs

AnchorStates == {"broadcast", "confirmed", "failed"}

\* What the handler's position says of the network and of the cohort.
HandlerInv ==
    \A c \in Cohort :
        /\ handler[c].step = "none" =>
              stage[c] \notin Completed \/ ~wired[c]
        /\ handler[c].step # "none" => stage[c] \in Completed /\ wired[c]
        /\ handler[c].step \in {"none", "sending", "backoff"} => c \notin acked
        /\ handler[c].step \in {"reading", "pausing"} => c \in acked
        /\ handler[c].step = "backoff" => handler[c].attempt < MaxAttempts
        /\ c \in acked => chain[c] # "absent"
        /\ chain[c] # "absent" => c \in acked \cup lost

\* What a frame of the given kind claims of cohort c.
FrameTrue(c, state) ==
    /\ state = "broadcast" => chain[c] # "absent"
    /\ state = "confirmed" => chain[c] = "mined" /\ handler[c].step = "done"
    /\ state = "failed" => c \notin acked /\ handler[c].step = "done"

FramesInv ==
    /\ Distinct(anchors)
    /\ \A i \in DOMAIN anchors : FrameTrue(anchors[i].id, anchors[i].state)

-----------------------------------------------------------------------------
(* What an action does to the maps *)

FramesStep ==
    \/ UNCHANGED anchors
    \/ \E c \in Cohort, state \in AnchorStates :
          /\ RememberAnchor(c, state)
          /\ handler[c].step # "done"
          /\ FrameTrue(c, state)'

EntriesStep ==
    \/ UNCHANGED entries
    \/ \E c \in Cohort : entries' = Delete(entries, c)
    \/ \E c \in Cohort, fell \in BOOLEAN : Touch(c, fell)

Chips == {"co-signed", "co-signed-fallback", "anchored", "fallback", "canceled", "failed"}

EndedStep ==
    \/ UNCHANGED ended
    \/ \E c \in Cohort : ended' = Delete(ended, c)
    \/ \E c \in Cohort, chip \in Chips, via \in BOOLEAN : RememberEnded(c, chip, via)

ViewsStep ==
    \/ UNCHANGED fundingViews
    \/ \E c \in Cohort : fundingViews' = Delete(fundingViews, c)
    \/ \E c \in Cohort, view \in Views :
          fundingViews' = Remember(fundingViews, [id |-> c, view |-> view], MaxEnded)

\* A map of entries of S within its bound, after a deletion or a Remember.
LEMMA MapTypeKept ==
    ASSUME NEW S, NEW map \in Seq(S), NEW bound \in Nat, Len(map) <= bound
    PROVE  /\ \A c : Delete(map, c) \in Seq(S) /\ Len(Delete(map, c)) <= bound
           /\ \A entry \in S : /\ Remember(map, entry, bound) \in Seq(S)
                               /\ Len(Remember(map, entry, bound)) <= bound
<1>1. ASSUME NEW c
      PROVE  Delete(map, c) \in Seq(S) /\ Len(Delete(map, c)) <= bound
    <2>1. Delete(map, c) \in Seq(S) /\ Len(Delete(map, c)) <= Len(map)
        BY DeleteProperties
    <2>2. Len(Delete(map, c)) \in Nat /\ Len(map) \in Nat
        BY <2>1, LenProperties
    <2> QED BY <2>1, <2>2
<1> QED BY <1>1, RememberProperties

\* The element at a position of a typed map.
LEMMA MapElement ==
    ASSUME NEW S, NEW map \in Seq(S)
    PROVE  /\ DOMAIN map = 1 .. Len(map) /\ Len(map) \in Nat
           /\ \A i \in DOMAIN map : map[i] \in S
           /\ \A c \in Keys(map) : Lookup(map, c) \in S /\ Lookup(map, c).id = c
<1>1. DOMAIN map = 1 .. Len(map) /\ Len(map) \in Nat
      /\ \A i \in DOMAIN map : map[i] \in S
    BY LenProperties, ElementOfSeq
<1> QED BY <1>1, PositionProperty DEF Lookup

\* The maps keep their types and bounds.
LEMMA MapsTyped ==
    ASSUME MapTypes, FramesStep, EntriesStep, EndedStep, ViewsStep
    PROVE  MapTypes'
<1>1. /\ MaxTerminal \in Nat /\ MaxMonitored \in Nat /\ MaxEnded \in Nat
    BY TerminalAssumption, MonitorAssumption
<1>2. anchors' \in Seq(AnchorEntry) /\ Len(anchors') <= MaxTerminal
    <2>1. ASSUME NEW c \in Cohort, NEW state \in AnchorStates, RememberAnchor(c, state)
          PROVE  anchors' \in Seq(AnchorEntry) /\ Len(anchors') <= MaxTerminal
        <3>1. [id |-> c, state |-> state] \in AnchorEntry
            BY DEF AnchorEntry, AnchorStates
        <3> QED BY <1>1, <2>1, <3>1, MapTypeKept DEF MapTypes, RememberAnchor
    <2> QED BY <2>1 DEF FramesStep, MapTypes
<1>3. entries' \in Seq(LiveEntry) /\ Len(entries') <= MaxMonitored
    <2>1. ASSUME NEW c \in Cohort, NEW fell \in BOOLEAN, Touch(c, fell)
          PROVE  entries' \in Seq(LiveEntry) /\ Len(entries') <= MaxMonitored
        <3>1. FellBack(c) \in BOOLEAN
            BY MapElement DEF FellBack, MapTypes, LiveEntry
        <3>2. [id |-> c, fellBack |-> FellBack(c) \/ fell] \in LiveEntry
            BY <3>1 DEF LiveEntry
        <3> QED BY <1>1, <2>1, <3>2, MapTypeKept DEF MapTypes, Touch
    <2>2. ASSUME NEW c \in Cohort, entries' = Delete(entries, c)
          PROVE  entries' \in Seq(LiveEntry) /\ Len(entries') <= MaxMonitored
        BY <1>1, <2>2, MapTypeKept DEF MapTypes
    <2> QED BY <2>1, <2>2 DEF EntriesStep, MapTypes
<1>4. ended' \in Seq(EndedRecord) /\ Len(ended') <= MaxEnded
    <2>1. ASSUME NEW c \in Cohort, NEW chip \in Chips, NEW via \in BOOLEAN,
                 RememberEnded(c, chip, via)
          PROVE  ended' \in Seq(EndedRecord) /\ Len(ended') <= MaxEnded
        <3>1. [id |-> c, chip |-> chip, viaFallback |-> via] \in EndedRecord
            BY DEF EndedRecord, Chips
        <3> QED BY <1>1, <2>1, <3>1, MapTypeKept DEF MapTypes, RememberEnded
    <2>2. ASSUME NEW c \in Cohort, ended' = Delete(ended, c)
          PROVE  ended' \in Seq(EndedRecord) /\ Len(ended') <= MaxEnded
        BY <1>1, <2>2, MapTypeKept DEF MapTypes
    <2> QED BY <2>1, <2>2 DEF EndedStep, MapTypes
<1>5. fundingViews' \in Seq(ViewEntry) /\ Len(fundingViews') <= MaxEnded
    <2>1. ASSUME NEW c \in Cohort, NEW view \in Views,
                 fundingViews' = Remember(fundingViews, [id |-> c, view |-> view], MaxEnded)
          PROVE  fundingViews' \in Seq(ViewEntry) /\ Len(fundingViews') <= MaxEnded
        <3>1. [id |-> c, view |-> view] \in ViewEntry
            BY DEF ViewEntry
        <3> QED BY <1>1, <2>1, <3>1, MapTypeKept DEF MapTypes
    <2>2. ASSUME NEW c \in Cohort, fundingViews' = Delete(fundingViews, c)
          PROVE  fundingViews' \in Seq(ViewEntry) /\ Len(fundingViews') <= MaxEnded
        BY <1>1, <2>2, MapTypeKept DEF MapTypes
    <2> QED BY <2>1, <2>2 DEF ViewsStep, MapTypes
<1> QED BY <1>2, <1>3, <1>4, <1>5 DEF MapTypes

-----------------------------------------------------------------------------
(* Every step of the specification is one of the map steps *)

\* The record an action files is one of the fates.
LEMMA Files ==
    ASSUME MapTypes, NEW c \in Cohort
    PROVE  /\ \A path : SigningCompleteFold(c, path) => EndedStep
           /\ FailedFold(c) => EndedStep
           /\ \A confirmed \in BOOLEAN : AnchoredFold(c, confirmed) => EndedStep
           /\ NoteCanceled(c) => EndedStep /\ EntriesStep
<1>1. FellBack(c) \in BOOLEAN
    BY MapElement DEF FellBack, MapTypes, LiveEntry
<1>2. c \in Keys(ended) => Lookup(ended, c).viaFallback \in BOOLEAN
    <2>1. c \in Keys(ended) => Lookup(ended, c) \in EndedRecord
        BY MapElement DEF MapTypes
    <2> QED BY <2>1 DEF EndedRecord
<1>3. ASSUME NEW path, SigningCompleteFold(c, path)
      PROVE  EndedStep
    <2> DEFINE via == path = "script-path" \/ FellBack(c)
               chip == IF via THEN "co-signed-fallback" ELSE "co-signed"
    <2>1. via \in BOOLEAN /\ chip \in Chips
        BY <1>1 DEF Chips
    <2>2. RememberEnded(c, chip, via)
        BY <1>3 DEF SigningCompleteFold
    <2> HIDE DEF via, chip
    <2> QED BY <2>1, <2>2 DEF EndedStep
<1>4. ASSUME FailedFold(c)
      PROVE  EndedStep
    <2>1. RememberEnded(c, "failed", FALSE) /\ "failed" \in Chips
        BY <1>4 DEF FailedFold, Chips
    <2> QED BY <2>1 DEF EndedStep
<1>5. ASSUME NEW confirmed \in BOOLEAN, AnchoredFold(c, confirmed)
      PROVE  EndedStep
    <2> DEFINE via == c \in Keys(ended) /\ Lookup(ended, c).viaFallback
               chip == IF via THEN "fallback" ELSE "anchored"
    <2>1. via \in BOOLEAN /\ chip \in Chips
        BY <1>2 DEF Chips
    <2>2. UNCHANGED ended \/ RememberEnded(c, chip, via)
        BY <1>5 DEF AnchoredFold
    <2> HIDE DEF via, chip
    <2> QED BY <2>1, <2>2 DEF EndedStep
<1>6. ASSUME NoteCanceled(c)
      PROVE  EndedStep /\ EntriesStep
    <2>1. CASE RowCanceled(c)
        BY <1>6, <2>1 DEF NoteCanceled, EndedStep, EntriesStep
    <2>2. CASE ~RowCanceled(c)
        <3>1. Touch(c, FALSE) /\ RememberEnded(c, "canceled", FALSE)
              /\ "canceled" \in Chips
            BY <1>6, <2>2 DEF NoteCanceled, Chips
        <3> QED BY <3>1 DEF EndedStep, EntriesStep
    <2> QED BY <2>1, <2>2
<1> QED BY <1>3, <1>4, <1>5, <1>6

\* Noting a view is a step of the views.
LEMMA Notes ==
    ASSUME NEW c \in Cohort, NEW view \in Views, NoteFunding(c, view)
    PROVE  ViewsStep
BY DEF NoteFunding, ViewsStep

\* A retry keeps the fates' types.
LEMMA Retries ==
    ASSUME MapTypes, NEW c \in Cohort, Retry(c)
    PROVE  EndedStep
<1>1. UNCHANGED ended \/ FailedFold(c)
    BY DEF Retry, NoFrame, FailedFrame
<1> QED BY <1>1, Files DEF EndedStep

LEMMA FoldSteps ==
    ASSUME TypeOK, Next
    PROVE  EntriesStep /\ EndedStep /\ ViewsStep
<1>0. MapTypes /\ RunTypes
    BY DEF TypeOK
<1>a. UNCHANGED entries => EntriesStep
    BY DEF EntriesStep
<1>b. UNCHANGED ended => EndedStep
    BY DEF EndedStep
<1>c. UNCHANGED fundingViews => ViewsStep
    BY DEF ViewsStep
<1>d. \A c \in Cohort, fell \in BOOLEAN : Touch(c, fell) => EntriesStep
    BY DEF EntriesStep
<1>1. ASSUME NEW c \in Cohort, Advertise(c) \/ WindowExpires(c)
      PROVE  EntriesStep /\ EndedStep /\ ViewsStep
    BY <1>1, <1>a, <1>b, <1>c DEF Advertise, WindowExpires, monitorVars
<1>2. ASSUME NEW c \in Cohort,
             KeygenComplete(c) \/ CohortEvent(c) \/ SigningStarted(c) \/ FallbackStarted(c)
      PROVE  EntriesStep /\ EndedStep /\ ViewsStep
    <2>1. /\ Touch(c, FALSE) \/ Touch(c, TRUE)
          /\ UNCHANGED <<ended, fundingViews>>
        BY <1>2 DEF KeygenComplete, CohortEvent, SigningStarted, FallbackStarted
    <2> QED BY <2>1, <1>b, <1>c, <1>d
<1>3. ASSUME NEW c \in Cohort, NEW extracts \in BOOLEAN, SigningComplete(c, extracts)
      PROVE  EntriesStep /\ EndedStep /\ ViewsStep
    <2>1. /\ \E path : SigningCompleteFold(c, path)
          /\ UNCHANGED <<entries, fundingViews>>
        BY <1>3 DEF SigningComplete
    <2> QED BY <2>1, <1>0, <1>a, <1>c, Files
<1>4. ASSUME NEW c \in Cohort, CohortFailed(c)
      PROVE  EntriesStep /\ EndedStep /\ ViewsStep
    <2>1. FailedFold(c) /\ UNCHANGED entries
        BY <1>4 DEF CohortFailed
    <2>2. [lastView[c] EXCEPT !.terminal = TRUE] \in Views
        BY <1>0 DEF RunTypes, Views
    <2>3. \/ UNCHANGED fundingViews
          \/ NoteFunding(c, [lastView[c] EXCEPT !.terminal = TRUE])
        BY <1>4 DEF CohortFailed
    <2> QED BY <2>1, <2>2, <2>3, <1>0, <1>a, <1>c, Files, Notes
<1>5. ASSUME NEW c \in Cohort, CancelCohort(c)
      PROVE  EntriesStep /\ EndedStep /\ ViewsStep
    <2>1. NoteCanceled(c) /\ UNCHANGED fundingViews
        BY <1>5 DEF CancelCohort
    <2> QED BY <2>1, <1>0, <1>c, Files
<1>6. ASSUME NEW c \in Cohort, Dismiss(c)
      PROVE  EntriesStep /\ EndedStep /\ ViewsStep
    BY <1>6 DEF Dismiss, DismissEnded, EntriesStep, EndedStep, ViewsStep
<1>7. ASSUME NEW c \in Cohort, SendAccepted(c) \/ SendAgain(c)
      PROVE  EntriesStep /\ EndedStep /\ ViewsStep
    BY <1>7, <1>a, <1>b, <1>c
       DEF SendAccepted, SendAgain, HandlerOnly, NoFrame, BroadcastFrame
<1>8. ASSUME NEW c \in Cohort, SendRefused(c) \/ SendLost(c)
      PROVE  EntriesStep /\ EndedStep /\ ViewsStep
    <2>1. Retry(c) /\ UNCHANGED <<entries, fundingViews>>
        BY <1>8 DEF SendRefused, SendLost, HandlerOnly
    <2> QED BY <2>1, <1>0, <1>a, <1>c, Retries
<1>9. ASSUME NEW c \in Cohort, NEW flag \in BOOLEAN,
             ConfirmationRead(c, flag) \/ PollAgain(c, flag)
      PROVE  EntriesStep /\ EndedStep /\ ViewsStep
    <2>1. /\ UNCHANGED ended \/ AnchoredFold(c, TRUE) \/ AnchoredFold(c, FALSE)
          /\ UNCHANGED <<entries, fundingViews>>
        BY <1>9 DEF ConfirmationRead, PollAgain, HandlerOnly, NoFrame, AnchoredFrame
    <2> QED BY <2>1, <1>0, <1>a, <1>b, <1>c, Files
<1>10. ASSUME NEW c \in Cohort, NetworkStep(c)
       PROVE  EntriesStep /\ EndedStep /\ ViewsStep
    BY <1>10, <1>a, <1>b, <1>c DEF NetworkStep, Pay, LateArrival, Mine, monitorVars
<1>11. ASSUME NEW c \in Cohort, NEW ok \in BOOLEAN, WatchPoll(c, ok)
       PROVE  EntriesStep /\ EndedStep /\ ViewsStep
    <2> DEFINE view == [state |-> Classified(c, ok), esploraStale |-> ~ok,
                        terminal |-> FALSE]
    <2>1. Classified(c, ok) \in FundingStates
        BY <1>0 DEF RunTypes, Views, FundingStates, Classified
    <2>2. view \in Views
        BY <2>1 DEF Views
    <2>3. NoteFunding(c, view) /\ UNCHANGED <<entries, ended>>
        BY <1>11 DEF WatchPoll
    <2> HIDE DEF view
    <2> QED BY <2>2, <2>3, <1>a, <1>b, Notes
<1>12. ASSUME Stop
       PROVE  EntriesStep /\ EndedStep /\ ViewsStep
    BY <1>12, <1>a, <1>b, <1>c DEF Stop, monitorVars
<1> QED BY <1>1, <1>2, <1>3, <1>4, <1>5, <1>6, <1>7, <1>8, <1>9, <1>10, <1>11, <1>12
        DEF Next, RunnerStep, OperatorStep, HandlerStep

-----------------------------------------------------------------------------
(* Types and the handler *)

LEMMA RunTyped ==
    ASSUME TypeOK, HandlerInv, Next
    PROVE  RunTypes'
<1>0. RunTypes
    BY DEF TypeOK
<1>a. gone' \subseteq Cohort
    <2>1. Keys(ended) \subseteq Cohort
        <3>1. \A i \in DOMAIN ended : ended[i] \in EndedRecord
            BY MapElement DEF TypeOK, MapTypes
        <3> QED BY <3>1 DEF Keys, EndedRecord
    <2> QED BY <1>0, <2>1 DEF Next, RunTypes
<1>b. NoView \in Views
    BY DEF NoView, Views, FundingStates
<1> DEFINE Typed == /\ stage' \in [Cohort -> {"fresh"} \cup Underway \cup Ends]
                    /\ wired' \in [Cohort -> BOOLEAN]
                    /\ funds' \in [Cohort -> {"none", "unconfirmed", "enough", "short"}]
                    /\ lastView' \in [Cohort -> Views]
                    /\ watching' \subseteq Cohort
                    /\ handler' \in [Cohort -> [step : HandlerSteps, attempt : 0 .. MaxAttempts]]
                    /\ chain' \in [Cohort -> {"absent", "mempool", "mined"}]
                    /\ lost' \subseteq Cohort /\ acked' \subseteq Cohort
                    /\ stopped' \in BOOLEAN
<1>c. \A c \in Cohort, step \in HandlerSteps, attempt \in 0 .. MaxAttempts :
         HandlerAt(c, step, attempt) =>
             handler' \in [Cohort -> [step : HandlerSteps, attempt : 0 .. MaxAttempts]]
    BY <1>0 DEF HandlerAt, RunTypes
<1>d. MaxAttempts \in Nat /\ 0 \in 0 .. MaxAttempts /\ 1 \in 0 .. MaxAttempts
    BY AttemptsAssumption
<1>1. ASSUME NEW c \in Cohort, Advertise(c) \/ WindowExpires(c) \/ Dismiss(c)
                                 \/ CohortEvent(c) \/ SigningStarted(c) \/ FallbackStarted(c)
      PROVE  Typed
    BY <1>0, <1>1 DEF Advertise, WindowExpires, Dismiss, CohortEvent, SigningStarted,
       FallbackStarted, Quiet, Move, RunTypes, network, Underway, Ends, Completed
<1>2. ASSUME NEW c \in Cohort, KeygenComplete(c)
      PROVE  Typed
    BY <1>0, <1>2 DEF KeygenComplete, Move, RunTypes, network, Underway
<1>3. ASSUME NEW c \in Cohort, NEW extracts \in BOOLEAN, SigningComplete(c, extracts)
      PROVE  Typed
    <2>1. handler' \in [Cohort -> [step : HandlerSteps, attempt : 0 .. MaxAttempts]]
        BY <1>0, <1>3, <1>d DEF SigningComplete, RunTypes, HandlerSteps
    <2> QED BY <1>0, <1>3, <1>b, <2>1
            DEF SigningComplete, Move, Release, RunTypes, network, Underway, Ends
<1>4. ASSUME NEW c \in Cohort, CohortFailed(c) \/ CancelCohort(c)
      PROVE  Typed
    <2>1. /\ stage' \in [Cohort -> {"fresh"} \cup Underway \cup Ends]
          /\ UNCHANGED <<wired, network, handler, acked, stopped>>
        BY <1>0, <1>4 DEF CohortFailed, CancelCohort, Move, RunTypes, Ends
    <2>2. \/ UNCHANGED <<watching, lastView>>
          \/ Release(c)
        BY <1>4 DEF CohortFailed, CancelCohort
    <2>3. lastView' \in [Cohort -> Views] /\ watching' \subseteq Cohort
        BY <1>0, <1>b, <2>2 DEF Release, RunTypes
    <2> QED BY <1>0, <2>1, <2>3 DEF RunTypes, network
<1>5. ASSUME NEW c \in Cohort, SendAccepted(c)
      PROVE  Typed
    <2>1. handler' \in [Cohort -> [step : HandlerSteps, attempt : 0 .. MaxAttempts]]
        BY <1>5, <1>c, <1>d DEF SendAccepted, HandlerSteps
    <2> QED BY <1>0, <1>5, <2>1 DEF SendAccepted, HandlerOnly, RunTypes
<1>6. ASSUME NEW c \in Cohort, SendRefused(c) \/ SendLost(c)
      PROVE  Typed
    <2>1. handler[c].attempt \in 0 .. MaxAttempts
        BY <1>0 DEF RunTypes
    <2>2. \E step \in {"done", "backoff"}, attempt \in {0, handler[c].attempt} :
             HandlerAt(c, step, attempt)
        BY <1>6 DEF SendRefused, SendLost, Retry
    <2>3. handler' \in [Cohort -> [step : HandlerSteps, attempt : 0 .. MaxAttempts]]
        BY <1>c, <1>d, <2>1, <2>2 DEF HandlerSteps
    <2> QED BY <1>0, <1>6, <2>3 DEF SendRefused, SendLost, HandlerOnly, RunTypes
<1>7. ASSUME NEW c \in Cohort, NEW flag \in BOOLEAN,
             ConfirmationRead(c, flag) \/ PollAgain(c, flag)
      PROVE  Typed
    <2>1. \E step \in {"done", "pausing", "reading"} : HandlerAt(c, step, 0)
        BY <1>7 DEF ConfirmationRead, PollAgain
    <2>2. handler' \in [Cohort -> [step : HandlerSteps, attempt : 0 .. MaxAttempts]]
        BY <1>c, <1>d, <2>1 DEF HandlerSteps
    <2> QED BY <1>0, <1>7, <2>2 DEF ConfirmationRead, PollAgain, HandlerOnly, RunTypes
<1>8. ASSUME NEW c \in Cohort, NetworkStep(c)
      PROVE  Typed
    BY <1>0, <1>8 DEF NetworkStep, Pay, LateArrival, Mine, RunTypes
<1>9. ASSUME NEW c \in Cohort, NEW ok \in BOOLEAN, WatchPoll(c, ok)
      PROVE  Typed
    <2> DEFINE view == [state |-> Classified(c, ok), esploraStale |-> ~ok,
                        terminal |-> FALSE]
    <2>1. Classified(c, ok) \in FundingStates
        BY <1>0 DEF RunTypes, Views, FundingStates, Classified
    <2>2. view \in Views
        BY <2>1 DEF Views
    <2>3. /\ lastView' = [lastView EXCEPT ![c] = view]
          /\ watching' \subseteq watching
          /\ UNCHANGED <<stage, wired, network, handler, acked, stopped>>
        BY <1>9 DEF WatchPoll
    <2> HIDE DEF view
    <2> QED BY <1>0, <2>2, <2>3 DEF RunTypes, network
<1>10. ASSUME Stop
       PROVE  Typed
    BY <1>0, <1>10 DEF Stop, RunTypes, network, Ends
<1>11. ASSUME NEW c \in Cohort, SendAgain(c)
       PROVE  Typed
    <2>1. handler' \in [Cohort -> [step : HandlerSteps, attempt : 0 .. MaxAttempts]]
        <3>1. handler[c].attempt + 1 \in 0 .. MaxAttempts
            BY <1>0, <1>d, <1>11 DEF SendAgain, HandlerInv, RunTypes
        <3> QED BY <1>c, <1>d, <1>11, <3>1 DEF SendAgain, HandlerSteps
    <2> QED BY <1>0, <1>11, <2>1 DEF SendAgain, HandlerOnly, RunTypes
<1> HIDE DEF Typed
<1>12. Typed
    BY <1>1, <1>2, <1>3, <1>4, <1>5, <1>6, <1>7, <1>8, <1>9, <1>10, <1>11
       DEF Next, RunnerStep, OperatorStep, HandlerStep
<1> QED BY <1>12, <1>a DEF RunTypes, Typed

\* The actions of the cohort, the operator and the display watch leave the
\* handlers and the transactions alone, and complete no cohort.
Elsewhere ==
    /\ UNCHANGED <<handler, chain, lost, acked, wired, anchors>>
    /\ \A c \in Cohort : stage'[c] \in Completed <=> stage[c] \in Completed

LEMMA ElsewhereSteps ==
    ASSUME TypeOK, NEW c \in Cohort,
           \/ Advertise(c) \/ WindowExpires(c) \/ Dismiss(c) \/ CohortEvent(c)
           \/ SigningStarted(c) \/ FallbackStarted(c) \/ KeygenComplete(c)
           \/ CohortFailed(c) \/ CancelCohort(c) \/ Pay(c)
           \/ \E ok \in BOOLEAN : WatchPoll(c, ok)
           \/ Stop
    PROVE  Elsewhere
<1>1. RunTypes
    BY DEF TypeOK
<1>2. UNCHANGED <<handler, chain, lost, acked, wired, anchors>>
    BY DEF Advertise, WindowExpires, Dismiss, CohortEvent, SigningStarted, FallbackStarted,
       KeygenComplete, CohortFailed, CancelCohort, Pay, WatchPoll, Stop, Quiet, network
<1>3. \/ UNCHANGED stage
      \/ stage' = [d \in Cohort |-> IF stage[d] \in Underway THEN "stopped" ELSE stage[d]]
      \/ \E to \in {"filling", "keyed", "signing", "fallback", "failed", "canceled",
                    "window-expired"} :
            stage[c] \in Underway \cup {"fresh"} /\ stage' = [stage EXCEPT ![c] = to]
    BY DEF Advertise, WindowExpires, Dismiss, CohortEvent, SigningStarted, FallbackStarted,
       KeygenComplete, CohortFailed, CancelCohort, Pay, WatchPoll, Stop, Move, Underway
<1>4. \A d \in Cohort : stage'[d] \in Completed <=> stage[d] \in Completed
    BY <1>1, <1>3 DEF RunTypes, Completed, Underway
<1> QED BY <1>2, <1>4 DEF Elsewhere

\* The kinds of steps there are.
LEMMA Kinds ==
    ASSUME TypeOK, Next
    PROVE  \/ Elsewhere
           \/ \E c \in Cohort :
                \/ \E extracts \in BOOLEAN : SigningComplete(c, extracts)
                \/ HandlerStep(c) \/ LateArrival(c) \/ Mine(c)
<1>1. \/ Stop
      \/ \E c \in Cohort : \/ RunnerStep(c) \/ OperatorStep(c) \/ HandlerStep(c)
                            \/ NetworkStep(c) \/ \E ok \in BOOLEAN : WatchPoll(c, ok)
    BY DEF Next
<1>2. CASE Stop
    <2>1. CASE Cohort = {}
        BY <1>2, <2>1 DEF Stop, Elsewhere, network
    <2>2. ASSUME NEW c \in Cohort PROVE Elsewhere
        BY <1>2, ElsewhereSteps
    <2> QED BY <2>1, <2>2
<1>3. ASSUME NEW c \in Cohort, RunnerStep(c)
      PROVE  Elsewhere \/ \E extracts \in BOOLEAN : SigningComplete(c, extracts)
    BY <1>3, ElsewhereSteps DEF RunnerStep
<1>4. ASSUME NEW c \in Cohort, OperatorStep(c) \/ \E ok \in BOOLEAN : WatchPoll(c, ok)
      PROVE  Elsewhere
    BY <1>4, ElsewhereSteps DEF OperatorStep
<1>5. ASSUME NEW c \in Cohort, NetworkStep(c)
      PROVE  Elsewhere \/ LateArrival(c) \/ Mine(c)
    BY <1>5, ElsewhereSteps DEF NetworkStep
<1> QED BY <1>1, <1>2, <1>3, <1>4, <1>5

\* Where the steps of the handler lead.
LEMMA HandlerMoves ==
    ASSUME TypeOK, HandlerInv, NEW c \in Cohort, HandlerStep(c)
    PROVE  /\ stage' = stage /\ wired' = wired
           /\ handler[c].step \in Running
           /\ \A d \in Cohort \ {c} : handler'[d] = handler[d]
           /\ handler'[c].step \in Running \cup {"done"}
           /\ \/ /\ handler[c].step = "sending" /\ handler'[c].step \in {"reading", "done"}
                 /\ chain' = [chain EXCEPT ![c] = IF @ = "absent" THEN "mempool" ELSE @]
                 /\ acked' = acked \cup {c} /\ lost' = lost
              \/ /\ handler[c].step \in {"sending", "backoff"}
                 /\ handler'[c].step \in {"sending", "backoff", "done"}
                 /\ handler'[c].step = "backoff" => handler'[c].attempt < MaxAttempts
                 /\ chain' = chain /\ acked' = acked /\ lost \subseteq lost'
              \/ /\ handler[c].step \in {"reading", "pausing"}
                 /\ handler'[c].step \in {"reading", "pausing", "done"}
                 /\ UNCHANGED <<chain, acked, lost>>
<1>0. /\ handler \in [Cohort -> [step : HandlerSteps, attempt : 0 .. MaxAttempts]]
      /\ \A step, attempt : HandlerAt(c, step, attempt) =>
             /\ handler'[c].step = step /\ handler'[c].attempt = attempt
             /\ \A d \in Cohort \ {c} : handler'[d] = handler[d]
    BY DEF TypeOK, RunTypes, HandlerAt
<1>1. stage' = stage /\ wired' = wired
    BY DEF HandlerStep, SendAccepted, SendRefused, SendLost, SendAgain, ConfirmationRead,
       PollAgain, HandlerOnly
<1>2. CASE SendAccepted(c)
    <2>1. \E step \in {"done", "reading"} : HandlerAt(c, step, 0)
        BY <1>2 DEF SendAccepted
    <2> QED BY <1>0, <1>1, <1>2, <2>1 DEF SendAccepted, Running
<1>3. CASE SendRefused(c) \/ SendLost(c)
    <2>1. Retry(c) /\ handler[c].step = "sending" /\ chain' = chain /\ acked' = acked
          /\ lost \subseteq lost'
        BY <1>3 DEF SendRefused, SendLost
    <2>2. \/ \E attempt : HandlerAt(c, "done", attempt)
          \/ HandlerAt(c, "backoff", handler[c].attempt) /\ ~(handler[c].attempt >= MaxAttempts)
        BY <2>1 DEF Retry
    <2>3. handler[c].attempt \in Nat /\ MaxAttempts \in Nat
        BY <1>0, AttemptsAssumption
    <2> QED BY <1>0, <1>1, <2>1, <2>2, <2>3 DEF Running
<1>4. CASE SendAgain(c)
    <2>1. \E step \in {"done", "sending"}, attempt \in Nat : HandlerAt(c, step, attempt)
        BY <1>0, <1>4 DEF SendAgain
    <2> QED BY <1>0, <1>1, <1>4, <2>1 DEF SendAgain, Running
<1>5. ASSUME NEW flag \in BOOLEAN, ConfirmationRead(c, flag) \/ PollAgain(c, flag)
      PROVE  /\ handler[c].step \in {"reading", "pausing"}
             /\ handler'[c].step \in {"reading", "pausing", "done"}
             /\ \A d \in Cohort \ {c} : handler'[d] = handler[d]
             /\ UNCHANGED <<chain, acked, lost>>
    <2>1. \E step \in {"done", "pausing", "reading"} : HandlerAt(c, step, 0)
        BY <1>5 DEF ConfirmationRead, PollAgain
    <2> QED BY <1>0, <1>5, <2>1 DEF ConfirmationRead, PollAgain
<1> QED BY <1>1, <1>2, <1>3, <1>4, <1>5 DEF HandlerStep, Running

\* A signing-complete starts the handler of a cohort that had none, or has it
\* give up on a transaction that does not extract.
LEMMA Completes ==
    ASSUME TypeOK, HandlerInv, NEW c \in Cohort, NEW extracts \in BOOLEAN,
           SigningComplete(c, extracts)
    PROVE  /\ stage[c] \in {"signing", "fallback"} /\ handler[c].step = "none"
           /\ c \notin acked
           /\ \A d \in Cohort \ {c} : stage'[d] = stage[d] /\ handler'[d] = handler[d]
           /\ stage'[c] = IF stage[c] = "fallback" THEN "completed-fallback" ELSE "completed"
           /\ UNCHANGED <<wired, chain, lost, acked>>
           /\ wired[c] => handler'[c].step = IF extracts THEN "sending" ELSE "done"
           /\ ~wired[c] => handler'[c] = handler[c]
<1>1. RunTypes
    BY DEF TypeOK
<1>2. stage[c] \in {"signing", "fallback"} /\ stage[c] \notin Completed
    BY DEF SigningComplete, Move, Completed
<1>3. handler[c].step = "none" /\ c \notin acked
    BY <1>2 DEF HandlerInv
<1>4. /\ \A d \in Cohort \ {c} : stage'[d] = stage[d]
      /\ stage'[c] = IF stage[c] = "fallback" THEN "completed-fallback" ELSE "completed"
    BY <1>1, <1>2 DEF SigningComplete, Move, RunTypes
<1>5. /\ \A d \in Cohort \ {c} : handler'[d] = handler[d]
      /\ wired[c] => handler'[c].step = IF extracts THEN "sending" ELSE "done"
      /\ ~wired[c] => handler'[c] = handler[c]
    BY <1>1 DEF SigningComplete, RunTypes
<1>6. UNCHANGED <<wired, chain, lost, acked>>
    BY DEF SigningComplete, network
<1> QED BY <1>2, <1>3, <1>4, <1>5, <1>6

LEMMA HandlerKept ==
    ASSUME TypeOK, HandlerInv, Next
    PROVE  HandlerInv'
<1>0. RunTypes
    BY DEF TypeOK
<1>1. CASE Elsewhere
    BY <1>1 DEF Elsewhere, HandlerInv
<1>2. ASSUME NEW c \in Cohort, NEW extracts \in BOOLEAN, SigningComplete(c, extracts)
      PROVE  HandlerInv'
    <2>1. /\ handler'[c].step \in {"none", "sending", "done"}
          /\ handler'[c].step = "none" <=> ~wired[c]
          /\ stage'[c] \in Completed
          /\ c \notin acked
          /\ UNCHANGED <<wired, chain, lost, acked>>
          /\ \A d \in Cohort \ {c} : stage'[d] = stage[d] /\ handler'[d] = handler[d]
        BY <1>2, Completes DEF Completed
    <2> QED BY <2>1 DEF HandlerInv
<1>3. ASSUME NEW c \in Cohort, HandlerStep(c)
      PROVE  HandlerInv'
    <2>1. stage' = stage /\ wired' = wired
          /\ \A d \in Cohort \ {c} : handler'[d] = handler[d]
          /\ handler'[c].step # "none" /\ stage[c] \in Completed /\ wired[c]
        BY <1>3, HandlerMoves DEF HandlerInv, Running
    <2>2. CASE /\ handler[c].step = "sending" /\ handler'[c].step \in {"reading", "done"}
               /\ chain' = [chain EXCEPT ![c] = IF @ = "absent" THEN "mempool" ELSE @]
               /\ acked' = acked \cup {c} /\ lost' = lost
        <3>1. chain'[c] # "absent" /\ \A d \in Cohort \ {c} : chain'[d] = chain[d]
            BY <1>0, <2>2 DEF RunTypes
        <3> QED BY <2>1, <2>2, <3>1 DEF HandlerInv
    <2>3. CASE /\ handler[c].step \in {"sending", "backoff"}
               /\ handler'[c].step \in {"sending", "backoff", "done"}
               /\ handler'[c].step = "backoff" => handler'[c].attempt < MaxAttempts
               /\ chain' = chain /\ acked' = acked /\ lost \subseteq lost'
        BY <2>1, <2>3 DEF HandlerInv
    <2>4. CASE /\ handler[c].step \in {"reading", "pausing"}
               /\ handler'[c].step \in {"reading", "pausing", "done"}
               /\ UNCHANGED <<chain, acked, lost>>
        BY <2>1, <2>4 DEF HandlerInv
    <2> QED BY <1>3, <2>2, <2>3, <2>4, HandlerMoves
<1>4. ASSUME NEW c \in Cohort, LateArrival(c) \/ Mine(c)
      PROVE  HandlerInv'
    <2>1. /\ UNCHANGED <<stage, wired, handler, acked, lost>>
          /\ chain'[c] # "absent" /\ (chain[c] # "absent" \/ c \in lost)
          /\ \A d \in Cohort \ {c} : chain'[d] = chain[d]
        BY <1>0, <1>4 DEF LateArrival, Mine, RunTypes
    <2> QED BY <2>1 DEF HandlerInv
<1> QED BY <1>1, <1>2, <1>3, <1>4, Kinds

-----------------------------------------------------------------------------
(* The frames *)

\* A frame that was true stays true: only the cohort's own handler could
\* contradict it, and that has returned.
LEMMA TrueFramesStay ==
    ASSUME TypeOK, HandlerInv, Next, NEW c \in Cohort, NEW state \in AnchorStates,
           FrameTrue(c, state)
    PROVE  FrameTrue(c, state)'
<1>0. RunTypes
    BY DEF TypeOK
<1>1. CASE Elsewhere
    BY <1>1 DEF Elsewhere, FrameTrue
<1>2. ASSUME NEW d \in Cohort, NEW extracts \in BOOLEAN, SigningComplete(d, extracts)
      PROVE  FrameTrue(c, state)'
    BY <1>2, Completes DEF FrameTrue
<1>3. ASSUME NEW d \in Cohort, HandlerStep(d)
      PROVE  FrameTrue(c, state)'
    <2>1. handler[c].step = "done" => handler'[c].step = "done" /\ (c \in acked' => c \in acked)
        BY <1>3, HandlerMoves DEF Running
    <2>2. /\ chain[c] = "mined" => chain'[c] = "mined"
          /\ chain[c] # "absent" => chain'[c] # "absent"
        BY <1>0, <1>3, HandlerMoves DEF RunTypes
    <2> QED BY <2>1, <2>2 DEF FrameTrue
<1>4. ASSUME NEW d \in Cohort, LateArrival(d) \/ Mine(d)
      PROVE  FrameTrue(c, state)'
    BY <1>0, <1>4 DEF LateArrival, Mine, RunTypes, FrameTrue
<1> QED BY <1>1, <1>2, <1>3, <1>4, Kinds

\* Every frame an action emits is true of the state it leads to, and comes
\* from a handler that had not returned.
LEMMA FramesAreTrue ==
    ASSUME TypeOK, HandlerInv, Next
    PROVE  FramesStep
<1>0. RunTypes /\ AnchorStates = {"broadcast", "confirmed", "failed"}
    BY DEF TypeOK, AnchorStates
<1>1. CASE Elsewhere
    BY <1>1 DEF Elsewhere, FramesStep
<1>2. ASSUME NEW c \in Cohort, NEW extracts \in BOOLEAN, SigningComplete(c, extracts)
      PROVE  FramesStep
    <2>1. UNCHANGED anchors \/ (RememberAnchor(c, "failed") /\ wired[c] /\ ~extracts)
        BY <1>2 DEF SigningComplete
    <2>2. CASE RememberAnchor(c, "failed") /\ wired[c] /\ ~extracts
        <3>1. handler[c].step # "done" /\ FrameTrue(c, "failed")'
            BY <1>2, <2>2, Completes DEF FrameTrue
        <3> QED BY <1>0, <2>2, <3>1 DEF FramesStep
    <2> QED BY <2>1, <2>2 DEF FramesStep
<1>3. ASSUME NEW c \in Cohort, SendAccepted(c)
      PROVE  FramesStep
    <2>1. UNCHANGED anchors \/ RememberAnchor(c, "broadcast")
        BY <1>3 DEF SendAccepted, NoFrame, BroadcastFrame
    <2>2. handler[c].step # "done" /\ FrameTrue(c, "broadcast")'
        BY <1>0, <1>3 DEF SendAccepted, FrameTrue, RunTypes
    <2> QED BY <1>0, <2>1, <2>2 DEF FramesStep
<1>4. ASSUME NEW c \in Cohort, SendRefused(c) \/ SendLost(c)
      PROVE  FramesStep
    <2>1. /\ Retry(c) /\ handler[c].step = "sending" /\ c \notin acked'
        BY <1>4 DEF SendRefused, SendLost, HandlerInv
    <2>2. \/ UNCHANGED anchors
          \/ RememberAnchor(c, "failed") /\ HandlerAt(c, "done", handler[c].attempt)
        BY <2>1 DEF Retry, NoFrame, FailedFrame
    <2>3. CASE RememberAnchor(c, "failed") /\ HandlerAt(c, "done", handler[c].attempt)
        <3>1. handler'[c].step = "done"
            BY <1>0, <2>3 DEF HandlerAt, RunTypes
        <3>2. FrameTrue(c, "failed")'
            BY <2>1, <3>1 DEF FrameTrue
        <3> QED BY <1>0, <2>1, <2>3, <3>2 DEF FramesStep
    <2> QED BY <2>2, <2>3 DEF FramesStep
<1>5. ASSUME NEW c \in Cohort, SendAgain(c)
      PROVE  FramesStep
    BY <1>5 DEF SendAgain, NoFrame, FramesStep
<1>6. ASSUME NEW c \in Cohort, NEW confirmed \in BOOLEAN, ConfirmationRead(c, confirmed)
      PROVE  FramesStep
    <2>1. \/ UNCHANGED anchors
          \/ confirmed /\ RememberAnchor(c, "confirmed") /\ HandlerAt(c, "done", 0)
        BY <1>6 DEF ConfirmationRead, NoFrame, AnchoredFrame, AnchoredState
    <2>2. CASE confirmed /\ RememberAnchor(c, "confirmed") /\ HandlerAt(c, "done", 0)
        <3>1. handler'[c].step = "done" /\ chain'[c] = "mined" /\ handler[c].step = "reading"
            BY <1>0, <1>6, <2>2 DEF HandlerAt, ConfirmationRead, RunTypes
        <3>2. FrameTrue(c, "confirmed")'
            BY <3>1 DEF FrameTrue
        <3> QED BY <1>0, <2>2, <3>1, <3>2 DEF FramesStep
    <2> QED BY <2>1, <2>2 DEF FramesStep
<1>7. ASSUME NEW c \in Cohort, NEW late \in BOOLEAN, PollAgain(c, late)
      PROVE  FramesStep
    <2>1. UNCHANGED anchors \/ RememberAnchor(c, "broadcast")
        BY <1>7 DEF PollAgain, NoFrame, AnchoredFrame, AnchoredState
    <2>2. handler[c].step = "pausing" /\ chain' = chain /\ chain[c] # "absent"
        BY <1>7 DEF PollAgain, HandlerInv
    <2>3. FrameTrue(c, "broadcast")'
        BY <2>2 DEF FrameTrue
    <2> QED BY <1>0, <2>1, <2>2, <2>3 DEF FramesStep
<1>8. ASSUME NEW c \in Cohort, LateArrival(c) \/ Mine(c)
      PROVE  FramesStep
    BY <1>8 DEF LateArrival, Mine, FramesStep
<1> QED BY <1>1, <1>2, <1>3, <1>4, <1>5, <1>6, <1>7, <1>8, Kinds DEF HandlerStep

\* One entry per cohort, each of them true.
LEMMA FramesKept ==
    ASSUME TypeOK, HandlerInv, FramesInv, Next
    PROVE  FramesInv'
<1>1. /\ anchors \in Seq(AnchorEntry) /\ MaxTerminal \in Nat \ {0}
      /\ MaxTerminal \in Nat /\ Len(anchors) <= MaxTerminal
    BY TerminalAssumption DEF TypeOK, MapTypes
<1>2. \A i \in DOMAIN anchors : \E c \in Cohort, state \in AnchorStates :
          anchors[i] = [id |-> c, state |-> state] /\ FrameTrue(c, state)'
    <2>1. ASSUME NEW i \in DOMAIN anchors
          PROVE  \E c \in Cohort, state \in AnchorStates :
                     anchors[i] = [id |-> c, state |-> state] /\ FrameTrue(c, state)'
        <3>1. anchors[i] \in AnchorEntry
            BY <1>1, MapElement
        <3>2. PICK c \in Cohort, state \in AnchorStates :
                 anchors[i] = [id |-> c, state |-> state]
            BY <3>1 DEF AnchorEntry, AnchorStates
        <3>3. FrameTrue(c, state)
            BY <3>2 DEF FramesInv
        <3>4. FrameTrue(c, state)'
            BY <3>3, TrueFramesStay
        <3> QED BY <3>2, <3>4
    <2> QED BY <2>1
<1>3. Distinct(anchors)
    BY DEF FramesInv
<1>4. CASE UNCHANGED anchors
    <2>1. ASSUME NEW i \in DOMAIN anchors'
          PROVE  FrameTrue(anchors[i].id, anchors[i].state)'
        <3>1. PICK c \in Cohort, state \in AnchorStates :
                 anchors'[i] = [id |-> c, state |-> state] /\ FrameTrue(c, state)'
            BY <1>2, <1>4
        <3> QED BY <3>1
    <2> QED BY <1>3, <1>4, <2>1 DEF FramesInv
<1>5. ASSUME NEW c \in Cohort, NEW state \in AnchorStates, RememberAnchor(c, state),
             FrameTrue(c, state)'
      PROVE  FramesInv'
    <2> DEFINE entry == [id |-> c, state |-> state]
               moved == Append(Delete(anchors, entry.id), entry)
    <2>1. entry \in AnchorEntry
        BY DEF AnchorEntry, AnchorStates
    <2>2. anchors' = Remember(anchors, entry, MaxTerminal)
        BY <1>5 DEF RememberAnchor
    <2>3. PICK evicted : Renews(anchors, entry, evicted, anchors')
        <3> HIDE DEF entry
        <3> QED BY <1>1, <1>3, <2>1, <2>2, RememberDistinct
    <2>4. /\ Distinct(anchors')
          /\ \A j \in DOMAIN anchors' : \/ anchors'[j] = entry
                                       \/ \E i \in DOMAIN anchors : anchors'[j] = anchors[i]
        BY <2>3 DEF Renews
    <2>5. ASSUME NEW j \in DOMAIN anchors'
          PROVE  FrameTrue(anchors[j].id, anchors[j].state)'
        <3>1. PICK d \in Cohort, s \in AnchorStates :
                 anchors'[j] = [id |-> d, state |-> s] /\ FrameTrue(d, s)'
            BY <1>2, <1>5, <2>4
        <3> QED BY <3>1
    <2> QED BY <2>4, <2>5 DEF FramesInv
<1> QED BY <1>4, <1>5, FramesAreTrue DEF FramesStep

-----------------------------------------------------------------------------
(* The invariant and what it gives *)

\* The stop aborts every display watch, and nothing starts one after it.
StopInv == stopped => watching = {}

LEMMA StopKept ==
    ASSUME StopInv, Next
    PROVE  StopInv'
<1>1. ASSUME NEW c \in Cohort, RunnerStep(c) \/ OperatorStep(c)
      PROVE  stopped' = stopped /\ (stopped => watching' = watching)
    BY <1>1 DEF RunnerStep, OperatorStep, Advertise, KeygenComplete, CohortEvent,
       SigningStarted, FallbackStarted, CohortFailed, SigningComplete, CancelCohort,
       WindowExpires, Dismiss, Quiet
<1>2. ASSUME NEW c \in Cohort, HandlerStep(c) \/ NetworkStep(c)
      PROVE  UNCHANGED <<stopped, watching>>
    BY <1>2 DEF HandlerStep, NetworkStep, SendAccepted, SendRefused, SendLost, SendAgain,
       ConfirmationRead, PollAgain, Pay, LateArrival, Mine, HandlerOnly
<1>3. ASSUME NEW c \in Cohort, NEW ok \in BOOLEAN, WatchPoll(c, ok)
      PROVE  stopped' = stopped /\ c \in watching
    BY <1>3 DEF WatchPoll
<1>4. ASSUME Stop
      PROVE  watching' = {}
    BY <1>4 DEF Stop
<1> QED BY <1>1, <1>2, <1>3, <1>4 DEF Next, StopInv

Inv == TypeOK /\ HandlerInv /\ FramesInv /\ StopInv

LEMMA Starts ==
    ASSUME Init
    PROVE  Inv
<1>1. RunTypes
    <2>1. NoView \in Views /\ 0 \in 0 .. MaxAttempts
        BY AttemptsAssumption DEF NoView, Views, FundingStates
    <2> QED BY <2>1 DEF Init, RunTypes, HandlerSteps
<1>2. MapTypes
    <2>1. \A S : <<>> \in Seq(S) /\ Len(<<>>) = 0
        OBVIOUS
    <2> QED BY <2>1, TerminalAssumption, MonitorAssumption DEF Init, MapTypes
<1>3. HandlerInv
    BY DEF Init, HandlerInv, Completed
<1>4. FramesInv
    BY DEF Init, FramesInv, Distinct
<1>5. StopInv
    BY DEF Init, StopInv
<1> QED BY <1>1, <1>2, <1>3, <1>4, <1>5 DEF Inv, TypeOK

LEMMA Steps ==
    ASSUME Inv, [Next]_vars
    PROVE  Inv'
<1>1. CASE Next
    <2>1. TypeOK /\ HandlerInv /\ FramesInv /\ StopInv
        BY DEF Inv
    <2>2. RunTypes' /\ HandlerInv' /\ FramesInv' /\ FramesStep /\ StopInv'
        BY <1>1, <2>1, RunTyped, HandlerKept, FramesKept, FramesAreTrue, StopKept
    <2>3. EntriesStep /\ EndedStep /\ ViewsStep
        BY <1>1, <2>1, FoldSteps
    <2>4. MapTypes'
        BY <2>1, <2>2, <2>3, MapsTyped DEF TypeOK
    <2> QED BY <2>2, <2>4 DEF Inv, TypeOK
<1>2. CASE UNCHANGED vars
    BY <1>2 DEF vars, network, monitorVars, Inv, TypeOK, RunTypes, MapTypes, HandlerInv,
       FramesInv, FrameTrue, Distinct, StopInv
<1> QED BY <1>1, <1>2

\* The types, the handler and the frames, in every reachable state.
THEOREM PublicationInvariant == Spec => []Inv
<1>1. Init => Inv
    BY Starts
<1>2. Inv /\ [Next]_vars => Inv'
    BY Steps
<1> QED BY <1>1, <1>2, PTL DEF Spec

\* Type correctness, every map within its bound.
THEOREM PublicationTypes == Spec => []TypeOK
<1>1. Inv => TypeOK
    BY DEF Inv
<1> QED BY <1>1, PublicationInvariant, PTL

\* A retained answer is one of the frames.
LEMMA ReadIsFrame ==
    ASSUME Inv, NEW c \in Cohort, AnchorRead(c) # "none"
    PROVE  AnchorRead(c) \in AnchorStates /\ FrameTrue(c, AnchorRead(c))
<1>1. c \in Keys(anchors) /\ AnchorRead(c) = Lookup(anchors, c).state
    BY DEF AnchorRead
<1>2. Lookup(anchors, c) \in AnchorEntry
    BY <1>1, MapElement DEF Inv, TypeOK, MapTypes
<1>3. /\ Position(anchors, c) \in DOMAIN anchors
      /\ anchors[Position(anchors, c)].id = c
    BY <1>1, PositionProperty
<1> QED BY <1>1, <1>2, <1>3 DEF Inv, FramesInv, Lookup, AnchorEntry, AnchorStates

\* What the anonymous anchor read says is so: nothing is called broadcast or
\* confirmed that the network does not have, nothing failed that the node has
\* acknowledged (anchor-state.ts, sendWithRetry).
THEOREM AnchorsAreHonest == Spec => []AnchorHonest
<1>1. ASSUME Inv
      PROVE  AnchorHonest
    <2>1. ASSUME NEW c \in Cohort
          PROVE  /\ AnchorRead(c) = "broadcast" => chain[c] # "absent"
                 /\ AnchorRead(c) = "confirmed" => chain[c] = "mined"
                 /\ AnchorRead(c) = "failed" =>
                        c \notin acked /\ (chain[c] # "absent" => c \in lost)
        BY <1>1, ReadIsFrame DEF FrameTrue, Inv, HandlerInv
    <2> QED BY <2>1 DEF AnchorHonest
<1> QED BY <1>1, PublicationInvariant, PTL

\* An answer of confirmed or failed is changed by no later frame: only the
\* cohort's own handler emits one for it, and it has returned.
LEMMA VerdictStands ==
    ASSUME Inv, Next, NEW c \in Cohort, AnchorRead(c) \in {"confirmed", "failed"}
    PROVE  AnchorRead(c)' \in {AnchorRead(c), "none"}
<1>1. handler[c].step = "done"
    BY ReadIsFrame DEF FrameTrue
<1>2. CASE UNCHANGED anchors
    BY <1>2 DEF AnchorRead
<1>3. ASSUME NEW d \in Cohort, NEW state \in AnchorStates, RememberAnchor(d, state), d # c,
             c \in Keys(anchors')
      PROVE  AnchorRead(c)' = AnchorRead(c)
    <2> DEFINE entry == [id |-> d, state |-> state]
               moved == Append(Delete(anchors, entry.id), entry)
    <2>1. /\ entry \in AnchorEntry /\ entry.id # c
          /\ anchors \in Seq(AnchorEntry) /\ MaxTerminal \in Nat \ {0} /\ Distinct(anchors)
          /\ anchors' = Remember(anchors, entry, MaxTerminal)
        BY <1>3, TerminalAssumption
           DEF AnchorEntry, AnchorStates, RememberAnchor, Inv, TypeOK, MapTypes, FramesInv
    <2> HIDE DEF entry
    <2>2. PICK evicted : Renews(anchors, entry, evicted, anchors')
        BY <2>1, RememberDistinct
    <2>3. /\ Position(anchors', c) \in DOMAIN anchors'
          /\ Lookup(anchors', c) = anchors'[Position(anchors', c)]
          /\ anchors'[Position(anchors', c)].id = c
        BY <1>3, PositionProperty DEF Lookup
    <2>4. PICK i \in DOMAIN anchors : Lookup(anchors', c) = anchors[i] /\ anchors[i].id = c
        BY <2>1, <2>2, <2>3 DEF Renews
    <2>5. c \in Keys(anchors)
        BY <2>4 DEF Keys
    <2>6. Lookup(anchors, c) = anchors[i]
        BY <2>1, <2>4, <2>5, PositionProperty DEF Lookup, Distinct
    <2> QED BY <1>3, <2>4, <2>5, <2>6 DEF AnchorRead
<1>4. c \notin Keys(anchors') => AnchorRead(c)' = "none"
    BY DEF AnchorRead
<1>5. TypeOK /\ HandlerInv
    BY DEF Inv
<1> QED BY <1>1, <1>2, <1>3, <1>4, <1>5, FramesAreTrue DEF FramesStep

\* No retried send and no late answer takes a verdict back (one handler, one
\* verdict).
THEOREM VerdictsAlwaysStand == Spec => VerdictsStand
<1>1. ASSUME Inv, [Next]_vars
      PROVE  [\A c \in Cohort :
                 AnchorRead(c) \in {"confirmed", "failed"} =>
                     AnchorRead(c)' \in {AnchorRead(c), "none"}]_vars
    BY <1>1, VerdictStands
<1> QED BY <1>1, PublicationInvariant, PTL DEF Spec, VerdictsStand

\* After service.stop() the anchor answers stand still, and a row or a funding
\* view goes only because the operator dismisses it, whatever was in flight
\* (attachBeaconBroadcast's checks of the signal).
THEOREM StopIsQuiet == Spec => QuietAfterStop
<1> DEFINE Quieted ==
      /\ UNCHANGED anchors
      /\ \/ UNCHANGED <<ended, fundingViews>>
         \/ \E c \in Cohort : ended' = Delete(ended, c)
<1>1. ASSUME Inv, Next, stopped
      PROVE  Quieted
    <2>1. watching = {}
        BY <1>1 DEF Inv, StopInv
    <2>2. ASSUME NEW c \in Cohort, RunnerStep(c)
          PROVE  Quieted
        BY <1>1, <2>2 DEF RunnerStep, Advertise, KeygenComplete, CohortEvent,
           SigningStarted, FallbackStarted, CohortFailed, SigningComplete, Quiet
    <2>3. ASSUME NEW c \in Cohort, OperatorStep(c)
          PROVE  Quieted
        BY <1>1, <2>3 DEF OperatorStep, CancelCohort, WindowExpires, Dismiss, DismissEnded,
           Quiet
    <2>4. ASSUME NEW c \in Cohort, HandlerStep(c)
          PROVE  Quieted
        BY <1>1, <2>4 DEF HandlerStep, SendAccepted, SendRefused, SendLost, SendAgain, Retry,
           ConfirmationRead, PollAgain, HandlerOnly, NoFrame
    <2>5. ASSUME NEW c \in Cohort, NetworkStep(c)
          PROVE  Quieted
        BY <2>5 DEF NetworkStep, Pay, LateArrival, Mine, monitorVars
    <2>6. \A c \in Cohort, ok \in BOOLEAN : ~WatchPoll(c, ok)
        BY <2>1 DEF WatchPoll
    <2>7. ~Stop
        BY <1>1 DEF Stop
    <2> HIDE DEF Quieted
    <2> QED BY <1>1, <2>2, <2>3, <2>4, <2>5, <2>6, <2>7 DEF Next
<1>2. ASSUME Inv, [Next]_vars
      PROVE  [stopped => Quieted]_vars
    BY <1>1, <1>2
<1> QED BY <1>2, PublicationInvariant, PTL DEF Spec, QuietAfterStop

-----------------------------------------------------------------------------
(* The rows of the console *)

Fated == Completed \cup {"failed", "canceled"}

\* What a record of the given fate claims of cohort c.
RowTrue(c, chip, via) ==
    /\ chip = "failed" =>
          \/ stage[c] = "failed"
          \/ /\ stage[c] \in Completed /\ wired[c] /\ c \notin acked
             /\ handler[c].step = "done"
    /\ chip = "canceled" => stage[c] = "canceled"
    /\ chip = "co-signed" => stage[c] = "completed" /\ ~via
    /\ chip = "co-signed-fallback" => stage[c] = "completed-fallback" /\ via
    /\ chip = "fallback" =>
          chain[c] = "mined" /\ stage[c] = "completed-fallback" /\ handler[c].step = "done"
    /\ chip = "anchored" =>
          /\ chain[c] = "mined" /\ stage[c] \in Completed /\ handler[c].step = "done"
          /\ stage[c] = "completed" \/ c \in gone

\* One record per cohort, each of them true; a settled cohort has one unless
\* it was taken away; only a cohort that fell back is marked so.
RowsInv ==
    /\ Distinct(ended)
    /\ \A i \in DOMAIN ended : RowTrue(ended[i].id, ended[i].chip, ended[i].viaFallback)
    /\ \A c \in Cohort : stage[c] \in Fated => c \in Keys(ended) \cup gone
    /\ \A i \in DOMAIN entries : entries[i].fellBack =>
          stage[entries[i].id] \notin {"fresh", "filling", "keyed", "signing", "completed"}

\* Where a stage may go.
LEMMA StageMoves ==
    ASSUME TypeOK, HandlerInv, Next, NEW c \in Cohort
    PROVE  /\ stage[c] \in Ends => stage'[c] = stage[c]
           /\ stage[c] \in {"fallback"} =>
                 stage'[c] \in {"fallback", "completed-fallback", "failed", "canceled",
                               "window-expired", "stopped"}
<1>0. RunTypes
    BY DEF TypeOK
<1>1. CASE Stop
    BY <1>0, <1>1 DEF Stop, RunTypes, Underway, Ends, Completed
<1>2. ASSUME NEW d \in Cohort, RunnerStep(d) \/ OperatorStep(d),
             ~\E extracts \in BOOLEAN : SigningComplete(d, extracts)
      PROVE  /\ stage[c] \in Ends => stage'[c] = stage[c]
             /\ stage[c] = "fallback" =>
                   stage'[c] \in {"fallback", "failed", "canceled", "window-expired"}
    <2>1. \/ UNCHANGED stage
          \/ \E to \in {"failed", "canceled", "window-expired"} : Move(d, Underway, to)
          \/ Move(d, {"fresh"}, "filling") \/ Move(d, {"filling"}, "keyed")
          \/ Move(d, {"keyed"}, "signing") \/ Move(d, {"signing"}, "fallback")
        BY <1>2 DEF RunnerStep, OperatorStep, Advertise, KeygenComplete, CohortEvent,
           SigningStarted, FallbackStarted, CohortFailed, CancelCohort, WindowExpires, Dismiss
    <2> QED BY <1>0, <2>1 DEF Move, RunTypes, Underway, Ends, Completed
<1>3. ASSUME NEW d \in Cohort, NEW extracts \in BOOLEAN, SigningComplete(d, extracts)
      PROVE  /\ stage[c] \in Ends => stage'[c] = stage[c]
             /\ stage[c] = "fallback" => stage'[c] \in {"fallback", "completed-fallback"}
    BY <1>3, Completes DEF Ends
<1>4. ASSUME NEW d \in Cohort,
             HandlerStep(d) \/ NetworkStep(d) \/ \E ok \in BOOLEAN : WatchPoll(d, ok)
      PROVE  UNCHANGED stage
    BY <1>4, HandlerMoves DEF NetworkStep, Pay, LateArrival, Mine, WatchPoll
<1> QED BY <1>1, <1>2, <1>3, <1>4 DEF Next

\* A record that was true stays true.
LEMMA TrueRowsStay ==
    ASSUME TypeOK, HandlerInv, Next, NEW c \in Cohort, NEW chip \in Chips,
           NEW via \in BOOLEAN, RowTrue(c, chip, via)
    PROVE  RowTrue(c, chip, via)'
<1>1. stage[c] \in Fated /\ stage'[c] = stage[c]
    <2>1. stage[c] \in Fated
        BY DEF RowTrue, Chips, Fated, Completed
    <2>2. stage[c] \in Ends
        BY <2>1 DEF Fated, Ends, Completed
    <2> QED BY <2>1, <2>2, StageMoves
<1>2. gone \subseteq gone'
    BY DEF Next
<1>3. /\ handler[c].step = "done" => handler'[c].step = "done"
      /\ handler[c].step = "done" /\ c \notin acked => c \notin acked'
      /\ chain[c] = "mined" => chain'[c] = "mined"
      /\ wired' = wired
    <2>0. RunTypes
        BY DEF TypeOK
    <2>1. CASE Elsewhere
        BY <2>1 DEF Elsewhere
    <2>2. ASSUME NEW d \in Cohort, NEW extracts \in BOOLEAN, SigningComplete(d, extracts)
          PROVE  <1>3!1 /\ <1>3!2 /\ <1>3!3 /\ <1>3!4
        BY <2>2, Completes
    <2>3. ASSUME NEW d \in Cohort, HandlerStep(d)
          PROVE  <1>3!1 /\ <1>3!2 /\ <1>3!3 /\ <1>3!4
        BY <2>0, <2>3, HandlerMoves DEF Running, RunTypes
    <2>4. ASSUME NEW d \in Cohort, LateArrival(d) \/ Mine(d)
          PROVE  <1>3!1 /\ <1>3!2 /\ <1>3!3 /\ <1>3!4
        BY <2>0, <2>4 DEF LateArrival, Mine, RunTypes
    <2> QED BY <2>1, <2>2, <2>3, <2>4, Kinds
<1> QED BY <1>1, <1>2, <1>3 DEF RowTrue

\* What a step does to the rows: at most one record goes, or one is filed that
\* is true; a cohort that meets its fate in the step has its record filed.
Filed(c) ==
    \E chip \in Chips, via \in BOOLEAN : RememberEnded(c, chip, via) /\ RowTrue(c, chip, via)'

RowsStep ==
    /\ \/ UNCHANGED ended
       \/ \E c \in Cohort : ended' = Delete(ended, c)
       \/ \E c \in Cohort : Filed(c)
    /\ \A c \in Cohort : stage'[c] \in Fated /\ stage[c] \notin Fated => Filed(c)

\* A cohort whose records are all true of it.
LEMMA RecordTrue ==
    ASSUME TypeOK, RowsInv, NEW c \in Keys(ended)
    PROVE  /\ Lookup(ended, c).chip \in Chips /\ Lookup(ended, c).viaFallback \in BOOLEAN
           /\ RowTrue(c, Lookup(ended, c).chip, Lookup(ended, c).viaFallback)
<1>1. Lookup(ended, c) \in EndedRecord
    BY MapElement DEF TypeOK, MapTypes
<1>2. Position(ended, c) \in DOMAIN ended /\ ended[Position(ended, c)].id = c
    BY PositionProperty
<1> QED BY <1>1, <1>2 DEF EndedRecord, Chips, Lookup, RowsInv

\* The mark of the script path is on no other cohort's entry.
LEMMA FellBackTrue ==
    ASSUME TypeOK, RowsInv, NEW c \in Cohort
    PROVE  /\ FellBack(c) \in BOOLEAN
           /\ FellBack(c) =>
                 stage[c] \notin {"fresh", "filling", "keyed", "signing", "completed"}
<1>1. CASE c \in Keys(entries)
    <2>1. Lookup(entries, c) \in LiveEntry
        BY <1>1, MapElement DEF TypeOK, MapTypes
    <2>2. Position(entries, c) \in DOMAIN entries /\ entries[Position(entries, c)].id = c
        BY <1>1, PositionProperty
    <2> QED BY <1>1, <2>1, <2>2 DEF LiveEntry, Lookup, FellBack, RowsInv
<1> QED BY <1>1 DEF FellBack

LEMMA SigningFiles ==
    ASSUME TypeOK, HandlerInv, RowsInv, NEW c \in Cohort, NEW extracts \in BOOLEAN,
           SigningComplete(c, extracts)
    PROVE  Filed(c)
<1> DEFINE path == IF stage[c] = "fallback" THEN "script-path" ELSE "key-path"
           via == path = "script-path" \/ FellBack(c)
           chip == IF via THEN "co-signed-fallback" ELSE "co-signed"
<1>1. via <=> stage[c] = "fallback"
    BY Completes, FellBackTrue
<1>2. RememberEnded(c, chip, via)
    BY DEF SigningComplete, SigningCompleteFold
<1>3. stage'[c] = IF via THEN "completed-fallback" ELSE "completed"
    BY <1>1, Completes
<1>4. via \in BOOLEAN /\ chip \in Chips
    BY FellBackTrue DEF Chips
<1>5. PICK v \in BOOLEAN, ch \in Chips : v = via /\ ch = chip
    BY <1>4
<1>6. RowTrue(c, ch, v)'
    BY <1>3, <1>5 DEF RowTrue
<1>7. RememberEnded(c, ch, v)
    BY <1>2, <1>5
<1> HIDE DEF via, chip, path
<1> QED BY <1>6, <1>7 DEF Filed

LEMMA RowSteps ==
    ASSUME TypeOK, HandlerInv, RowsInv, Next
    PROVE  RowsStep
<1>0. RunTypes /\ "failed" \in Chips /\ "canceled" \in Chips /\ FALSE \in BOOLEAN
    BY DEF TypeOK, Chips
<1> DEFINE Fates == \A d \in Cohort : stage'[d] \in Fated /\ stage[d] \notin Fated => Filed(d)
<1>a. UNCHANGED ended /\ (\A d \in Cohort : stage'[d] \in Fated => stage[d] \in Fated) => RowsStep
    BY DEF RowsStep
<1>1. ASSUME NEW c \in Cohort,
             \/ Advertise(c) \/ KeygenComplete(c) \/ CohortEvent(c) \/ SigningStarted(c)
             \/ FallbackStarted(c) \/ WindowExpires(c) \/ NetworkStep(c)
             \/ \E ok \in BOOLEAN : WatchPoll(c, ok)
      PROVE  RowsStep
    <2>1. /\ UNCHANGED ended
          /\ \/ UNCHANGED stage
             \/ \E to \in {"filling", "keyed", "signing", "fallback", "window-expired"} :
                   stage' = [stage EXCEPT ![c] = to]
        BY <1>1 DEF Advertise, KeygenComplete, CohortEvent, SigningStarted, FallbackStarted,
           WindowExpires, NetworkStep, Pay, LateArrival, Mine, WatchPoll, Move, monitorVars
    <2>2. \A d \in Cohort : stage'[d] \in Fated => stage[d] \in Fated
        BY <1>0, <2>1 DEF RunTypes, Fated, Completed
    <2> QED BY <1>a, <2>1, <2>2
<1>2. ASSUME Stop
      PROVE  RowsStep
    <2>1. UNCHANGED ended /\ \A d \in Cohort : stage'[d] \in Fated => stage[d] \in Fated
        BY <1>0, <1>2 DEF Stop, monitorVars, Fated, Completed, RunTypes
    <2> QED BY <1>a, <2>1
<1>3. ASSUME NEW c \in Cohort, Dismiss(c)
      PROVE  RowsStep
    BY <1>3 DEF Dismiss, DismissEnded, RowsStep
<1>4. ASSUME NEW c \in Cohort, Filed(c), \A d \in Cohort \ {c} : stage'[d] = stage[d]
      PROVE  RowsStep
    BY <1>4 DEF RowsStep
<1>5. ASSUME NEW c \in Cohort, NEW extracts \in BOOLEAN, SigningComplete(c, extracts)
      PROVE  RowsStep
    BY <1>4, <1>5, SigningFiles, Completes
<1>6. ASSUME NEW c \in Cohort, CohortFailed(c)
      PROVE  RowsStep
    <2>1. RememberEnded(c, "failed", FALSE) /\ stage' = [stage EXCEPT ![c] = "failed"]
        BY <1>6 DEF CohortFailed, FailedFold, Move
    <2>2. RowTrue(c, "failed", FALSE)'
        BY <1>0, <2>1 DEF RowTrue, RunTypes
    <2>3. \A d \in Cohort \ {c} : stage'[d] = stage[d]
        BY <1>0, <2>1 DEF RunTypes
    <2> QED BY <1>0, <1>4, <2>1, <2>2, <2>3 DEF Filed
<1>7. ASSUME NEW c \in Cohort, CancelCohort(c)
      PROVE  RowsStep
    <2>1. stage[c] \in Underway /\ stage' = [stage EXCEPT ![c] = "canceled"] /\ NoteCanceled(c)
        BY <1>7 DEF CancelCohort, Move
    <2>2. ~RowCanceled(c)
        BY <2>1, RecordTrue DEF RowCanceled, RowTrue, Underway
    <2>3. RememberEnded(c, "canceled", FALSE)
        BY <2>1, <2>2 DEF NoteCanceled
    <2>4. RowTrue(c, "canceled", FALSE)'
        BY <1>0, <2>1 DEF RowTrue, RunTypes
    <2>5. \A d \in Cohort \ {c} : stage'[d] = stage[d]
        BY <1>0, <2>1 DEF RunTypes
    <2> QED BY <1>0, <1>4, <2>3, <2>4, <2>5 DEF Filed
<1>8. ASSUME NEW c \in Cohort, HandlerStep(c)
      PROVE  RowsStep
    <2>1. stage' = stage /\ wired' = wired /\ stage[c] \in Completed /\ wired[c]
        BY <1>8, HandlerMoves DEF HandlerInv, Running
    <2>2. UNCHANGED ended => RowsStep
        BY <1>a, <2>1
    <2>3. CASE SendAccepted(c) \/ SendAgain(c)
        BY <2>2, <2>3 DEF SendAccepted, SendAgain, NoFrame, BroadcastFrame
    <2>4. CASE SendRefused(c) \/ SendLost(c)
        <3>1. /\ Retry(c) /\ handler[c].step = "sending" /\ c \notin acked'
            BY <2>4 DEF SendRefused, SendLost, HandlerInv
        <3>2. \/ UNCHANGED ended
              \/ FailedFold(c) /\ HandlerAt(c, "done", handler[c].attempt)
            BY <3>1 DEF Retry, NoFrame, FailedFrame
        <3>3. CASE FailedFold(c) /\ HandlerAt(c, "done", handler[c].attempt)
            <4>1. handler'[c].step = "done"
                BY <1>0, <3>3 DEF HandlerAt, RunTypes
            <4>2. RowTrue(c, "failed", FALSE)'
                BY <2>1, <3>1, <4>1 DEF RowTrue
            <4>3. RememberEnded(c, "failed", FALSE)
                BY <3>3 DEF FailedFold
            <4> QED BY <1>0, <1>4, <2>1, <4>2, <4>3 DEF Filed
        <3> QED BY <2>2, <3>2, <3>3
    <2>5. ASSUME NEW late \in BOOLEAN, PollAgain(c, late)
          PROVE  RowsStep
        BY <2>2, <2>5 DEF PollAgain, NoFrame, AnchoredFrame, AnchoredFold
    <2>6. ASSUME NEW confirmed \in BOOLEAN, ConfirmationRead(c, confirmed)
          PROVE  RowsStep
        <3>1. \/ UNCHANGED ended
              \/ confirmed /\ AnchoredFold(c, TRUE) /\ HandlerAt(c, "done", 0)
            BY <2>6 DEF ConfirmationRead, NoFrame, AnchoredFrame
        <3>2. CASE confirmed /\ AnchoredFold(c, TRUE) /\ HandlerAt(c, "done", 0)
            <4> DEFINE via == c \in Keys(ended) /\ Lookup(ended, c).viaFallback
                       chip == IF via THEN "fallback" ELSE "anchored"
            <4>1. handler'[c].step = "done" /\ chain'[c] = "mined" /\ handler[c].step = "reading"
                BY <1>0, <2>6, <3>2 DEF HandlerAt, ConfirmationRead, RunTypes
            <4>2. c \in acked
                BY <4>1 DEF HandlerInv
            <4>3. c \in Keys(ended) =>
                     (Lookup(ended, c).viaFallback <=> stage[c] = "completed-fallback")
                <5>1. ASSUME c \in Keys(ended)
                      PROVE  Lookup(ended, c).chip \in {"co-signed", "co-signed-fallback"}
                    BY <2>1, <4>1, <4>2, <5>1, RecordTrue DEF RowTrue, Completed, Chips
                <5> QED BY <5>1, RecordTrue DEF RowTrue
            <4>4. c \in Keys(ended) \/ c \in gone
                BY <2>1 DEF RowsInv, Fated
            <4>5. c \in gone => c \in gone'
                BY DEF Next
            <4>6. via \in BOOLEAN /\ chip \in Chips
                BY RecordTrue DEF Chips
            <4>7. PICK v \in BOOLEAN, ch \in Chips : v = via /\ ch = chip
                BY <4>6
            <4>8. RowTrue(c, ch, v)'
                BY <2>1, <4>1, <4>3, <4>4, <4>5, <4>7 DEF RowTrue, Completed
            <4>9. RememberEnded(c, ch, v)
                BY <3>2, <4>7 DEF AnchoredFold
            <4> HIDE DEF via, chip
            <4>10. Filed(c)
                BY <4>8, <4>9 DEF Filed
            <4> QED BY <1>4, <2>1, <4>10
        <3> QED BY <2>2, <3>1, <3>2
    <2> QED BY <1>8, <2>3, <2>4, <2>5, <2>6 DEF HandlerStep
<1> QED BY <1>1, <1>2, <1>3, <1>5, <1>6, <1>7, <1>8 DEF Next, RunnerStep, OperatorStep

NeverFell == {"fresh", "filling", "keyed", "signing", "completed"}

\* An entry is marked only in the step that falls back.
LEMMA MarkSteps ==
    ASSUME TypeOK, HandlerInv, RowsInv, Next
    PROVE  \/ UNCHANGED entries
           \/ \E c \in Cohort : entries' = Delete(entries, c)
           \/ \E c \in Cohort, fell \in BOOLEAN :
                 Touch(c, fell) /\ (fell => stage'[c] \notin NeverFell)
<1>0. RunTypes
    BY DEF TypeOK
<1>1. ASSUME NEW c \in Cohort, RunnerStep(c)
      PROVE  \/ UNCHANGED entries
             \/ Touch(c, FALSE)
             \/ Touch(c, TRUE) /\ stage'[c] = "fallback"
    BY <1>0, <1>1 DEF RunnerStep, Advertise, KeygenComplete, CohortEvent, SigningStarted,
       FallbackStarted, SigningComplete, CohortFailed, Move, monitorVars, RunTypes
<1>2. ASSUME NEW c \in Cohort, OperatorStep(c)
      PROVE  UNCHANGED entries \/ Touch(c, FALSE) \/ entries' = Delete(entries, c)
    BY <1>2 DEF OperatorStep, CancelCohort, NoteCanceled, WindowExpires, Dismiss, DismissEnded,
       monitorVars
<1>3. ASSUME NEW c \in Cohort,
             HandlerStep(c) \/ NetworkStep(c) \/ \E ok \in BOOLEAN : WatchPoll(c, ok)
      PROVE  UNCHANGED entries
    BY <1>3 DEF HandlerStep, NetworkStep, SendAccepted, SendRefused, SendLost, SendAgain,
       ConfirmationRead, PollAgain, Pay, LateArrival, Mine, HandlerOnly, WatchPoll, monitorVars
<1>4. ASSUME Stop
      PROVE  UNCHANGED entries
    BY <1>4 DEF Stop, monitorVars
<1>5. "fallback" \notin NeverFell /\ TRUE \in BOOLEAN /\ FALSE \in BOOLEAN
    BY DEF NeverFell
<1> QED BY <1>1, <1>2, <1>3, <1>4, <1>5 DEF Next

\* The marks stay true.
LEMMA MarksKept ==
    ASSUME TypeOK, HandlerInv, RowsInv, Next
    PROVE  \A j \in DOMAIN entries' : entries'[j].fellBack => stage'[entries'[j].id] \notin NeverFell
<1>0. /\ RunTypes /\ entries \in Seq(LiveEntry) /\ Len(entries) <= MaxMonitored
      /\ MaxMonitored \in Nat
    BY MonitorAssumption DEF TypeOK, MapTypes
<1>1. ASSUME NEW c \in Cohort, stage[c] \notin NeverFell
      PROVE  stage'[c] \notin NeverFell
    <2>1. stage[c] \in Ends \/ stage[c] = "fallback"
        BY <1>0, <1>1 DEF RunTypes, NeverFell, Underway, Ends
    <2> QED BY <1>1, <2>1, StageMoves DEF NeverFell
<1>2. \A i \in DOMAIN entries : /\ entries[i] \in LiveEntry
                                /\ entries[i].fellBack => stage'[entries[i].id] \notin NeverFell
    <2>1. ASSUME NEW i \in DOMAIN entries
          PROVE  entries[i] \in LiveEntry /\ entries[i].id \in Cohort
        <3>1. entries[i] \in LiveEntry
            BY <1>0, MapElement
        <3> QED BY <3>1 DEF LiveEntry
    <2>2. ASSUME NEW i \in DOMAIN entries, entries[i].fellBack
          PROVE  stage[entries[i].id] \notin NeverFell
        BY <2>2 DEF RowsInv, NeverFell
    <2> QED BY <1>1, <2>1, <2>2
<1>3. ASSUME NEW c \in Cohort, entries' = Delete(entries, c)
      PROVE  \A j \in DOMAIN entries' : \E i \in DOMAIN entries : entries'[j] = entries[i]
    BY <1>0, <1>3, DeleteProperties DEF ComesFrom
<1>4. ASSUME NEW c \in Cohort, NEW fell \in BOOLEAN, Touch(c, fell),
             fell => stage'[c] \notin NeverFell
      PROVE  \A j \in DOMAIN entries' :
                entries'[j].fellBack => stage'[entries'[j].id] \notin NeverFell
    <2> DEFINE entry == [id |-> c, fellBack |-> FellBack(c) \/ fell]
    <2>1. FellBack(c) \in BOOLEAN /\ (FellBack(c) => stage'[c] \notin NeverFell)
        <3>1. FellBack(c) => stage[c] \notin NeverFell
            BY FellBackTrue DEF NeverFell
        <3> QED BY <3>1, <1>1, FellBackTrue
    <2>2. entry \in LiveEntry /\ entry.id = c
          /\ (entry.fellBack => stage'[c] \notin NeverFell)
        BY <1>4, <2>1 DEF LiveEntry
    <2>3. entries' = Remember(entries, entry, MaxMonitored)
        BY <1>4 DEF Touch
    <2> HIDE DEF entry
    <2>4. \A j \in DOMAIN entries' : \/ entries'[j] = entry
                                     \/ \E i \in DOMAIN entries : entries'[j] = entries[i]
        BY <1>0, <2>2, <2>3, RememberProperties
    <2> QED BY <1>2, <2>2, <2>4
<1> QED BY <1>2, <1>3, <1>4, MarkSteps

\* The rows stay true, one per cohort, and none is missed.
LEMMA RowsKept ==
    ASSUME TypeOK, HandlerInv, RowsInv, Next
    PROVE  RowsInv'
<1>0. /\ RunTypes /\ ended \in Seq(EndedRecord) /\ Len(ended) <= MaxEnded
      /\ MaxEnded \in Nat \ {0} /\ MaxEnded \in Nat /\ Distinct(ended)
    BY MonitorAssumption DEF TypeOK, MapTypes, RowsInv
<1>1. \A i \in DOMAIN ended : \E c \in Cohort, chip \in Chips, via \in BOOLEAN :
          /\ ended[i] = [id |-> c, chip |-> chip, viaFallback |-> via]
          /\ RowTrue(c, chip, via)'
    <2>1. ASSUME NEW i \in DOMAIN ended
          PROVE  \E c \in Cohort, chip \in Chips, via \in BOOLEAN :
                    /\ ended[i] = [id |-> c, chip |-> chip, viaFallback |-> via]
                    /\ RowTrue(c, chip, via)'
        <3>1. ended[i] \in EndedRecord
            BY <1>0, MapElement
        <3>2. PICK c \in Cohort, chip \in Chips, via \in BOOLEAN :
                 ended[i] = [id |-> c, chip |-> chip, viaFallback |-> via]
            BY <3>1 DEF EndedRecord, Chips
        <3>3. RowTrue(c, chip, via)
            BY <3>2 DEF RowsInv
        <3>4. RowTrue(c, chip, via)'
            BY <3>3, TrueRowsStay
        <3> QED BY <3>2, <3>4
    <2> QED BY <2>1
<1>2. ASSUME NEW c \in Cohort, Filed(c)
      PROVE  /\ Distinct(ended') /\ c \in Keys(ended')
             /\ \A j \in DOMAIN ended' : \E d \in Cohort, chip \in Chips, via \in BOOLEAN :
                    /\ ended'[j] = [id |-> d, chip |-> chip, viaFallback |-> via]
                    /\ RowTrue(d, chip, via)'
    <2>1. PICK chip \in Chips, via \in BOOLEAN :
             RememberEnded(c, chip, via) /\ RowTrue(c, chip, via)'
        BY <1>2 DEF Filed
    <2> DEFINE entry == [id |-> c, chip |-> chip, viaFallback |-> via]
               moved == Append(Delete(ended, entry.id), entry)
    <2>2. entry \in EndedRecord /\ entry.id = c
        BY DEF EndedRecord, Chips
    <2>3. ended' = Remember(ended, entry, MaxEnded)
        BY <2>1 DEF RememberEnded
    <2>4. PICK evicted : Renews(ended, entry, evicted, ended')
        <3> HIDE DEF entry
        <3> QED BY <1>0, <2>2, <2>3, RememberDistinct
    <2>5. /\ Distinct(ended') /\ \E j \in DOMAIN ended' : ended'[j] = entry
          /\ \A j \in DOMAIN ended' : \/ ended'[j] = entry
                                     \/ \E i \in DOMAIN ended : ended'[j] = ended[i]
        <3> HIDE DEF entry
        <3> QED BY <2>4 DEF Renews
    <2>6. c \in Keys(ended')
        BY <2>2, <2>5 DEF Keys
    <2> QED BY <1>1, <2>1, <2>5, <2>6
<1>3. ASSUME NEW c \in Cohort, ended' = Delete(ended, c)
      PROVE  /\ Distinct(ended')
             /\ \A j \in DOMAIN ended' : \E i \in DOMAIN ended : ended'[j] = ended[i]
    BY <1>0, <1>3, DeleteProperties, DeleteKeys DEF ComesFrom
<1>4. /\ Distinct(ended')
      /\ \A j \in DOMAIN ended' : \E d \in Cohort, chip \in Chips, via \in BOOLEAN :
             /\ ended'[j] = [id |-> d, chip |-> chip, viaFallback |-> via]
             /\ RowTrue(d, chip, via)'
    <2>1. CASE UNCHANGED ended
        BY <1>0, <1>1, <2>1
    <2> QED BY <1>1, <1>2, <1>3, <2>1, RowSteps DEF RowsStep
<1>5. \A j \in DOMAIN ended' :
         RowTrue(ended[j].id, ended[j].chip, ended[j].viaFallback)'
    <2>1. ASSUME NEW j \in DOMAIN ended'
          PROVE  RowTrue(ended[j].id, ended[j].chip, ended[j].viaFallback)'
        <3>1. PICK d \in Cohort, chip \in Chips, via \in BOOLEAN :
                 /\ ended'[j] = [id |-> d, chip |-> chip, viaFallback |-> via]
                 /\ RowTrue(d, chip, via)'
            BY <1>4
        <3> QED BY <3>1
    <2> QED BY <2>1
<1>6. \A c \in Cohort : stage'[c] \in Fated => c \in Keys(ended') \cup gone'
    <2>1. ASSUME NEW c \in Cohort, stage'[c] \in Fated, stage[c] \in Fated
          PROVE  c \in Keys(ended') \cup gone'
        BY <2>1 DEF RowsInv, Next
    <2>2. ASSUME NEW c \in Cohort, stage'[c] \in Fated, stage[c] \notin Fated
          PROVE  c \in Keys(ended')
        BY <1>2, <2>2, RowSteps DEF RowsStep
    <2> QED BY <2>1, <2>2
<1>7. \A j \in DOMAIN entries' : entries'[j].fellBack =>
         stage'[entries'[j].id] \notin {"fresh", "filling", "keyed", "signing", "completed"}
    BY MarksKept DEF NeverFell
<1> QED BY <1>4, <1>5, <1>6, <1>7 DEF RowsInv

\* What the records of the monitor claim stays true in every reachable state.
THEOREM RowsInvariant == Spec => []RowsInv
<1>1. Init => RowsInv
    BY DEF Init, RowsInv, Distinct, Fated, Completed
<1>2. Inv /\ RowsInv /\ [Next]_vars => RowsInv'
    <2>1. ASSUME Inv, RowsInv, Next
          PROVE  RowsInv'
        BY <2>1, RowsKept DEF Inv
    <2>2. ASSUME RowsInv, UNCHANGED vars
          PROVE  RowsInv'
        BY <2>2 DEF vars, network, monitorVars, RowsInv, RowTrue, Distinct, Keys
    <2> QED BY <2>1, <2>2
<1> QED BY <1>1, <1>2, PublicationInvariant, PTL DEF Spec

\* Every row the console lists is the cohort's own fate, for any number of
\* cohorts and any bound on the records (monitor.ts, summary).
THEOREM RowsAreHonest == Spec => []RowsHonest
<1>1. ASSUME Inv, RowsInv
      PROVE  RowsHonest
    <2>1. ASSUME NEW c \in Cohort, stage[c] \notin Underway, c \in Keys(ended)
          PROVE  Row(c) = Lookup(ended, c).chip /\ RowTrue(c, Row(c), Lookup(ended, c).viaFallback)
        BY <1>1, <2>1, RecordTrue DEF Row, summaryChip, Inv, Underway
    <2>2. ASSUME NEW c \in Cohort, stage[c] \notin Underway, c \notin Keys(ended)
          PROVE  Row(c) = "none"
        BY <2>2 DEF Row, summaryChip, Underway
    <2>3. ASSUME NEW c \in Cohort, stage[c] \in Underway
          PROVE  Row(c) \in {"needs-funding", "filling", "co-signing"}
        BY <2>3 DEF Row, summaryChip, Underway
    <2>4. ASSUME NEW c \in Cohort
          PROVE  /\ c \in Keys(ended) => Lookup(ended, c).chip # "none"
                 /\ stage[c] \in {"fresh", "window-expired", "stopped"} \cup Underway \cup Fated
                 /\ stage[c] \in Fated => c \in Keys(ended) \cup gone
        <3>1. c \in Keys(ended) => Lookup(ended, c).chip # "none"
            BY <1>1, RecordTrue DEF Inv, Chips
        <3> QED BY <1>1, <3>1 DEF Inv, TypeOK, RunTypes, RowsInv, Fated, Ends, Completed
    <2> QED BY <2>1, <2>2, <2>3, <2>4 DEF RowsHonest, RowTrue, Fated, Completed
<1> QED BY <1>1, PublicationInvariant, RowsInvariant, PTL

-----------------------------------------------------------------------------
(* The two folds of the frames *)

\* A frame is the cohort's answer from now on, and no other cohort's.
LEMMA FrameTold ==
    ASSUME TypeOK, FramesInv, NEW c \in Cohort, NEW state \in AnchorStates,
           RememberAnchor(c, state)
    PROVE  /\ c \in Keys(anchors') /\ AnchorRead(c)' = state
           /\ \A d \in Cohort \ {c} : StillSays(anchors', anchors, d)
<1> DEFINE entry == [id |-> c, state |-> state]
<1>1. /\ anchors \in Seq(AnchorEntry) /\ Distinct(anchors)
      /\ entry \in AnchorEntry /\ entry.id = c /\ entry.state = state
    BY DEF TypeOK, MapTypes, FramesInv, AnchorEntry, AnchorStates
<1>2. anchors' = Remember(anchors, entry, MaxTerminal)
    BY DEF RememberAnchor
<1> HIDE DEF entry
<1>3. /\ c \in Keys(anchors') /\ Lookup(anchors', c) = entry
      /\ \A d \in Cohort \ {c} : StillSays(anchors', anchors, d)
    BY <1>1, <1>2, TerminalAssumption, RememberLookup
<1> QED BY <1>1, <1>3 DEF AnchorRead

\* A record filed is the cohort's row from now on, and no other cohort's.
LEMMA RecordTold ==
    ASSUME TypeOK, RowsInv, NEW c \in Cohort, NEW chip \in Chips, NEW via \in BOOLEAN,
           RememberEnded(c, chip, via)
    PROVE  /\ c \in Keys(ended') /\ Lookup(ended', c).chip = chip
           /\ \A d \in Cohort \ {c} : StillSays(ended', ended, d)
<1> DEFINE entry == [id |-> c, chip |-> chip, viaFallback |-> via]
<1>1. /\ ended \in Seq(EndedRecord) /\ Distinct(ended)
      /\ entry \in EndedRecord /\ entry.id = c /\ entry.chip = chip
    BY DEF TypeOK, MapTypes, RowsInv, EndedRecord, Chips
<1>2. ended' = Remember(ended, entry, MaxEnded)
    BY DEF RememberEnded
<1> HIDE DEF entry
<1>3. /\ c \in Keys(ended') /\ Lookup(ended', c) = entry
      /\ \A d \in Cohort \ {c} : StillSays(ended', ended, d)
    BY <1>1, <1>2, MonitorAssumption, RememberLookup
<1> QED BY <1>1, <1>3

\* What the two folds say of one cohort, and whose frames there are.
Agrees(c) ==
    /\ c \in Keys(anchors) => handler[c].step # "none"
    /\ c \in Keys(anchors) \cap Keys(ended) =>
          /\ AnchorRead(c) = "confirmed" <=>
                Lookup(ended, c).chip \in {"anchored", "fallback"}
          /\ AnchorRead(c) = "failed" =>
                Lookup(ended, c).chip = "failed" \/ handler[c].attempt = 0
          /\ AnchorRead(c) = "broadcast" =>
                Lookup(ended, c).chip \in {"co-signed", "co-signed-fallback"}

AgreeInv == \A c \in Cohort : Agrees(c)

\* A cohort whose answer and record no frame renewed stays as it was: a handler
\* that still moves has not failed.
LEMMA Unrenewed ==
    ASSUME Inv, NEW c \in Cohort, Agrees(c),
           StillSays(anchors', anchors, c), StillSays(ended', ended, c),
           \/ handler'[c] = handler[c]
           \/ handler[c].step # "done" /\ handler'[c].step # "none"
    PROVE  Agrees(c)'
<1>1. c \in Keys(anchors') => AnchorRead(c)' = AnchorRead(c) /\ c \in Keys(anchors)
    BY DEF StillSays, AnchorRead
<1>2. c \in Keys(ended') => c \in Keys(ended)
                            /\ Lookup(ended', c).chip = Lookup(ended, c).chip
    BY DEF StillSays
<1>3. AnchorRead(c) = "failed" => handler'[c] = handler[c]
    BY ReadIsFrame DEF FrameTrue
<1> QED BY <1>1, <1>2, <1>3 DEF Agrees

\* While a handler is at work its cohort's record, if there is one, is the
\* co-signed one, and its answer, if there is one, is "broadcast".
LEMMA AtWork ==
    ASSUME Inv, RowsInv, NEW c \in Cohort, handler[c].step \in Running
    PROVE  /\ c \in Keys(ended) =>
                 Lookup(ended, c).chip \in {"co-signed", "co-signed-fallback"}
           /\ c \in Keys(anchors) => AnchorRead(c) = "broadcast"
<1>1. stage[c] \in Completed
    BY DEF Inv, HandlerInv, Running
<1>2. c \in Keys(ended) =>
          Lookup(ended, c).chip \in {"co-signed", "co-signed-fallback"}
    BY <1>1, RecordTrue DEF Inv, RowTrue, Chips, Completed, Running
<1>3. c \in Keys(anchors) => AnchorRead(c) \in AnchorStates
    <2>1. c \in Keys(anchors) => Lookup(anchors, c) \in AnchorEntry
        BY MapElement DEF Inv, TypeOK, MapTypes
    <2> QED BY <2>1 DEF AnchorRead, AnchorEntry, AnchorStates
<1>4. c \in Keys(anchors) => AnchorRead(c) = "broadcast"
    BY <1>3, ReadIsFrame DEF FrameTrue, AnchorStates, Running
<1> QED BY <1>2, <1>4

\* A step of c's own touches no other cohort's answer or record.
Own(c) ==
    /\ \A d \in Cohort \ {c} : /\ StillSays(anchors', anchors, d)
                               /\ StillSays(ended', ended, d)
                               /\ handler'[d] = handler[d]

LEMMA OthersAgree ==
    ASSUME Inv, AgreeInv, NEW c \in Cohort, Own(c), Agrees(c)'
    PROVE  AgreeInv'
<1>1. ASSUME NEW d \in Cohort, d # c PROVE Agrees(d)'
    BY <1>1, Unrenewed DEF Own, AgreeInv
<1> QED BY <1>1 DEF AgreeInv

\* The steps of a cohort that no handler is at work for: no frame is told.
LEMMA ElsewhereAgrees ==
    ASSUME Inv, RowsInv, AgreeInv, Elsewhere,
           \/ UNCHANGED ended
           \/ \E c \in Cohort : ended' = Delete(ended, c)
           \/ \E c \in Cohort, chip \in Chips, via \in BOOLEAN :
                 stage[c] \in Underway /\ RememberEnded(c, chip, via)
    PROVE  AgreeInv'
<1>1. ended \in Seq(EndedRecord) /\ Distinct(ended)
    BY DEF Inv, TypeOK, MapTypes, RowsInv
<1>2. \A d : StillSays(anchors', anchors, d)
    BY DEF Elsewhere, StillSays
<1>3. CASE UNCHANGED ended \/ \E c \in Cohort : ended' = Delete(ended, c)
    <2>1. \A d : StillSays(ended', ended, d)
        BY <1>1, <1>3, DeleteLookup DEF StillSays
    <2> QED BY <1>2, <2>1, Unrenewed DEF AgreeInv, Elsewhere
<1>4. ASSUME NEW c \in Cohort, NEW chip \in Chips, NEW via \in BOOLEAN,
             stage[c] \in Underway, RememberEnded(c, chip, via)
      PROVE  AgreeInv'
    <2>1. handler[c].step = "none"
        BY <1>4 DEF Inv, HandlerInv, Completed, Underway
    <2>2. c \notin Keys(anchors')
        BY <2>1 DEF AgreeInv, Agrees, Elsewhere
    <2>3. \A d \in Cohort \ {c} : StillSays(ended', ended, d)
        BY <1>4, RecordTold DEF Inv
    <2> QED BY <1>2, <2>2, <2>3, OthersAgree DEF Own, Agrees, Elsewhere
<1> QED BY <1>3, <1>4

\* signing-complete: the co-signed record, over the failure of a transaction
\* that does not extract.
LEMMA SigningAgrees ==
    ASSUME Inv, RowsInv, AgreeInv, NEW c \in Cohort, NEW extracts \in BOOLEAN,
           SigningComplete(c, extracts)
    PROVE  AgreeInv'
<1> DEFINE path == IF stage[c] = "fallback" THEN "script-path" ELSE "key-path"
           via == path = "script-path" \/ FellBack(c)
           chip == IF via THEN "co-signed-fallback" ELSE "co-signed"
<1>1. TypeOK /\ HandlerInv /\ FramesInv /\ RunTypes
    BY DEF Inv, TypeOK
<1>2. /\ handler[c].step = "none"
      /\ \A d \in Cohort \ {c} : handler'[d] = handler[d]
      /\ ~wired[c] => handler'[c] = handler[c]
    BY <1>1, Completes
<1>3. c \notin Keys(anchors)
    BY <1>2 DEF AgreeInv, Agrees
<1>4. via \in BOOLEAN /\ chip \in {"co-signed", "co-signed-fallback"} /\ chip \in Chips
    BY <1>1, FellBackTrue DEF Chips
<1>5. RememberEnded(c, chip, via)
    BY DEF SigningComplete, SigningCompleteFold
<1> HIDE DEF via, chip
<1>6. /\ c \in Keys(ended') /\ Lookup(ended', c).chip = chip
      /\ \A d \in Cohort \ {c} : StillSays(ended', ended, d)
    BY <1>1, <1>4, <1>5, RecordTold
<1>7. CASE UNCHANGED anchors
    <2>1. Agrees(c)'
        BY <1>3, <1>7 DEF Agrees
    <2> QED BY <1>2, <1>6, <1>7, <2>1, OthersAgree DEF Own, StillSays
<1>8. CASE wired[c] /\ ~extracts
    <2>1. RememberAnchor(c, "failed") /\ handler'[c] = [step |-> "done", attempt |-> 0]
        BY <1>1, <1>8 DEF SigningComplete, RunTypes
    <2>2. /\ AnchorRead(c)' = "failed"
          /\ \A d \in Cohort \ {c} : StillSays(anchors', anchors, d)
        BY <1>1, <2>1, FrameTold DEF AnchorStates
    <2>3. Agrees(c)'
        BY <1>4, <1>6, <2>1, <2>2 DEF Agrees
    <2> QED BY <1>2, <1>6, <2>2, <2>3, OthersAgree DEF Own
<1> QED BY <1>7, <1>8 DEF SigningComplete

\* A step of the handler tells both folds of a frame, or neither.
LEMMA HandlerAgrees ==
    ASSUME Inv, RowsInv, AgreeInv, NEW c \in Cohort, HandlerStep(c)
    PROVE  AgreeInv'
<1>1. TypeOK /\ HandlerInv /\ FramesInv
    BY DEF Inv
<1>2. /\ handler[c].step \in Running /\ handler'[c].step # "none"
      /\ \A d \in Cohort \ {c} : handler'[d] = handler[d]
    BY <1>1, HandlerMoves DEF Running
<1>3. /\ c \in Keys(ended) =>
            Lookup(ended, c).chip \in {"co-signed", "co-signed-fallback"}
      /\ c \in Keys(anchors) => AnchorRead(c) = "broadcast"
    BY <1>2, AtWork
<1>4. \/ NoFrame
      \/ BroadcastFrame(c) \/ FailedFrame(c)
      \/ \E confirmed \in BOOLEAN : AnchoredFrame(c, confirmed)
    BY DEF HandlerStep, SendAccepted, SendRefused, SendLost, SendAgain, Retry,
       ConfirmationRead, PollAgain
<1>5. CASE NoFrame
    <2>1. \A d : StillSays(anchors', anchors, d) /\ StillSays(ended', ended, d)
        BY <1>5 DEF NoFrame, StillSays
    <2>2. Agrees(c)'
        BY <1>2, <2>1, Unrenewed DEF AgreeInv, Running
    <2> QED BY <1>2, <2>1, <2>2, OthersAgree DEF Own
<1>6. CASE BroadcastFrame(c) \/ AnchoredFrame(c, FALSE)
    <2>1. RememberAnchor(c, "broadcast") /\ UNCHANGED ended
        BY <1>6 DEF BroadcastFrame, AnchoredFrame, AnchoredState, AnchoredFold
    <2>2. /\ AnchorRead(c)' = "broadcast"
          /\ \A d \in Cohort \ {c} : StillSays(anchors', anchors, d)
        BY <1>1, <2>1, FrameTold DEF AnchorStates
    <2>3. Agrees(c)'
        BY <1>2, <1>3, <2>1, <2>2 DEF Agrees
    <2> QED BY <1>2, <2>1, <2>2, <2>3, OthersAgree DEF Own, StillSays
<1>7. CASE AnchoredFrame(c, TRUE)
    <2> DEFINE via == c \in Keys(ended) /\ Lookup(ended, c).viaFallback
               chip == IF via THEN "fallback" ELSE "anchored"
    <2>1. RememberAnchor(c, "confirmed") /\ RememberEnded(c, chip, via)
        BY <1>7 DEF AnchoredFrame, AnchoredState, AnchoredFold
    <2>2. via \in BOOLEAN /\ chip \in Chips /\ chip \in {"anchored", "fallback"}
        BY DEF Chips
    <2> HIDE DEF via, chip
    <2>3. /\ AnchorRead(c)' = "confirmed"
          /\ \A d \in Cohort \ {c} : StillSays(anchors', anchors, d)
        BY <1>1, <2>1, FrameTold DEF AnchorStates
    <2>4. /\ c \in Keys(ended') /\ Lookup(ended', c).chip = chip
          /\ \A d \in Cohort \ {c} : StillSays(ended', ended, d)
        BY <1>1, <2>1, <2>2, RecordTold
    <2>5. Agrees(c)'
        BY <1>2, <2>2, <2>3, <2>4 DEF Agrees
    <2> QED BY <1>2, <2>3, <2>4, <2>5, OthersAgree DEF Own
<1>8. CASE FailedFrame(c)
    <2>1. RememberAnchor(c, "failed") /\ RememberEnded(c, "failed", FALSE)
        BY <1>8 DEF FailedFrame, FailedFold
    <2>2. /\ AnchorRead(c)' = "failed"
          /\ \A d \in Cohort \ {c} : StillSays(anchors', anchors, d)
        BY <1>1, <2>1, FrameTold DEF AnchorStates
    <2>3. /\ c \in Keys(ended') /\ Lookup(ended', c).chip = "failed"
          /\ \A d \in Cohort \ {c} : StillSays(ended', ended, d)
        BY <1>1, <2>1, RecordTold DEF Chips
    <2>4. Agrees(c)'
        BY <1>2, <2>2, <2>3 DEF Agrees
    <2> QED BY <1>2, <2>2, <2>3, <2>4, OthersAgree DEF Own
<1> QED BY <1>4, <1>5, <1>6, <1>7, <1>8

\* Every step keeps the two folds together.
LEMMA AgreeKept ==
    ASSUME Inv, RowsInv, AgreeInv, Next
    PROVE  AgreeInv'
<1>1. TypeOK /\ HandlerInv
    BY DEF Inv
<1>2. ASSUME NEW c \in Cohort,
             \/ Advertise(c) \/ KeygenComplete(c) \/ CohortEvent(c) \/ SigningStarted(c)
             \/ FallbackStarted(c) \/ WindowExpires(c) \/ Dismiss(c) \/ Pay(c)
             \/ \E ok \in BOOLEAN : WatchPoll(c, ok)
      PROVE  AgreeInv'
    <2>1. Elsewhere
        BY <1>1, <1>2, ElsewhereSteps
    <2>2. UNCHANGED ended \/ ended' = Delete(ended, c)
        BY <1>2 DEF Advertise, KeygenComplete, CohortEvent, SigningStarted,
           FallbackStarted, WindowExpires, Dismiss, DismissEnded, Pay, WatchPoll,
           monitorVars
    <2> QED BY <2>1, <2>2, ElsewhereAgrees
<1>3. ASSUME NEW c \in Cohort, CohortFailed(c) \/ CancelCohort(c)
      PROVE  AgreeInv'
    <2>1. Elsewhere /\ stage[c] \in Underway
        BY <1>1, <1>3, ElsewhereSteps DEF CohortFailed, CancelCohort, Move
    <2>2. \/ UNCHANGED ended
          \/ RememberEnded(c, "failed", FALSE) \/ RememberEnded(c, "canceled", FALSE)
        BY <1>3 DEF CohortFailed, CancelCohort, FailedFold, NoteCanceled
    <2> QED BY <2>1, <2>2, ElsewhereAgrees DEF Chips
<1>4. CASE Stop
    <2>1. UNCHANGED <<ended, anchors, handler>>
        BY <1>4 DEF Stop, monitorVars
    <2>2. \A d : StillSays(anchors', anchors, d) /\ StillSays(ended', ended, d)
        BY <2>1 DEF StillSays
    <2> QED BY <2>1, <2>2, Unrenewed DEF AgreeInv
<1>5. ASSUME NEW c \in Cohort, LateArrival(c) \/ Mine(c)
      PROVE  AgreeInv'
    <2>1. UNCHANGED <<ended, anchors, handler>>
        BY <1>5 DEF LateArrival, Mine, monitorVars
    <2>2. \A d : StillSays(anchors', anchors, d) /\ StillSays(ended', ended, d)
        BY <2>1 DEF StillSays
    <2> QED BY <2>1, <2>2, Unrenewed DEF AgreeInv
<1> QED
    BY <1>2, <1>3, <1>4, <1>5, SigningAgrees, HandlerAgrees
    DEF Next, RunnerStep, OperatorStep, NetworkStep

\* The public anchor answer and the operator's row, folded from the same frames
\* into maps that evict on their own, tell one story of every cohort both still
\* hold, whatever was retried, lost or answered late (createAnchorState, the
\* monitor's beacon listeners).
THEOREM FoldsAlwaysAgree == Spec => []FoldsAgree
<1>1. Init => AgreeInv
    BY DEF Init, AgreeInv, Agrees, Keys
<1>2. Inv /\ RowsInv /\ AgreeInv /\ [Next]_vars => AgreeInv'
    <2>1. ASSUME Inv, RowsInv, AgreeInv, Next
          PROVE  AgreeInv'
        BY <2>1, AgreeKept
    <2>2. ASSUME Inv, AgreeInv, UNCHANGED vars
          PROVE  AgreeInv'
        <3>1. UNCHANGED <<ended, anchors, handler>>
            BY <2>2 DEF vars, monitorVars
        <3>2. \A d : StillSays(anchors', anchors, d) /\ StillSays(ended', ended, d)
            BY <3>1 DEF StillSays
        <3> QED BY <2>2, <3>1, <3>2, Unrenewed DEF AgreeInv
    <2> QED BY <2>1, <2>2
<1>3. Spec => []AgreeInv
    BY <1>1, <1>2, PublicationInvariant, RowsInvariant, PTL DEF Spec
<1>4. Inv /\ AgreeInv => FoldsAgree
    <2> SUFFICES ASSUME Inv, AgreeInv, NEW c \in Keys(anchors) \cap Keys(ended)
                 PROVE  /\ AnchorRead(c) = "confirmed" <=>
                              Lookup(ended, c).chip \in {"anchored", "fallback"}
                        /\ AnchorRead(c) = "failed" =>
                              Lookup(ended, c).chip = "failed" \/ handler[c].attempt = 0
                        /\ AnchorRead(c) = "broadcast" =>
                              Lookup(ended, c).chip \in {"co-signed", "co-signed-fallback"}
        BY DEF FoldsAgree
    <2>1. Lookup(anchors, c) \in AnchorEntry /\ Lookup(anchors, c).id = c
        BY MapElement DEF Inv, TypeOK, MapTypes
    <2>2. c \in Cohort
        BY <2>1 DEF AnchorEntry
    <2> QED BY <2>2 DEF AgreeInv, Agrees
<1> QED BY <1>3, <1>4, PublicationInvariant, PTL

-----------------------------------------------------------------------------
(* The public funding read *)

Awaits(view) == ~view.terminal /\ view.state \in {"waiting", "awaiting-confirmation"}

\* What watches cohort c, and what the monitor's view of it is worth: while the
\* cohort is under way it is the watch's last view or says funded, and once
\* the cohort has failed it awaits nothing.
ViewTrue(c) ==
    /\ c \in watching =>
          wired[c] /\ stage[c] \in {"keyed", "signing", "fallback", "window-expired"}
    /\ wired[c] /\ stage[c] \in {"signing", "fallback"} \cup Completed =>
          funds[c] = "enough"
    /\ c \in Keys(fundingViews) =>
          /\ wired[c] /\ stage[c] \notin {"fresh", "filling"}
          /\ stage[c] \in Underway =>
                \/ Lookup(fundingViews, c).view = lastView[c]
                \/ Lookup(fundingViews, c).view.state = "funded"
          /\ stage[c] = "failed" => ~Awaits(Lookup(fundingViews, c).view)

ViewsInv == Distinct(fundingViews) /\ \A c \in Cohort : ViewTrue(c)

\* What a step of c's own does not touch.
OwnView(c) ==
    /\ wired' = wired
    /\ Distinct(fundingViews')
    /\ \A d \in Cohort \ {c} :
          /\ stage'[d] = stage[d] /\ funds'[d] = funds[d] /\ lastView'[d] = lastView[d]
          /\ d \in watching' => d \in watching
          /\ StillSays(fundingViews', fundingViews, d)

LEMMA OthersViewed ==
    ASSUME ViewsInv, NEW c \in Cohort, OwnView(c), ViewTrue(c)'
    PROVE  ViewsInv'
<1>1. ASSUME NEW d \in Cohort, d # c PROVE ViewTrue(d)'
    BY <1>1 DEF OwnView, StillSays, ViewsInv, ViewTrue
<1> QED BY <1>1 DEF ViewsInv, OwnView

\* A noted view is the cohort's, unless the view that stands says funded.
LEMMA ViewTold ==
    ASSUME TypeOK, Distinct(fundingViews), NEW c \in Cohort, NEW view \in Views,
           NoteFunding(c, view)
    PROVE  /\ Distinct(fundingViews')
           /\ \A d \in Cohort \ {c} : StillSays(fundingViews', fundingViews, d)
           /\ c \in Keys(fundingViews') =>
                 \/ Lookup(fundingViews', c).view = view
                 \/ Lookup(fundingViews', c).view.state = "funded"
<1>1. CASE UNCHANGED fundingViews /\ Lookup(fundingViews, c).view.state = "funded"
    BY <1>1 DEF StillSays
<1>2. CASE fundingViews' = Remember(fundingViews, [id |-> c, view |-> view], MaxEnded)
    <2> DEFINE entry == [id |-> c, view |-> view]
    <2>1. /\ fundingViews \in Seq(ViewEntry)
          /\ entry \in ViewEntry /\ entry.id = c /\ entry.view = view
        BY DEF TypeOK, MapTypes, ViewEntry
    <2>2. fundingViews' = Remember(fundingViews, entry, MaxEnded)
        BY <1>2
    <2> HIDE DEF entry
    <2>3. /\ Distinct(fundingViews') /\ Lookup(fundingViews', c) = entry
          /\ \A d \in Cohort \ {c} : StillSays(fundingViews', fundingViews, d)
        BY <2>1, <2>2, MonitorAssumption, RememberLookup
    <2> QED BY <2>1, <2>3
<1> QED BY <1>1, <1>2 DEF NoteFunding

\* The runner's own steps.
LEMMA RunnerViews ==
    ASSUME TypeOK, ViewsInv, NEW c \in Cohort,
           \/ Advertise(c) \/ KeygenComplete(c) \/ CohortEvent(c) \/ SigningStarted(c)
           \/ FallbackStarted(c) \/ WindowExpires(c) \/ CancelCohort(c)
           \/ \E extracts \in BOOLEAN : SigningComplete(c, extracts)
    PROVE  ViewsInv'
<1>1. RunTypes /\ ViewTrue(c) /\ Distinct(fundingViews)
    BY DEF TypeOK, ViewsInv
<1>2. UNCHANGED <<wired, funds, fundingViews>>
    BY DEF Advertise, KeygenComplete, CohortEvent, SigningStarted, FallbackStarted,
       WindowExpires, CancelCohort, SigningComplete, Quiet, network, monitorVars
<1>3. \A d : StillSays(fundingViews', fundingViews, d)
    BY <1>2 DEF StillSays
<1>4. \A d \in Cohort \ {c} : /\ stage'[d] = stage[d] /\ lastView'[d] = lastView[d]
                              /\ d \in watching' => d \in watching
    BY <1>1 DEF Advertise, KeygenComplete, CohortEvent, SigningStarted, FallbackStarted,
       WindowExpires, CancelCohort, SigningComplete, Quiet, Move, Release, RunTypes
<1>5. OwnView(c)
    BY <1>1, <1>2, <1>3, <1>4 DEF OwnView
<1>6. CASE Advertise(c)
    <2>1. /\ stage[c] = "fresh" /\ stage'[c] = "filling"
          /\ UNCHANGED <<watching, lastView>>
        BY <1>1, <1>6 DEF Advertise, Move, Quiet, RunTypes
    <2>2. ViewTrue(c)'
        BY <1>1, <1>2, <2>1 DEF ViewTrue, Completed
    <2> QED BY <1>5, <2>2, OthersViewed
<1>7. CASE KeygenComplete(c)
    <2>1. /\ stage[c] = "filling" /\ stage'[c] = "keyed" /\ UNCHANGED lastView
          /\ c \in watching' => c \in watching \/ wired[c]
        BY <1>1, <1>7 DEF KeygenComplete, Move, RunTypes
    <2>2. ViewTrue(c)'
        BY <1>1, <1>2, <2>1 DEF ViewTrue, Completed
    <2> QED BY <1>5, <2>2, OthersViewed
<1>8. CASE CohortEvent(c)
    <2>1. UNCHANGED <<stage, watching, lastView>>
        BY <1>8 DEF CohortEvent, Quiet
    <2>2. ViewTrue(c)'
        BY <1>1, <1>2, <2>1 DEF ViewTrue
    <2> QED BY <1>5, <2>2, OthersViewed
<1>9. CASE SigningStarted(c) \/ FallbackStarted(c)
    <2>1. /\ stage[c] \in {"keyed", "signing"} /\ stage'[c] \in {"signing", "fallback"}
          /\ UNCHANGED <<watching, lastView>>
          /\ wired[c] /\ stage[c] = "keyed" => funds[c] = "enough"
        BY <1>1, <1>9 DEF SigningStarted, FallbackStarted, Move, Quiet, RunTypes
    <2>2. ViewTrue(c)'
        BY <1>1, <1>2, <2>1 DEF ViewTrue, Underway
    <2> QED BY <1>5, <2>2, OthersViewed
<1>10. CASE WindowExpires(c)
    <2>1. /\ stage[c] \in Underway /\ stage'[c] = "window-expired"
          /\ UNCHANGED <<watching, lastView>>
        BY <1>1, <1>10 DEF WindowExpires, Move, Quiet, RunTypes
    <2>2. ViewTrue(c)'
        BY <1>1, <1>2, <2>1 DEF ViewTrue, Underway, Completed
    <2> QED BY <1>5, <2>2, OthersViewed
<1>11. CASE CancelCohort(c)
    <2>1. stage'[c] = "canceled" /\ c \notin watching'
        BY <1>1, <1>11 DEF CancelCohort, Move, Release, RunTypes
    <2>2. c \in Keys(fundingViews) => wired[c]
        BY <1>1 DEF ViewTrue
    <2>3. ViewTrue(c)'
        BY <1>2, <2>1, <2>2 DEF ViewTrue, Underway, Completed
    <2> QED BY <1>5, <2>3, OthersViewed
<1>12. ASSUME NEW extracts \in BOOLEAN, SigningComplete(c, extracts)
       PROVE  ViewsInv'
    <2>1. /\ stage[c] \in {"signing", "fallback"} /\ stage'[c] \in Completed
          /\ c \notin watching'
        BY <1>1, <1>12 DEF SigningComplete, Move, Release, RunTypes, Completed
    <2>2. ViewTrue(c)'
        BY <1>1, <1>2, <2>1 DEF ViewTrue, Underway, Completed
    <2> QED BY <1>5, <2>2, OthersViewed
<1> QED BY <1>6, <1>7, <1>8, <1>9, <1>10, <1>11, <1>12

\* cohort-failed: the lapse verdict makes the view that stands terminal, or the
\* view was terminal, funded or absent.
LEMMA FailedViews ==
    ASSUME TypeOK, ViewsInv, NEW c \in Cohort, CohortFailed(c)
    PROVE  ViewsInv'
<1>1. RunTypes /\ ViewTrue(c) /\ Distinct(fundingViews)
    BY DEF TypeOK, ViewsInv
<1>2. /\ UNCHANGED <<wired, funds>> /\ stage[c] \in Underway /\ stage'[c] = "failed"
      /\ \A d \in Cohort \ {c} : /\ stage'[d] = stage[d] /\ lastView'[d] = lastView[d]
                                 /\ d \in watching' => d \in watching
    BY <1>1 DEF CohortFailed, Move, Release, network, RunTypes
<1>3. c \notin watching'
    BY <1>1 DEF CohortFailed, Release, ViewTrue
<1>4. CASE stage[c] # "filling" /\ wired[c] /\ lastView[c] # NoView
           /\ lastView[c].state # "funded"
    <2> DEFINE lapse == [lastView[c] EXCEPT !.terminal = TRUE]
    <2>1. lapse \in Views /\ lapse.terminal
        BY <1>1 DEF RunTypes, Views
    <2>2. NoteFunding(c, lapse)
        BY <1>4 DEF CohortFailed
    <2> HIDE DEF lapse
    <2>3. /\ Distinct(fundingViews')
          /\ \A d \in Cohort \ {c} : StillSays(fundingViews', fundingViews, d)
          /\ c \in Keys(fundingViews') =>
                \/ Lookup(fundingViews', c).view = lapse
                \/ Lookup(fundingViews', c).view.state = "funded"
        BY <1>1, <2>1, <2>2, ViewTold
    <2>4. OwnView(c)
        BY <1>2, <2>3 DEF OwnView
    <2>5. ViewTrue(c)'
        BY <1>2, <1>3, <1>4, <2>1, <2>3 DEF ViewTrue, Awaits, Underway, Completed
    <2> QED BY <2>4, <2>5, OthersViewed
<1>5. CASE ~(stage[c] # "filling" /\ wired[c] /\ lastView[c] # NoView
             /\ lastView[c].state # "funded")
    <2>1. UNCHANGED fundingViews
        BY <1>5 DEF CohortFailed
    <2>2. OwnView(c)
        BY <1>1, <1>2, <2>1 DEF OwnView, StillSays
    <2>3. c \in Keys(fundingViews) =>
              wired[c] /\ ~Awaits(Lookup(fundingViews, c).view)
        BY <1>1, <1>2, <1>5 DEF ViewTrue, Awaits, NoView
    <2>4. ViewTrue(c)'
        BY <1>2, <1>3, <2>1, <2>3 DEF ViewTrue, Underway, Completed
    <2> QED BY <2>2, <2>4, OthersViewed
<1> QED BY <1>4, <1>5

\* A poll of the display watch: the view it notes is the last one.
LEMMA PollViews ==
    ASSUME TypeOK, ViewsInv, NEW c \in Cohort, NEW ok \in BOOLEAN, WatchPoll(c, ok)
    PROVE  ViewsInv'
<1> DEFINE view == [state |-> Classified(c, ok), esploraStale |-> ~ok, terminal |-> FALSE]
<1>1. RunTypes /\ ViewTrue(c) /\ Distinct(fundingViews)
    BY DEF TypeOK, ViewsInv
<1>2. view \in Views
    <2>1. Classified(c, ok) \in FundingStates
        BY <1>1 DEF RunTypes, Views, FundingStates, Classified
    <2> QED BY <2>1 DEF Views
<1>3. /\ UNCHANGED <<stage, wired, funds>> /\ watching' \subseteq watching
      /\ lastView' = [lastView EXCEPT ![c] = view] /\ c \in watching
      /\ NoteFunding(c, view)
    BY DEF WatchPoll, network
<1> HIDE DEF view
<1>4. /\ Distinct(fundingViews')
      /\ \A d \in Cohort \ {c} : StillSays(fundingViews', fundingViews, d)
      /\ c \in Keys(fundingViews') =>
            \/ Lookup(fundingViews', c).view = view
            \/ Lookup(fundingViews', c).view.state = "funded"
    BY <1>1, <1>2, <1>3, ViewTold
<1>5. lastView'[c] = view /\ \A d \in Cohort \ {c} : lastView'[d] = lastView[d]
    BY <1>1, <1>3 DEF RunTypes
<1>6. OwnView(c)
    BY <1>3, <1>4, <1>5 DEF OwnView
<1>7. ViewTrue(c)'
    BY <1>1, <1>3, <1>4, <1>5 DEF ViewTrue
<1> QED BY <1>6, <1>7, OthersViewed

\* Every step keeps the views true.
LEMMA ViewsKept ==
    ASSUME TypeOK, ViewsInv, Next
    PROVE  ViewsInv'
<1>1. RunTypes /\ Distinct(fundingViews) /\ fundingViews \in Seq(ViewEntry)
    BY DEF TypeOK, MapTypes, ViewsInv
<1>2. ASSUME NEW c \in Cohort, Dismiss(c)
      PROVE  ViewsInv'
    <2>1. /\ UNCHANGED <<stage, wired, funds, lastView, watching>>
          /\ fundingViews' = Delete(fundingViews, c)
        BY <1>2 DEF Dismiss, DismissEnded, Quiet, network
    <2>2. Distinct(fundingViews') /\ \A d : StillSays(fundingViews', fundingViews, d)
        BY <1>1, <2>1, DeleteLookup
    <2> QED BY <2>1, <2>2 DEF StillSays, ViewsInv, ViewTrue
<1>3. ASSUME NEW c \in Cohort, HandlerStep(c) \/ LateArrival(c) \/ Mine(c)
      PROVE  ViewsInv'
    <2>1. UNCHANGED <<stage, wired, funds, lastView, watching, fundingViews>>
        BY <1>3 DEF HandlerStep, SendAccepted, SendRefused, SendLost, SendAgain,
           ConfirmationRead, PollAgain, HandlerOnly, LateArrival, Mine, monitorVars
    <2> QED BY <2>1 DEF ViewsInv, ViewTrue
<1>4. ASSUME NEW c \in Cohort, Pay(c)
      PROVE  ViewsInv'
    <2>1. /\ UNCHANGED <<stage, wired, lastView, watching, fundingViews>>
          /\ funds[c] # "enough" /\ \A d \in Cohort \ {c} : funds'[d] = funds[d]
        BY <1>1, <1>4 DEF Pay, monitorVars, RunTypes
    <2> QED BY <2>1 DEF ViewsInv, ViewTrue
<1>5. CASE Stop
    <2>1. /\ UNCHANGED <<wired, funds, lastView, fundingViews>> /\ watching' = {}
          /\ \A c \in Cohort : stage'[c] = IF stage[c] \in Underway THEN "stopped" ELSE stage[c]
        BY <1>5 DEF Stop, network, monitorVars
    <2> QED BY <2>1 DEF ViewsInv, ViewTrue, Underway, Completed
<1> QED
    BY <1>2, <1>3, <1>4, <1>5, RunnerViews, FailedViews, PollViews
    DEF Next, RunnerStep, OperatorStep, NetworkStep

\* The anonymous funding read asks for money only where money is still awaited
\* or where nobody told the monitor better, and never for a failed cohort, for
\* any number of cohorts and any bound on the maps (publicFunding).
THEOREM AwaitingAlwaysExplained == Spec => []AwaitingExplained
<1>1. Init => ViewsInv
    BY DEF Init, ViewsInv, ViewTrue, Distinct, Keys, Completed
<1>2. Inv /\ ViewsInv /\ [Next]_vars => ViewsInv'
    <2>1. ASSUME Inv, ViewsInv, Next
          PROVE  ViewsInv'
        BY <2>1, ViewsKept DEF Inv
    <2>2. ASSUME ViewsInv, UNCHANGED vars
          PROVE  ViewsInv'
        BY <2>2 DEF vars, network, monitorVars, ViewsInv, ViewTrue, Distinct, Keys, Lookup,
           Position
    <2> QED BY <2>1, <2>2
<1>3. Spec => []ViewsInv
    BY <1>1, <1>2, PublicationInvariant, PTL DEF Spec
<1>4. Inv /\ RowsInv /\ ViewsInv => AwaitingExplained
    <2> SUFFICES ASSUME Inv, RowsInv, ViewsInv, NEW c \in Cohort, publicFunding(c)
                 PROVE  \/ stage[c] = "keyed"
                        \/ stage[c] \in {"signing", "fallback"} \cup Completed
                              /\ funds[c] = "enough"
                        \/ stage[c] \in {"window-expired", "stopped"}
                        \/ stage[c] = "canceled" /\ c \in gone
        BY DEF AwaitingExplained
    <2>1. /\ c \in Keys(fundingViews) /\ Awaits(Lookup(fundingViews, c).view)
          /\ ~RowCanceled(c)
        BY DEF publicFunding, Awaits
    <2>2. /\ wired[c] /\ stage[c] \notin {"fresh", "filling", "failed"}
          /\ stage[c] \in {"signing", "fallback"} \cup Completed => funds[c] = "enough"
        BY <2>1 DEF ViewsInv, ViewTrue
    <2>3. stage[c] = "canceled" => c \in gone
        <3>1. stage[c] = "canceled" => c \in Keys(ended) \cup gone
            BY DEF RowsInv, Fated
        <3>2. stage[c] = "canceled" /\ c \in Keys(ended) =>
                  Lookup(ended, c).chip = "canceled"
            BY RecordTrue DEF Inv, RowTrue, Chips, Completed
        <3> QED BY <2>1, <3>1, <3>2 DEF RowCanceled
    <2>4. stage[c] \in {"fresh", "filling", "keyed", "signing", "fallback", "failed",
                        "canceled", "window-expired", "stopped"} \cup Completed
        BY DEF Inv, TypeOK, RunTypes, Underway, Ends, Completed
    <2> QED BY <2>2, <2>3, <2>4
<1> QED BY <1>3, <1>4, PublicationInvariant, RowsInvariant, PTL
====
