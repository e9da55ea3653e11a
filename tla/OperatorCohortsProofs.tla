---- MODULE OperatorCohortsProofs ----
(***************************************************************************)
(* Proofs about OperatorCohorts, for any number of cohorts and drafts, any *)
(* capacity and any phase graph of the library; then about OperatorList,   *)
(* the same book joined with the monitor's fold, for any bounds of the two *)
(* as well.                                                                *)
(***************************************************************************)
EXTENDS OperatorList, BoundedMapProofs

\* The session, the completions and the history tell one story.
SessionInv ==
    \A c \in Cohort :
        /\ phase[c] # NoPhase <=> cause[c] = "live"
        /\ settling[c] = "resolved" => cause[c] = "completed"
        /\ settling[c] = "rejected" => cause[c] \in Rejections

\* The advertised map holds a cohort until its completion was reacted to, and
\* with it the window it was advertised with.
AdvertisedInv ==
    \A c \in Cohort :
        /\ c \in advertised <=> phase[c] # NoPhase \/ settling[c] # "no"
        /\ c \in advertised => advertisedWindows[c] \in Windows

\* An intent lives exactly from the stop it explains to the reaction that
\* reads it, and names the end the stop brought about.
IntentInv ==
    \A c \in Cohort :
        /\ intents[c] # "none" => settling[c] = "rejected" /\ cause[c] = intents[c]
        /\ settling[c] = "rejected" /\ cause[c] \in Intents => intents[c] = cause[c]

TimerInv ==
    \A c \in windowTimers :
        /\ ~stopped
        /\ c \in advertised
        /\ advertisedWindows[c] \in 1 .. CohortTtl - 1

\* A record is filed only for a cohort that has left the map, under the fate
\* of what ended it, and a carried fate is that of a canceled cohort.
RecordInv ==
    \A c \in Cohort :
        /\ terminal[c] # NoRecord => c \notin advertised
        /\ terminal[c].reason = "canceled" => cause[c] = "canceled"
        /\ terminal[c].reason = "window-expired" => cause[c] = "window-expired"
        /\ terminal[c].reason = "library" => cause[c] \in {"failed", "stopped"}
        /\ terminal[c].fate = "canceled" <=> terminal[c].reason = "canceled"
        /\ c \in dismissedCanceled => cause[c] = "canceled"

\* The cell holds nothing, the owner's own advert or the one the republisher
\* installed for the owner; an owner has left the session only while its
\* completion is still to be reacted to.
SlotInv ==
    /\ slot # NoAdvert =>
           /\ advertSlotOwner # None
           /\ slot \in {RunnerAdvert(advertSlotOwner), Republished(advertSlotOwner)}
           /\ slot.by = "republisher" => stopCurrent = advertSlotOwner
           /\ slot.by = "runner" => phase[advertSlotOwner] # NoPhase
    /\ advertSlotOwner # None =>
           phase[advertSlotOwner] # NoPhase \/ settling[advertSlotOwner] # "no"
    /\ advertSlotOwner # None /\ slot = NoAdvert =>
           phase[advertSlotOwner] # "Advertised"
    /\ advertSlotOwner = None =>
           \A c \in advertised : phase[c] \notin OPEN_PHASES

IInv ==
    /\ TypeOK
    /\ SessionInv
    /\ AdvertisedInv
    /\ IntentInv
    /\ TimerInv
    /\ RecordInv
    /\ SlotInv

-----------------------------------------------------------------------------
(* Lemmas about the helpers *)

\* Evicting from a bounded map only takes keys away.
LEMMA BoundedSubset ==
    ASSUME NEW keys, NEW order
    PROVE  Bounded(keys, order) \subseteq keys
BY DEF Bounded

\* A record is never the absent one, and says what the intent said.
LEMMA RecordOfIntent ==
    ASSUME NEW intent \in Intents \cup {"none"}, NEW w \in Windows
    PROVE  /\ RecordOf(intent, w) \in TerminalRecord
           /\ RecordOf(intent, w) # NoRecord
           /\ RecordOf(intent, w).fate = "canceled" <=> intent = "canceled"
           /\ RecordOf(intent, w).reason =
                 IF intent = "none" THEN "library" ELSE intent
BY DEF RecordOf, TerminalRecord, NoRecord, Intents

-----------------------------------------------------------------------------
\* The invariant holds of a service that has just started.
THEOREM InitIInv == Init => IInv
<1> SUFFICES ASSUME Init PROVE IInv
  OBVIOUS
<1> USE DEF Init
<1>1. TypeOK
  <2>1. <<>> \in Seq(Cohort)
    OBVIOUS
  <2> QED
    BY <2>1 DEF TypeOK, Causes
<1>2. SessionInv /\ AdvertisedInv /\ IntentInv /\ TimerInv
  BY DEF SessionInv, AdvertisedInv, IntentInv, TimerInv
<1>3. RecordInv
  BY DEF RecordInv, NoRecord
<1>4. SlotInv
  BY DEF SlotInv
<1> QED
  BY <1>1, <1>2, <1>3, <1>4 DEF IInv

\* A step that leaves everything but the drafts and the pause alone.
LEMMA BookUntouched ==
    ASSUME IInv,
           drafts' \in [Draft -> Windows \cup {None}], paused' \in BOOLEAN,
           UNCHANGED <<advertised, advertisedWindows, terminal,
                       dismissedCanceled, windowTimers, intents,
                       advertSlotOwner, stopCurrent, runnerVars, historyVars>>
    PROVE  IInv'
<1> USE DEF IInv, runnerVars, historyVars
<1>1. TypeOK'
  BY DEF TypeOK
<1>2. SessionInv' /\ AdvertisedInv' /\ IntentInv' /\ TimerInv'
  BY DEF SessionInv, AdvertisedInv, IntentInv, TimerInv
<1>3. RecordInv' /\ SlotInv'
  BY DEF RecordInv, SlotInv
<1> QED
  BY <1>1, <1>2, <1>3

-----------------------------------------------------------------------------
(* One lemma per action *)

LEMMA DraftStepInv ==
    ASSUME IInv, NEW d \in Draft,
           \/ \E w \in Windows : CreateDraft(d, w) \/ UpdateDraft(d, w)
           \/ DiscardDraft(d)
    PROVE  IInv'
<1>1. drafts' \in [Draft -> Windows \cup {None}] /\ paused' \in BOOLEAN
  BY DEF IInv, TypeOK, CreateDraft, UpdateDraft, DiscardDraft
<1> QED
  BY <1>1, BookUntouched DEF CreateDraft, UpdateDraft, DiscardDraft

LEMMA SetPausedInv == IInv /\ SetPaused => IInv'
<1> SUFFICES ASSUME IInv, SetPaused PROVE IInv'
  OBVIOUS
<1>1. drafts' \in [Draft -> Windows \cup {None}] /\ paused' \in BOOLEAN
  BY DEF IInv, TypeOK, SetPaused
<1> QED
  BY <1>1, BookUntouched DEF SetPaused

\* Advertising c under window w, whatever record or draft it came from.
LEMMA AdvertiseInv ==
    ASSUME IInv, NEW c \in Cohort, NEW w \in Windows, TurnOver, Advertise(c, w),
           drafts' \in [Draft -> Windows \cup {None}],
           terminal' \in [Cohort -> TerminalRecord \cup {NoRecord}],
           \A d \in Cohort : terminal'[d] \in {terminal[d], NoRecord}
    PROVE  IInv'
<1> USE DEF IInv, Advertise
<1>1. TypeOK'
  <2>1. windowTimers' \subseteq windowTimers \cup {c}
    BY BoundedSubset DEF ArmWindowTimer
  <2>2. adverts' \in Seq(Cohort)
    BY DEF TypeOK
  <2>3. slot' \in [by : {"runner", "republisher"}, id : Cohort]
    BY DEF RunnerAdvert
  <2> QED
    BY <2>1, <2>2, <2>3 DEF TypeOK, Causes, DISPLAY_PHASES, OPEN_PHASES
<1>2. SessionInv'
  BY DEF SessionInv, TypeOK, NoPhase, TurnOver
<1>3. AdvertisedInv'
  BY DEF AdvertisedInv, TypeOK, NoPhase
<1>4. IntentInv'
  BY DEF IntentInv, TurnOver, TypeOK
<1>5. TimerInv'
  <2> SUFFICES ASSUME NEW t \in windowTimers'
               PROVE  /\ ~stopped'
                      /\ t \in advertised'
                      /\ advertisedWindows'[t] \in 1 .. CohortTtl - 1
    BY DEF TimerInv
  <2>1. CASE t \in windowTimers
    <3>1. t # c
      BY <2>1 DEF TimerInv, AdvertisedInv, SessionInv, TurnOver, TypeOK
    <3> QED
      BY <2>1, <3>1 DEF TimerInv, TypeOK
  <2>2. CASE t \notin windowTimers
    <3>1. t = c /\ w > 0 /\ w < CohortTtl /\ ~stopped
      BY <2>2, BoundedSubset DEF ArmWindowTimer
    <3> QED
      BY <3>1, WindowAssumption DEF TypeOK
  <2> QED
    BY <2>1, <2>2
<1>6. RecordInv'
  <2>1. terminal[c] = NoRecord
    BY DEF RecordInv, TypeOK, TerminalRecord
  <2> QED
    BY <2>1 DEF RecordInv, TypeOK, NoRecord
<1>7. SlotInv'
  BY NoneAssumption DEF SlotInv, RunnerAdvert, NoAdvert, TypeOK, NoPhase
<1> QED
  BY <1>1, <1>2, <1>3, <1>4, <1>5, <1>6, <1>7

LEMMA AdvertiseDraftInv ==
    ASSUME IInv, NEW d \in Draft, NEW c \in Cohort, AdvertiseDraft(d, c)
    PROVE  IInv'
<1> USE DEF AdvertiseDraft
<1>1. drafts[d] \in Windows
  BY DEF IInv, TypeOK
<1>2. /\ drafts' \in [Draft -> Windows \cup {None}]
      /\ terminal' \in [Cohort -> TerminalRecord \cup {NoRecord}]
  BY DEF IInv, TypeOK
<1> QED
  BY <1>1, <1>2, AdvertiseInv

LEMMA ReadvertiseExpiredInv ==
    ASSUME IInv, NEW old \in Cohort, NEW c \in Cohort, ReadvertiseExpired(old, c)
    PROVE  IInv'
<1> USE DEF ReadvertiseExpired
<1>1. terminal[old].window \in Windows
  BY DEF IInv, TypeOK, terminalKeys, TerminalRecord
<1>2. /\ drafts' \in [Draft -> Windows \cup {None}]
      /\ terminal' \in [Cohort -> TerminalRecord \cup {NoRecord}]
      /\ \A d \in Cohort : terminal'[d] \in {terminal[d], NoRecord}
  BY DEF IInv, TypeOK
<1> QED
  BY <1>1, <1>2, AdvertiseInv

LEMMA RunnerAdvanceInv ==
    ASSUME IInv, NEW c \in Cohort, NEW p \in DISPLAY_PHASES, RunnerAdvance(c, p)
    PROVE  IInv'
<1> USE DEF IInv, RunnerAdvance, operatorVars, historyVars
<1>0. /\ phase[c] # NoPhase
      /\ phase[c] \in DISPLAY_PHASES
      /\ p # NoPhase /\ p # "Advertised"
      /\ p \in OPEN_PHASES => phase[c] \in OPEN_PHASES
  BY PhaseAssumption DEF NoPhase, DISPLAY_PHASES, OPEN_PHASES, IN_FLIGHT_PHASES
<1>1. TypeOK'
  BY <1>0 DEF TypeOK, Disposed
<1>2. SessionInv' /\ AdvertisedInv' /\ IntentInv' /\ TimerInv'
  BY <1>0 DEF SessionInv, AdvertisedInv, IntentInv, TimerInv, TypeOK
<1>3. RecordInv'
  BY DEF RecordInv
<1>4. SlotInv'
  BY <1>0 DEF SlotInv, Disposed, RunnerAdvert, Republished, NoAdvert, TypeOK
<1> QED
  BY <1>1, <1>2, <1>3, <1>4

LEMMA FinalizeCohortInv ==
    ASSUME IInv, NEW c \in Cohort, FinalizeCohort(c)
    PROVE  IInv'
<1> USE DEF IInv, FinalizeCohort, operatorVars, historyVars
<1>0. /\ phase[c] # NoPhase
      /\ "FallbackRequested" \in DISPLAY_PHASES
      /\ "FallbackRequested" \notin OPEN_PHASES
      /\ "FallbackRequested" # NoPhase
  BY DEF NoPhase, DISPLAY_PHASES, OPEN_PHASES, IN_FLIGHT_PHASES,
         FINALIZABLE_PHASES
<1>1. TypeOK'
  BY <1>0 DEF TypeOK, Disposed
<1>2. SessionInv' /\ AdvertisedInv' /\ IntentInv' /\ TimerInv'
  BY <1>0 DEF SessionInv, AdvertisedInv, IntentInv, TimerInv, TypeOK
<1>3. RecordInv'
  BY DEF RecordInv
<1>4. SlotInv'
  BY <1>0 DEF SlotInv, Disposed, RunnerAdvert, Republished, NoAdvert, TypeOK
<1> QED
  BY <1>1, <1>2, <1>3, <1>4

\* The runner ends a cohort of its own accord.
LEMMA RunnerEndInv ==
    ASSUME IInv, NEW c \in Cohort, RunnerComplete(c) \/ RunnerFail(c)
    PROVE  IInv'
<1> USE DEF IInv, RunnerComplete, RunnerFail, Settle, operatorVars
<1>0. /\ phase[c] # NoPhase
      /\ c \in advertised
      /\ settling[c] = "no" /\ intents[c] = "none"
      /\ NoPhase \notin DISPLAY_PHASES
  BY DEF NoPhase, DISPLAY_PHASES, OPEN_PHASES, IN_FLIGHT_PHASES,
         FINALIZABLE_PHASES, AdvertisedInv, IntentInv, TurnOver
<1>1. TypeOK'
  BY DEF TypeOK, Disposed, Causes, Rejections
<1>2. SessionInv'
  BY <1>0 DEF SessionInv, TypeOK, Rejections
<1>3. AdvertisedInv' /\ TimerInv'
  BY <1>0 DEF AdvertisedInv, TimerInv, TypeOK
<1>4. IntentInv'
  BY <1>0 DEF IntentInv, TypeOK, Intents
<1>5. RecordInv'
  BY <1>0 DEF RecordInv, SessionInv, TypeOK
<1>6. SlotInv'
  BY <1>0 DEF SlotInv, Disposed, RunnerAdvert, Republished, NoAdvert, TypeOK,
     OPEN_PHASES, DISPLAY_PHASES, NoPhase
<1> QED
  BY <1>1, <1>2, <1>3, <1>4, <1>5, <1>6

\* A stop with a declared intent, whatever it does to the advert cell.
LEMMA StopWithIntent ==
    ASSUME IInv, NEW c \in Cohort, NEW why \in Intents, TurnOver,
           c \in advertised,
           intents' = [intents EXCEPT ![c] = why],
           windowTimers' = windowTimers \ {c},
           StopCohort(c, why),
           UNCHANGED <<drafts, advertised, advertisedWindows, terminal,
                       dismissedCanceled, paused, stopped, adverts, endings,
                       dismissals>>
    PROVE  /\ phase' = [phase EXCEPT ![c] = NoPhase]
           /\ settling' = [settling EXCEPT ![c] = "rejected"]
           /\ SessionInv' /\ AdvertisedInv' /\ IntentInv' /\ TimerInv'
           /\ RecordInv'
           /\ advertSlotOwner' \in Cohort \cup {None}
                /\ stopCurrent' \in Cohort \cup {None}
                /\ slot' \in [by : {"runner", "republisher"}, id : Cohort]
                                \cup {NoAdvert}
              => TypeOK'
<1> USE DEF IInv
<1>0. phase[c] # NoPhase
  BY DEF AdvertisedInv, TurnOver
<1>1. Settle(c, "rejected", why)
  BY <1>0 DEF StopCohort
<1> USE <1>1 DEF Settle
<1>2. SessionInv'
  BY DEF SessionInv, TypeOK, Intents, Rejections
<1>3. AdvertisedInv' /\ TimerInv'
  BY DEF AdvertisedInv, TimerInv, TypeOK
<1>4. IntentInv'
  BY DEF IntentInv, TypeOK, Intents
<1>5. RecordInv'
  BY <1>0 DEF RecordInv, SessionInv, TypeOK
<1>6. /\ intents' \in [Cohort -> Intents \cup {"none"}]
      /\ phase' \in [Cohort -> DISPLAY_PHASES \cup {NoPhase}]
      /\ settling' \in [Cohort -> {"no", "resolved", "rejected"}]
      /\ cause' \in [Cohort -> Causes]
      /\ windowTimers' \subseteq Cohort
  BY DEF TypeOK, Causes, Rejections, Intents
<1> QED
  BY <1>2, <1>3, <1>4, <1>5, <1>6 DEF TypeOK

LEMMA CancelCohortInv ==
    ASSUME IInv, NEW c \in Cohort, CancelCohort(c)
    PROVE  IInv'
<1> USE DEF IInv, CancelCohort
<1>1. /\ phase' = [phase EXCEPT ![c] = NoPhase]
      /\ settling' = [settling EXCEPT ![c] = "rejected"]
      /\ SessionInv' /\ AdvertisedInv' /\ IntentInv' /\ TimerInv'
      /\ RecordInv'
      /\ advertSlotOwner' \in Cohort \cup {None}
           /\ stopCurrent' \in Cohort \cup {None}
           /\ slot' \in [by : {"runner", "republisher"}, id : Cohort]
                           \cup {NoAdvert}
         => TypeOK'
  BY StopWithIntent DEF Intents
<1>2. phase'[c] = NoPhase /\ NoPhase \notin OPEN_PHASES /\ NoPhase # "Advertised"
  BY <1>1 DEF TypeOK, NoPhase, OPEN_PHASES
<1> DEFINE open == {d \in advertised : phase'[d] \in OPEN_PHASES}
<1>3. CASE c # advertSlotOwner
  <2>1. slot' = Disposed(c) /\ UNCHANGED <<advertSlotOwner, stopCurrent>>
    BY <1>3 DEF RepairAdvertSlot
  <2>2. slot' = slot
    BY <1>3, <2>1 DEF Disposed, SlotInv, RunnerAdvert, Republished, NoAdvert
  <2>3. SlotInv'
    BY <1>1, <1>2, <1>3, <2>1, <2>2 DEF SlotInv, TypeOK, RunnerAdvert, Republished
  <2> QED
    BY <1>1, <2>1, <2>2, <2>3 DEF TypeOK
<1>4. CASE c = advertSlotOwner /\ open # {}
  <2>1. PICK n \in open : /\ advertSlotOwner' = n
                          /\ stopCurrent' = n
                          /\ slot' = Republished(n)
    BY <1>4 DEF RepairAdvertSlot
  <2>2. n \in Cohort /\ phase'[n] # NoPhase
    BY <1>2 DEF TypeOK
  <2>3. SlotInv'
    BY <2>1, <2>2, NoneAssumption DEF SlotInv, Republished, NoAdvert
  <2> QED
    BY <1>1, <2>1, <2>2, <2>3 DEF Republished
<1>5. CASE c = advertSlotOwner /\ open = {}
  <2>1. /\ advertSlotOwner' = None
        /\ stopCurrent' = None
        /\ slot' = IF Disposed(c) = Republished(stopCurrent)
                   THEN NoAdvert ELSE Disposed(c)
    BY <1>5 DEF RepairAdvertSlot
  <2>2. slot' = NoAdvert
    BY <1>5, <2>1 DEF Disposed, SlotInv, RunnerAdvert, Republished, NoAdvert
  <2>3. SlotInv'
    BY <1>5, <2>1, <2>2 DEF SlotInv
  <2> QED
    BY <1>1, <2>1, <2>2, <2>3
<1> QED
  BY <1>3, <1>4, <1>5

LEMMA WindowExpiresInv ==
    ASSUME IInv, NEW c \in Cohort, WindowExpires(c)
    PROVE  IInv'
<1> USE DEF IInv, WindowExpires
<1>1. c \in advertised
  BY DEF TimerInv
<1>2. /\ phase' = [phase EXCEPT ![c] = NoPhase]
      /\ settling' = [settling EXCEPT ![c] = "rejected"]
      /\ SessionInv' /\ AdvertisedInv' /\ IntentInv' /\ TimerInv'
      /\ RecordInv'
      /\ advertSlotOwner' \in Cohort \cup {None}
           /\ stopCurrent' \in Cohort \cup {None}
           /\ slot' \in [by : {"runner", "republisher"}, id : Cohort]
                           \cup {NoAdvert}
         => TypeOK'
  BY <1>1, StopWithIntent DEF Intents
<1>3. SlotInv'
  BY <1>2 DEF SlotInv, Disposed, RunnerAdvert, Republished, NoAdvert, TypeOK,
     OPEN_PHASES, NoPhase
<1>4. TypeOK'
  BY <1>2 DEF TypeOK, Disposed
<1> QED
  BY <1>2, <1>3, <1>4

\* The reaction to a completion files at most one record and keeps the rest.
LEMMA SettledRecord ==
    ASSUME IInv, NEW c \in Cohort, SettleCompletion(c)
    PROVE  /\ terminal' \in [Cohort -> TerminalRecord \cup {NoRecord}]
           /\ endings' \in Seq(Cohort)
           /\ RecordInv'
<1> USE DEF IInv, SettleCompletion, LeaveBook
<1>1. c \in advertised
  BY DEF AdvertisedInv
<1>2. CASE settling[c] # "rejected"
  BY <1>2 DEF TypeOK, RecordInv
<1>3. CASE settling[c] = "rejected"
  <2> DEFINE record == RecordOf(intents[c], advertisedWindows[c])
             kept == Bounded(terminalKeys \cup {c}, Append(endings, c))
  <2>1. /\ terminal' = [d \in Cohort |->
                           IF d \notin kept THEN NoRecord
                           ELSE IF d = c THEN record ELSE terminal[d]]
        /\ endings' = Append(endings, c)
    BY <1>1, <1>3 DEF RememberTerminal
  <2>2. /\ intents[c] \in Intents \cup {"none"}
        /\ advertisedWindows[c] \in Windows
    BY <1>1 DEF TypeOK, AdvertisedInv
  <2>3. /\ record \in TerminalRecord
        /\ record.fate = "canceled" <=> intents[c] = "canceled"
        /\ record.reason = IF intents[c] = "none" THEN "library" ELSE intents[c]
    BY <2>2, RecordOfIntent
  <2>4. /\ cause[c] \in Rejections
        /\ intents[c] # "none" => cause[c] = intents[c]
        /\ intents[c] = "none" => cause[c] \in {"failed", "stopped"}
    BY <1>3 DEF SessionInv, IntentInv, Rejections, Intents
  <2>5. kept \subseteq terminalKeys \cup {c}
    BY BoundedSubset
  <2> HIDE DEF record, kept
  <2>6. terminal' \in [Cohort -> TerminalRecord \cup {NoRecord}]
    BY <2>1, <2>3 DEF TypeOK
  <2>7. endings' \in Seq(Cohort)
    BY <2>1 DEF TypeOK
  <2>8. ASSUME NEW d \in Cohort
        PROVE  /\ terminal'[d] # NoRecord => d \notin advertised'
               /\ terminal'[d].reason = "canceled" => cause'[d] = "canceled"
               /\ terminal'[d].reason = "window-expired"
                    => cause'[d] = "window-expired"
               /\ terminal'[d].reason = "library"
                    => cause'[d] \in {"failed", "stopped"}
               /\ terminal'[d].fate = "canceled"
                    <=> terminal'[d].reason = "canceled"
               /\ d \in dismissedCanceled' => cause'[d] = "canceled"
    <3>1. CASE terminal'[d] = NoRecord
      BY <3>1 DEF NoRecord, RecordInv
    <3>2. CASE terminal'[d] # NoRecord /\ d = c
      <4>1. terminal'[d] = record
        BY <2>1, <3>2
      <4> QED
        BY <2>3, <2>4, <3>2, <4>1 DEF RecordInv, Intents, TypeOK
    <3>3. CASE terminal'[d] # NoRecord /\ d # c
      <4>1. terminal'[d] = terminal[d]
        BY <2>1, <3>3
      <4> QED
        BY <3>3, <4>1 DEF RecordInv
    <3> QED
      BY <3>1, <3>2, <3>3
  <2> QED
    BY <2>6, <2>7, <2>8 DEF RecordInv
<1> QED
  BY <1>2, <1>3

LEMMA SettleCompletionInv ==
    ASSUME IInv, NEW c \in Cohort, SettleCompletion(c)
    PROVE  IInv'
<1> USE DEF IInv, SettleCompletion, LeaveBook
<1>0. /\ phase[c] = NoPhase
      /\ c \in advertised
      /\ settling' = [settling EXCEPT ![c] = "no"]
      /\ NoPhase \notin OPEN_PHASES
  BY DEF AdvertisedInv, SessionInv, TypeOK, Rejections, OPEN_PHASES, NoPhase
<1>1. RecordInv'
  BY SettledRecord
<1>2. SessionInv' /\ AdvertisedInv'
  BY <1>0 DEF SessionInv, AdvertisedInv, TypeOK
<1>3. IntentInv' /\ TimerInv'
  BY <1>0 DEF IntentInv, TimerInv, TypeOK
<1>4. ASSUME advertSlotOwner' \in Cohort \cup {None},
             stopCurrent' \in Cohort \cup {None},
             slot' \in [by : {"runner", "republisher"}, id : Cohort]
                          \cup {NoAdvert}
      PROVE  TypeOK'
  BY <1>0, <1>4, SettledRecord DEF TypeOK
<1> DEFINE open == {d \in advertised \ {c} : phase[d] \in OPEN_PHASES}
<1>5. CASE c # advertSlotOwner
  <2>1. slot' = slot /\ UNCHANGED <<advertSlotOwner, stopCurrent>>
    BY <1>5 DEF RepairAdvertSlot
  <2>2. SlotInv'
    BY <1>0, <1>5, <2>1 DEF SlotInv, TypeOK, RunnerAdvert, Republished
  <2>3. TypeOK'
    BY <1>4, <2>1 DEF TypeOK
  <2> QED
    BY <1>1, <1>2, <1>3, <2>2, <2>3
<1>6. CASE c = advertSlotOwner /\ open # {}
  <2>1. PICK n \in open : /\ advertSlotOwner' = n
                          /\ stopCurrent' = n
                          /\ slot' = Republished(n)
    BY <1>6 DEF RepairAdvertSlot
  <2>2. n \in Cohort /\ phase'[n] # NoPhase
    BY <1>0 DEF TypeOK
  <2>3. SlotInv'
    BY <2>1, <2>2, NoneAssumption DEF SlotInv, Republished, NoAdvert
  <2>4. TypeOK'
    BY <1>4, <2>1, <2>2 DEF Republished
  <2> QED
    BY <1>1, <1>2, <1>3, <2>3, <2>4
<1>7. CASE c = advertSlotOwner /\ open = {}
  <2>1. /\ advertSlotOwner' = None
        /\ stopCurrent' = None
        /\ slot' = IF slot = Republished(stopCurrent) THEN NoAdvert ELSE slot
    BY <1>7 DEF RepairAdvertSlot
  <2>2. slot' = NoAdvert
    BY <1>0, <1>7, <2>1 DEF SlotInv, RunnerAdvert, Republished, NoAdvert
  <2>3. SlotInv'
    BY <1>7, <2>1, <2>2 DEF SlotInv
  <2>4. TypeOK'
    BY <1>4, <2>1, <2>2
  <2> QED
    BY <1>1, <1>2, <1>3, <2>3, <2>4
<1> QED
  BY <1>5, <1>6, <1>7

LEMMA ForgetTerminalInv ==
    ASSUME IInv, NEW c \in Cohort, ForgetTerminal(c)
    PROVE  IInv'
<1>0. /\ terminal' = [terminal EXCEPT ![c] = NoRecord]
      /\ UNCHANGED <<drafts, advertised, advertisedWindows, windowTimers,
                     intents, advertSlotOwner, stopCurrent, paused, stopped,
                     phase, slot, settling, adverts, endings, cause>>
  BY DEF ForgetTerminal, runnerVars
<1>1. /\ dismissedCanceled' \subseteq dismissedCanceled \cup {c}
      /\ dismissals' \in Seq(Cohort)
      /\ dismissedCanceled' # dismissedCanceled => terminal[c].fate = "canceled"
  <2>0. dismissals \in Seq(Cohort)
    BY DEF IInv, TypeOK
  <2>1. CASE terminal[c].fate = "canceled"
    <3>1. dismissals' = Append(dismissals, c)
      BY <2>1 DEF ForgetTerminal, CarryFate
    <3>2. dismissals' \in Seq(Cohort)
      BY <2>0, <3>1
    <3>3. dismissedCanceled' \subseteq dismissedCanceled \cup {c}
      BY <2>1, BoundedSubset DEF ForgetTerminal, CarryFate
    <3> QED
      BY <2>1, <3>2, <3>3
  <2>2. CASE terminal[c].fate # "canceled"
    BY <2>0, <2>2 DEF ForgetTerminal, CarryFate
  <2> QED
    BY <2>1, <2>2
<1>2. TypeOK'
  BY <1>0, <1>1 DEF IInv, TypeOK
<1>3. SessionInv' /\ AdvertisedInv' /\ IntentInv' /\ TimerInv' /\ SlotInv'
  BY <1>0 DEF IInv, SessionInv, AdvertisedInv, IntentInv, TimerInv, SlotInv
<1>4. RecordInv'
  BY <1>0, <1>1 DEF IInv, RecordInv, TypeOK, NoRecord
<1> QED
  BY <1>2, <1>3, <1>4 DEF IInv

LEMMA StopServiceInv == IInv /\ StopService => IInv'
<1> SUFFICES ASSUME IInv, StopService PROVE IInv'
  OBVIOUS
<1> USE DEF IInv, StopService
<1>1. TypeOK'
  BY DEF TypeOK, Causes, Rejections
<1>2. SessionInv'
  BY DEF SessionInv, TypeOK, Rejections
<1>3. AdvertisedInv' /\ TimerInv'
  BY DEF AdvertisedInv, TimerInv, TurnOver, TypeOK
<1>4. IntentInv'
  BY DEF IntentInv, TurnOver, TypeOK, Intents, SessionInv
<1>5. RecordInv'
  BY DEF RecordInv, SessionInv, TypeOK
<1>6. SlotInv'
  BY DEF SlotInv, TurnOver, TypeOK, NoPhase, OPEN_PHASES
<1> QED
  BY <1>1, <1>2, <1>3, <1>4, <1>5, <1>6

-----------------------------------------------------------------------------
(* The inductive invariant *)

LEMMA NextIInv == IInv /\ [Next]_vars => IInv'
<1> SUFFICES ASSUME IInv, [Next]_vars PROVE IInv'
  OBVIOUS
<1>1. CASE DraftStep
  BY <1>1, DraftStepInv, AdvertiseDraftInv DEF DraftStep
<1>2. CASE OperatorStep
  BY <1>2, ReadvertiseExpiredInv, CancelCohortInv, FinalizeCohortInv,
     ForgetTerminalInv DEF OperatorStep
<1>3. CASE RunnerStep
  BY <1>3, RunnerAdvanceInv, RunnerEndInv DEF RunnerStep
<1>4. CASE TimerStep
  BY <1>4, WindowExpiresInv DEF TimerStep
<1>5. CASE SettleStep
  BY <1>5, SettleCompletionInv DEF SettleStep
<1>6. CASE SetPaused
  BY <1>6, SetPausedInv
<1>7. CASE StopService
  BY <1>7, StopServiceInv
<1>8. CASE UNCHANGED vars
  BY <1>8, BookUntouched DEF vars, operatorVars, IInv, TypeOK
<1> QED
  BY <1>1, <1>2, <1>3, <1>4, <1>5, <1>6, <1>7, <1>8 DEF Next

\* IInv is an invariant: it holds initially and every step preserves it.
THEOREM Inductive == Spec => []IInv
  BY InitIInv, NextIInv, PTL DEF Spec

-----------------------------------------------------------------------------
(* The theorems *)

\* Every variable keeps its type, whatever the operator, the participants, the
\* timers and the library do.
THEOREM TypeCorrect == Spec => []TypeOK
<1>1. IInv => TypeOK
  BY DEF IInv
<1> QED
  BY <1>1, Inductive, PTL

\* No cohort's end is ever narrated as another: a record and the public fate
\* answer say canceled only of a cohort the operator canceled, window-expired
\* only of one whose window lapsed (settleCompletion, cohortFate).
THEOREM FatesAreHonest == Spec => []FateHonest
<1>1. IInv => FateHonest
  BY DEF IInv, RecordInv, FateHonest, cohortFate
<1> QED
  BY <1>1, Inductive, PTL

\* Between two turns the advertised map, the library's session and the intents
\* agree (settleCompletion, cohort-intent.ts).
THEOREM BookIsSession == Spec => []BookMatchesSession
<1>1. IInv => BookMatchesSession
  BY DEF IInv, BookMatchesSession, AdvertisedInv, IntentInv, RecordInv, TurnOver
<1> QED
  BY <1>1, Inductive, PTL

\* An armed discovery timer has a live cohort to fire on (armWindowTimer).
THEOREM TimersHaveCohorts == Spec => []TimersGuardLiveCohorts
<1>1. IInv => TimersGuardLiveCohorts
  BY DEF IInv, TimersGuardLiveCohorts, TimerInv, AdvertisedInv, TurnOver, TypeOK
<1> QED
  BY <1>1, Inductive, PTL

\* The app-side mirror of the transport's advert cell is wrong in the one
\* direction its comment allows (advertSlotOwner, repairAdvertSlot).
THEOREM MirrorIsSafe == Spec => []SlotMirrored
<1>1. IInv => SlotMirrored
  BY DEF IInv, SlotMirrored, SlotInv, TurnOver, TypeOK, RunnerAdvert, Republished
<1> QED
  BY <1>1, Inductive, PTL

\* No step re-publishes an advert over that of a cohort still in the session
\* (repairAdvertSlot, createAdvertRepublisher).
THEOREM RepairIsSafe == Spec => RepairNeverOverLiveAdvert
<1> DEFINE Safe == slot'.by = "republisher" /\ slot' # slot
                      => slot = NoAdvert \/ phase'[slot.id] = NoPhase
<1>1. IInv /\ [Next]_vars => [Safe]_vars
  <2> SUFFICES ASSUME IInv, Next, slot'.by = "republisher", slot' # slot,
                      slot # NoAdvert
               PROVE  phase'[slot.id] = NoPhase
    OBVIOUS
  <2>0. slot.id = advertSlotOwner /\ slot.id \in Cohort
    BY DEF IInv, SlotInv, TypeOK, RunnerAdvert, Republished, NoAdvert
  <2>1. CASE \E c \in Cohort : CancelCohort(c)
    <3>1. PICK c \in Cohort : CancelCohort(c)
      BY <2>1
    <3>2. c = advertSlotOwner
      BY <3>1 DEF CancelCohort, RepairAdvertSlot, Disposed, NoAdvert
    <3>3. phase'[c] = NoPhase
      BY <3>1 DEF CancelCohort, StopCohort, Settle, IInv, TypeOK
    <3> QED
      BY <2>0, <3>2, <3>3
  <2>2. CASE \E c \in Cohort : SettleCompletion(c)
    <3>1. PICK c \in Cohort : SettleCompletion(c)
      BY <2>2
    <3>2. c = advertSlotOwner
      BY <3>1 DEF SettleCompletion, RepairAdvertSlot
    <3>3. phase'[c] = NoPhase
      BY <3>1 DEF SettleCompletion, IInv, AdvertisedInv, SessionInv, TypeOK,
         Rejections
    <3> QED
      BY <2>0, <3>2, <3>3
  <2>3. CASE ~(\E c \in Cohort : CancelCohort(c) \/ SettleCompletion(c))
    <3>1. CASE DraftStep
      BY <3>1 DEF DraftStep, CreateDraft, UpdateDraft, DiscardDraft,
         AdvertiseDraft, Advertise, RunnerAdvert, runnerVars
    <3>2. ASSUME NEW c \in Cohort
          PROVE  slot' # Disposed(c)
      BY DEF Disposed, NoAdvert
    <3>3. CASE OperatorStep
      <4>1. PICK c \in Cohort :
                \/ \E old \in Cohort : ReadvertiseExpired(old, c)
                \/ FinalizeCohort(c)
                \/ ForgetTerminal(c)
        BY <2>3, <3>3 DEF OperatorStep
      <4>2. slot' \in {RunnerAdvert(c), Disposed(c), slot}
        BY <4>1 DEF ReadvertiseExpired, Advertise, FinalizeCohort,
           ForgetTerminal, runnerVars
      <4> QED
        BY <3>2, <4>2 DEF RunnerAdvert
    <3>4. CASE TimerStep \/ SettleStep
      BY <2>3, <3>2, <3>4 DEF TimerStep, SettleStep, WindowExpires
    <3>5. CASE RunnerStep
      <4>1. PICK c \in Cohort : \/ \E p \in DISPLAY_PHASES : RunnerAdvance(c, p)
                                \/ RunnerComplete(c)
                                \/ RunnerFail(c)
        BY <3>5 DEF RunnerStep
      <4>2. slot' \in {Disposed(c), slot}
        BY <4>1 DEF RunnerAdvance, RunnerComplete, RunnerFail
      <4> QED
        BY <3>2, <4>2
    <3>6. CASE SetPaused \/ StopService
      BY <3>6 DEF SetPaused, StopService, NoAdvert, runnerVars
    <3> QED
      BY <3>1, <3>3, <3>4, <3>5, <3>6 DEF Next
  <2> QED
    BY <2>1, <2>2, <2>3
<1> QED
  BY <1>1, Inductive, PTL DEF Spec, RepairNeverOverLiveAdvert

-----------------------------------------------------------------------------
(* The bounded maps *)

Entries(order) == {order[i] : i \in DOMAIN order}
OnceEach(order) == \A i, j \in DOMAIN order : order[i] = order[j] => i = j

\* What is left of a set of keys when those with an older one are kept is all
\* of it but the oldest.
LEMMA OldestGoes ==
    ASSUME NEW order \in Seq(Cohort), OnceEach(order),
           NEW keys, keys # {}, keys \subseteq Entries(order)
    PROVE  \E d \in keys :
              {c \in keys : \E e \in keys : Before(order, e, c)} = keys \ {d}
<1> DEFINE S == {i \in DOMAIN order : order[i] \in keys}
<1>1. S \in SUBSET Nat /\ S # {}
  BY DEF Entries
<1>2. PICK m \in S : \A i \in S : m <= i
  BY <1>1, LeastIndex
<1>3. order[m] \in keys
  BY <1>2
<1>4. ASSUME NEW c \in keys, c # order[m]
      PROVE  Before(order, order[m], c)
  <2>1. PICK j \in S : order[j] = c
    BY DEF Entries
  <2>2. m < j
    BY <1>1, <1>2, <1>4, <2>1
  <2> QED
    BY <1>2, <2>1, <2>2 DEF Before
<1>5. ASSUME NEW e \in keys, Before(order, e, order[m])
      PROVE  FALSE
  <2>1. PICK i, j \in DOMAIN order : i < j /\ order[i] = e /\ order[j] = order[m]
    BY <1>5 DEF Before
  <2>2. j = m /\ i \in S
    BY <1>2, <2>1 DEF OnceEach
  <2> QED
    BY <1>1, <1>2, <2>1, <2>2
<1> QED
  BY <1>3, <1>4, <1>5

\* Remembering a new key in a bounded map: below the capacity it is added, at
\* the capacity one other key goes.
LEMMA BoundedAdd ==
    ASSUME NEW order \in Seq(Cohort), OnceEach(order),
           NEW keys, keys \subseteq Entries(order),
           IsFiniteSet(keys), Cardinality(keys) <= MaxTerminal,
           NEW c \in Cohort, c \notin Entries(order)
    PROVE  LET kept == Bounded(keys \cup {c}, Append(order, c))
           IN  /\ \/ Cardinality(keys) < MaxTerminal /\ kept = keys \cup {c}
                  \/ /\ Cardinality(keys) = MaxTerminal
                     /\ \E d \in keys : kept = (keys \ {d}) \cup {c}
               /\ c \in kept
               /\ IsFiniteSet(kept)
               /\ Cardinality(kept) <= MaxTerminal
<1> DEFINE longer == Append(order, c)
           all == keys \cup {c}
           kept == Bounded(all, longer)
<1>0. /\ MaxTerminal \in Nat \ {0}
      /\ Cardinality(keys) \in Nat
      /\ IsFiniteSet(all) /\ Cardinality(all) = Cardinality(keys) + 1
  BY CapAssumption, FS_CardinalityType, FS_AddElement
<1>1. /\ longer \in Seq(Cohort)
      /\ Len(longer) = Len(order) + 1
      /\ \A i \in DOMAIN longer :
            longer[i] = IF i \in DOMAIN order THEN order[i] ELSE c
      /\ DOMAIN longer = DOMAIN order \cup {Len(order) + 1}
  OBVIOUS
<1> HIDE DEF longer
<1>4. Entries(longer) = Entries(order) \cup {c}
  BY <1>1 DEF Entries
<1>5. OnceEach(longer)
  BY <1>1 DEF OnceEach, Entries
<1>2. CASE Cardinality(keys) < MaxTerminal
  BY <1>0, <1>2 DEF Bounded
<1>3. CASE Cardinality(keys) = MaxTerminal
  <2>1. kept = {k \in all : \E e \in all : Before(longer, e, k)}
    BY <1>0, <1>3 DEF Bounded
  <2>0. all # {} /\ all \subseteq Entries(longer) /\ c \in all
    BY <1>4
  <2> HIDE DEF all, kept
  <2>2. PICK d \in all : kept = all \ {d}
    BY <1>1, <1>5, <2>0, <2>1, OldestGoes
  <2>3. PICK e \in keys : TRUE
    BY <1>0, <1>3, FS_EmptySet
  <2>4. Before(longer, e, c)
    <3>1. PICK i \in DOMAIN order : order[i] = e
      BY DEF Entries
    <3> QED
      BY <1>1, <3>1 DEF Before
  <2>5. d # c
    BY <2>0, <2>1, <2>2, <2>3, <2>4 DEF all
  <2>6. IsFiniteSet(kept) /\ Cardinality(kept) = MaxTerminal
    BY <1>0, <1>3, <2>2, FS_RemoveElement
  <2> QED
    <3>1. c \notin keys
      OBVIOUS
    <3>2. d \in keys
      BY <2>2, <2>5 DEF all
    <3>3. kept = (keys \ {d}) \cup {c}
      BY <2>2, <2>5, <3>1 DEF all
    <3>4. c \in kept
      BY <3>3
    <3> QED
      BY <1>0, <1>3, <2>6, <3>2, <3>3, <3>4 DEF kept, all, longer
<1>6. Cardinality(keys) < MaxTerminal \/ Cardinality(keys) = MaxTerminal
  BY <1>0
<1> QED
  BY <1>2, <1>3, <1>6 DEF longer

\* Each map holds keys its history has, in the order of a history that names
\* nobody twice; a history names only cohorts that left the advertised map.
HistoryInv ==
    /\ OnceEach(endings)
    /\ OnceEach(dismissals)
    /\ terminalKeys \subseteq Entries(endings)
    /\ dismissedCanceled \subseteq Entries(dismissals)
    /\ \A c \in Entries(endings) : c \notin advertised /\ cause[c] # "fresh"
    /\ \A c \in Entries(dismissals) : c \in Entries(endings) /\ terminal[c] = NoRecord

\* Neither map outgrows MAX_TERMINAL.
CapacityInv ==
    /\ IsFiniteSet(terminalKeys) /\ Cardinality(terminalKeys) <= MaxTerminal
    /\ IsFiniteSet(dismissedCanceled) /\ Cardinality(dismissedCanceled) <= MaxTerminal

BookInv == IInv /\ HistoryInv /\ CapacityInv

-----------------------------------------------------------------------------
(* What a step can do to the two maps *)

\* The steps the maps do not see: nothing is filed or forgotten, and history
\* goes on only for cohorts in the advertised map.
Unseen ==
    /\ UNCHANGED <<advertised, adverts, terminal, dismissedCanceled, endings,
                   dismissals>>
    /\ \A c \in Cohort :
          cause'[c] = cause[c] \/ (c \in advertised /\ cause'[c] # "fresh")

\* Every step but an advertise, a reaction and a dismissal is one of them.
LEMMA StepKinds ==
    ASSUME IInv, [Next]_vars
    PROVE  \/ Unseen
           \/ \E d \in Draft, c \in Cohort : AdvertiseDraft(d, c)
           \/ \E old, c \in Cohort : ReadvertiseExpired(old, c)
           \/ \E c \in Cohort : SettleCompletion(c)
           \/ \E c \in Cohort : ForgetTerminal(c)
<1>1. CASE DraftStep
  <2>1. ASSUME NEW d \in Draft,
               \/ \E w \in Windows : CreateDraft(d, w) \/ UpdateDraft(d, w)
               \/ DiscardDraft(d)
        PROVE  Unseen
    BY <2>1 DEF CreateDraft, UpdateDraft, DiscardDraft, Unseen, historyVars
  <2> QED
    BY <1>1, <2>1 DEF DraftStep
<1>2. ASSUME NEW c \in Cohort, CancelCohort(c)
      PROVE  Unseen
  BY <1>2 DEF CancelCohort, StopCohort, Settle, Unseen, IInv, TypeOK
<1>3. ASSUME NEW c \in Cohort, FinalizeCohort(c)
      PROVE  Unseen
  BY <1>3 DEF FinalizeCohort, Unseen, operatorVars, historyVars
<1>4. ASSUME NEW c \in Cohort, WindowExpires(c)
      PROVE  Unseen
  <2>1. c \in advertised
    BY <1>4 DEF WindowExpires, IInv, TimerInv
  <2> QED
    BY <1>4, <2>1 DEF WindowExpires, StopCohort, Settle, Unseen, IInv, TypeOK
<1>5. CASE RunnerStep
  <2>1. ASSUME NEW c \in Cohort, NEW p \in DISPLAY_PHASES, RunnerAdvance(c, p)
        PROVE  Unseen
    BY <2>1 DEF RunnerAdvance, Unseen, operatorVars, historyVars
  <2>2. ASSUME NEW c \in Cohort, RunnerComplete(c) \/ RunnerFail(c)
        PROVE  Unseen
    <3>1. c \in advertised
      BY <2>2 DEF RunnerComplete, RunnerFail, IInv, AdvertisedInv, NoPhase,
         FINALIZABLE_PHASES
    <3> QED
      BY <2>2, <3>1 DEF RunnerComplete, RunnerFail, Settle, Unseen, operatorVars,
         IInv, TypeOK
  <2> QED
    BY <1>5, <2>1, <2>2 DEF RunnerStep
<1>6. CASE SetPaused
  BY <1>6 DEF SetPaused, Unseen, historyVars
<1>7. CASE StopService
  BY <1>7 DEF StopService, Unseen, IInv, AdvertisedInv
<1>8. CASE UNCHANGED vars
  BY <1>8 DEF vars, operatorVars, historyVars, Unseen
<1>9. CASE OperatorStep
  BY <1>2, <1>3, <1>9 DEF OperatorStep
<1> QED
  BY <1>1, <1>4, <1>5, <1>6, <1>7, <1>8, <1>9 DEF Next, TimerStep, SettleStep

\* A cohort that is advertised is fresh: in no map, on no history.
LEMMA FreshIsNowhere ==
    ASSUME BookInv, NEW c \in Cohort, cause[c] = "fresh"
    PROVE  /\ c \notin advertised
           /\ c \notin Entries(endings)
           /\ c \notin terminalKeys
BY DEF BookInv, HistoryInv, IInv, AdvertisedInv, SessionInv, Rejections, TypeOK

\* The reaction to a completion takes c out of the advertised map, and files a
\* record of it if it was rejected; a full map gives up one other record.
LEMMA SettleFiles ==
    ASSUME BookInv, NEW c \in Cohort, SettleCompletion(c)
    PROVE  /\ c \in advertised /\ advertised' = advertised \ {c}
           /\ UNCHANGED <<cause, adverts, dismissedCanceled, dismissals>>
           /\ \/ /\ cause[c] = "completed"
                 /\ UNCHANGED <<terminal, endings>>
              \/ /\ cause[c] \in Rejections
                 /\ endings' = Append(endings, c)
                 /\ terminal'[c].fate \in {"expired", "canceled"}
                 /\ \A d \in Cohort \ {c} : terminal'[d] =
                        IF d \in terminalKeys' THEN terminal[d] ELSE NoRecord
                 /\ \/ /\ Cardinality(terminalKeys) < MaxTerminal
                       /\ terminalKeys' = terminalKeys \cup {c}
                    \/ /\ Cardinality(terminalKeys) = MaxTerminal
                       /\ \E d \in terminalKeys :
                             terminalKeys' = (terminalKeys \ {d}) \cup {c}
                 /\ IsFiniteSet(terminalKeys')
                 /\ Cardinality(terminalKeys') <= MaxTerminal
<1> USE DEF BookInv
<1>1. c \in advertised
  BY DEF IInv, AdvertisedInv, SettleCompletion
<1>2. /\ advertised' = advertised \ {c}
      /\ UNCHANGED <<cause, adverts, dismissedCanceled, dismissals>>
  BY DEF SettleCompletion, LeaveBook
<1>3. CASE settling[c] # "rejected"
  <2>1. cause[c] = "completed"
    BY <1>3 DEF SettleCompletion, IInv, SessionInv, TypeOK
  <2>2. UNCHANGED <<terminal, endings>>
    BY <1>3 DEF SettleCompletion
  <2> QED
    BY <1>1, <1>2, <2>1, <2>2
<1>4. CASE settling[c] = "rejected"
  <2> DEFINE record == RecordOf(intents[c], advertisedWindows[c])
             kept == Bounded(terminalKeys \cup {c}, Append(endings, c))
  <2>1. /\ terminal' = [d \in Cohort |->
                           IF d \notin kept THEN NoRecord
                           ELSE IF d = c THEN record ELSE terminal[d]]
        /\ endings' = Append(endings, c)
    BY <1>1, <1>4 DEF SettleCompletion, RememberTerminal
  <2>2. /\ record \in TerminalRecord /\ record # NoRecord
        /\ record.fate \in {"expired", "canceled"}
    <3>1. /\ intents[c] \in Intents \cup {"none"}
          /\ advertisedWindows[c] \in Windows
      BY <1>1 DEF IInv, TypeOK, AdvertisedInv
    <3> QED
      BY <3>1, RecordOfIntent DEF TerminalRecord
  <2>3. /\ c \notin Entries(endings) /\ endings \in Seq(Cohort)
        /\ OnceEach(endings) /\ terminalKeys \subseteq Entries(endings)
        /\ IsFiniteSet(terminalKeys) /\ Cardinality(terminalKeys) <= MaxTerminal
    BY <1>1 DEF HistoryInv, CapacityInv, IInv, TypeOK
  <2>4. /\ \/ Cardinality(terminalKeys) < MaxTerminal /\ kept = terminalKeys \cup {c}
           \/ /\ Cardinality(terminalKeys) = MaxTerminal
              /\ \E d \in terminalKeys : kept = (terminalKeys \ {d}) \cup {c}
        /\ c \in kept
        /\ IsFiniteSet(kept)
        /\ Cardinality(kept) <= MaxTerminal
    BY <2>3, BoundedAdd
  <2>5. cause[c] \in Rejections
    BY <1>4 DEF IInv, SessionInv
  <2>6. kept \subseteq terminalKeys \cup {c}
    BY BoundedSubset
  <2> HIDE DEF record, kept
  <2>7. \A d \in Cohort : terminal'[d] # NoRecord <=> d \in kept
    BY <2>1, <2>2, <2>6 DEF terminalKeys
  <2>8. terminalKeys' = kept
    BY <2>6, <2>7 DEF terminalKeys
  <2>9. terminal'[c] = record
    BY <2>1, <2>4
  <2> QED
    BY <1>1, <1>2, <2>1, <2>2, <2>4, <2>5, <2>8, <2>9
<1> QED
  BY <1>3, <1>4

\* A dismissal deletes the record and carries a canceled fate; a full carry
\* gives up one other.
LEMMA ForgetCarries ==
    ASSUME BookInv, NEW c \in Cohort, ForgetTerminal(c)
    PROVE  /\ c \in terminalKeys
           /\ terminal' = [terminal EXCEPT ![c] = NoRecord]
           /\ terminalKeys' = terminalKeys \ {c}
           /\ UNCHANGED <<advertised, adverts, endings, cause>>
           /\ \/ /\ terminal[c].fate = "expired"
                 /\ UNCHANGED <<dismissedCanceled, dismissals>>
              \/ /\ terminal[c].fate = "canceled"
                 /\ c \notin Entries(dismissals)
                 /\ dismissals' = Append(dismissals, c)
                 /\ \/ /\ Cardinality(dismissedCanceled) < MaxTerminal
                       /\ dismissedCanceled' = dismissedCanceled \cup {c}
                    \/ /\ Cardinality(dismissedCanceled) = MaxTerminal
                       /\ \E d \in dismissedCanceled :
                             dismissedCanceled' = (dismissedCanceled \ {d}) \cup {c}
                 /\ IsFiniteSet(dismissedCanceled')
                 /\ Cardinality(dismissedCanceled') <= MaxTerminal
<1> USE DEF BookInv
<1>1. /\ c \in terminalKeys
      /\ terminal' = [terminal EXCEPT ![c] = NoRecord]
      /\ UNCHANGED <<advertised, adverts, endings, cause>>
  BY DEF ForgetTerminal
<1>2. terminalKeys' = terminalKeys \ {c}
  BY <1>1 DEF terminalKeys, IInv, TypeOK
<1>3. terminal[c] \in TerminalRecord
  BY <1>1 DEF terminalKeys, IInv, TypeOK
<1>4. CASE terminal[c].fate # "canceled"
  <2>1. terminal[c].fate = "expired"
    BY <1>3, <1>4 DEF TerminalRecord
  <2>2. UNCHANGED <<dismissedCanceled, dismissals>>
    BY <1>4 DEF ForgetTerminal, CarryFate
  <2> QED
    BY <1>1, <1>2, <2>1, <2>2
<1>5. CASE terminal[c].fate = "canceled"
  <2>1. /\ dismissals' = Append(dismissals, c)
        /\ dismissedCanceled' = Bounded(dismissedCanceled \cup {c}, dismissals')
    BY <1>5 DEF ForgetTerminal, CarryFate
  <2>2. /\ c \notin Entries(dismissals) /\ dismissals \in Seq(Cohort)
        /\ OnceEach(dismissals)
        /\ dismissedCanceled \subseteq Entries(dismissals)
        /\ IsFiniteSet(dismissedCanceled)
        /\ Cardinality(dismissedCanceled) <= MaxTerminal
    BY <1>1 DEF terminalKeys, HistoryInv, CapacityInv, IInv, TypeOK
  <2>3. /\ \/ /\ Cardinality(dismissedCanceled) < MaxTerminal
              /\ dismissedCanceled' = dismissedCanceled \cup {c}
           \/ /\ Cardinality(dismissedCanceled) = MaxTerminal
              /\ \E d \in dismissedCanceled :
                    dismissedCanceled' = (dismissedCanceled \ {d}) \cup {c}
        /\ IsFiniteSet(dismissedCanceled')
        /\ Cardinality(dismissedCanceled') <= MaxTerminal
    BY <2>1, <2>2, BoundedAdd
  <2> QED
    BY <1>1, <1>2, <1>5, <2>1, <2>2, <2>3
<1> QED
  BY <1>4, <1>5

-----------------------------------------------------------------------------
(* Their invariant *)

LEMMA InitBookInv == Init => BookInv
<1> SUFFICES ASSUME Init PROVE HistoryInv /\ CapacityInv
  BY InitIInv DEF BookInv
<1>1. terminalKeys = {} /\ dismissedCanceled = {}
  BY DEF Init, terminalKeys
<1>2. IsFiniteSet({}) /\ Cardinality({}) = 0
  BY FS_EmptySet
<1>3. CapacityInv
  BY <1>1, <1>2, CapAssumption DEF CapacityInv
<1>4. HistoryInv
  BY <1>1 DEF Init, HistoryInv, Entries, OnceEach
<1> QED
  BY <1>3, <1>4

\* Appending a new name to a history.
LEMMA AppendOnce ==
    ASSUME NEW order \in Seq(Cohort), OnceEach(order),
           NEW c \in Cohort, c \notin Entries(order)
    PROVE  /\ OnceEach(Append(order, c))
           /\ Entries(Append(order, c)) = Entries(order) \cup {c}
<1> DEFINE longer == Append(order, c)
<1>1. /\ longer \in Seq(Cohort)
      /\ \A i \in DOMAIN longer :
            longer[i] = IF i \in DOMAIN order THEN order[i] ELSE c
      /\ DOMAIN longer = DOMAIN order \cup {Len(order) + 1}
      /\ Len(order) + 1 \notin DOMAIN order
  OBVIOUS
<1> HIDE DEF longer
<1>2. Entries(longer) = Entries(order) \cup {c}
  BY <1>1 DEF Entries
<1>3. OnceEach(longer)
  BY <1>1 DEF OnceEach, Entries
<1> QED
  BY <1>2, <1>3 DEF longer

LEMMA NextBookInv == BookInv /\ [Next]_vars => BookInv'
<1> SUFFICES ASSUME BookInv, [Next]_vars PROVE HistoryInv' /\ CapacityInv'
  BY NextIInv DEF BookInv
<1> USE DEF BookInv
<1>1. CASE Unseen
  BY <1>1 DEF Unseen, HistoryInv, CapacityInv, terminalKeys, IInv, TypeOK, Entries
<1>2. ASSUME NEW c \in Cohort, NEW w, Advertise(c, w),
             terminal' \in [Cohort -> TerminalRecord \cup {NoRecord}],
             \A d \in Cohort : terminal'[d] \in {terminal[d], NoRecord}
      PROVE  HistoryInv' /\ CapacityInv'
  <2>1. terminalKeys' \subseteq terminalKeys
    BY <1>2 DEF terminalKeys
  <2>2. CapacityInv'
    <3>1. /\ IsFiniteSet(terminalKeys') /\ Cardinality(terminalKeys') \in Nat
          /\ Cardinality(terminalKeys') <= Cardinality(terminalKeys)
          /\ Cardinality(terminalKeys) \in Nat
      BY <2>1, FS_Subset, FS_CardinalityType DEF CapacityInv
    <3> QED
      BY <1>2, <3>1, CapAssumption DEF CapacityInv, Advertise
  <2>3. c \notin Entries(endings)
    BY <1>2, FreshIsNowhere DEF Advertise
  <2>4. HistoryInv'
    BY <1>2, <2>1, <2>3 DEF HistoryInv, Advertise, IInv, TypeOK, Entries
  <2> QED
    BY <2>2, <2>4
<1>3. ASSUME NEW d \in Draft, NEW c \in Cohort, AdvertiseDraft(d, c)
      PROVE  HistoryInv' /\ CapacityInv'
  BY <1>2, <1>3 DEF AdvertiseDraft, IInv, TypeOK
<1>4. ASSUME NEW old \in Cohort, NEW c \in Cohort, ReadvertiseExpired(old, c)
      PROVE  HistoryInv' /\ CapacityInv'
  <2>1. /\ terminal' \in [Cohort -> TerminalRecord \cup {NoRecord}]
        /\ \A d \in Cohort : terminal'[d] \in {terminal[d], NoRecord}
    BY <1>4 DEF ReadvertiseExpired, IInv, TypeOK
  <2> QED
    BY <1>2, <1>4, <2>1 DEF ReadvertiseExpired
<1>5. ASSUME NEW c \in Cohort, SettleCompletion(c)
      PROVE  HistoryInv' /\ CapacityInv'
  <2> DEFINE files ==
          /\ cause[c] \in Rejections
          /\ endings' = Append(endings, c)
          /\ \A d \in Cohort \ {c} : terminal'[d] =
                 IF d \in terminalKeys' THEN terminal[d] ELSE NoRecord
          /\ terminalKeys' \subseteq terminalKeys \cup {c}
          /\ IsFiniteSet(terminalKeys')
          /\ Cardinality(terminalKeys') <= MaxTerminal
  <2>1. /\ c \in advertised /\ advertised' = advertised \ {c}
        /\ UNCHANGED <<cause, adverts, dismissedCanceled, dismissals>>
        /\ \/ cause[c] = "completed" /\ UNCHANGED <<terminal, endings>>
           \/ files
    BY <1>5, SettleFiles
  <2>2. CASE UNCHANGED <<terminal, endings>>
    BY <2>1, <2>2 DEF HistoryInv, CapacityInv, terminalKeys, Entries
  <2>3. CASE files
    <3>1. c \notin Entries(endings) /\ endings \in Seq(Cohort)
      BY <2>1 DEF HistoryInv, IInv, TypeOK
    <3>2. OnceEach(endings') /\ Entries(endings') = Entries(endings) \cup {c}
      BY <2>3, <3>1, AppendOnce DEF HistoryInv
    <3>3. \A d \in Entries(dismissals) : d # c /\ d \in Cohort
      BY <3>1 DEF HistoryInv, IInv, TypeOK, Entries
    <3>4. HistoryInv'
      <4>1. \A d \in Entries(dismissals') : terminal'[d] = NoRecord
        BY <2>1, <2>3, <3>3 DEF HistoryInv
      <4>2. \A d \in Entries(endings') : d \notin advertised' /\ cause'[d] # "fresh"
        BY <2>1, <2>3, <3>2 DEF HistoryInv, Rejections
      <4> QED
        BY <2>1, <2>3, <3>2, <4>1, <4>2 DEF HistoryInv
    <3>5. CapacityInv'
      BY <2>1, <2>3 DEF CapacityInv
    <3> QED
      BY <3>4, <3>5
  <2> QED
    BY <2>1, <2>2, <2>3
<1>6. ASSUME NEW c \in Cohort, ForgetTerminal(c)
      PROVE  HistoryInv' /\ CapacityInv'
  <2> DEFINE carries ==
          /\ c \notin Entries(dismissals)
          /\ dismissals' = Append(dismissals, c)
          /\ dismissedCanceled' \subseteq dismissedCanceled \cup {c}
          /\ IsFiniteSet(dismissedCanceled')
          /\ Cardinality(dismissedCanceled') <= MaxTerminal
  <2>1. /\ c \in terminalKeys
        /\ terminal' = [terminal EXCEPT ![c] = NoRecord]
        /\ terminalKeys' = terminalKeys \ {c}
        /\ UNCHANGED <<advertised, adverts, endings, cause>>
        /\ \/ UNCHANGED <<dismissedCanceled, dismissals>>
           \/ carries
    BY <1>6, ForgetCarries
  <2>2. IsFiniteSet(terminalKeys') /\ Cardinality(terminalKeys') <= MaxTerminal
    <3>1. /\ IsFiniteSet(terminalKeys') /\ Cardinality(terminalKeys') \in Nat
          /\ Cardinality(terminalKeys') <= Cardinality(terminalKeys)
          /\ Cardinality(terminalKeys) \in Nat
      BY <2>1, FS_Subset, FS_CardinalityType DEF CapacityInv
    <3> QED
      BY <3>1, CapAssumption DEF CapacityInv
  <2>3. \A d \in Cohort : terminal[d] = NoRecord \/ d = c => terminal'[d] = NoRecord
    BY <2>1 DEF IInv, TypeOK
  <2>4. CASE UNCHANGED <<dismissedCanceled, dismissals>>
    BY <2>1, <2>2, <2>3, <2>4 DEF HistoryInv, CapacityInv, IInv, TypeOK, Entries
  <2>5. CASE carries
    <3>1. /\ OnceEach(dismissals')
          /\ Entries(dismissals') = Entries(dismissals) \cup {c}
      BY <2>5, AppendOnce DEF HistoryInv, IInv, TypeOK
    <3>2. \A d \in Entries(dismissals') : d \in Cohort
      <4>1. \A d \in Entries(dismissals) : d \in Cohort
        BY DEF Entries, IInv, TypeOK
      <4> QED
        BY <3>1, <4>1
    <3>3. HistoryInv'
      BY <2>1, <2>3, <2>5, <3>1, <3>2 DEF HistoryInv
    <3> QED
      BY <2>1, <2>2, <2>5, <3>3 DEF CapacityInv
  <2> QED
    BY <2>1, <2>4, <2>5
<1> QED
  BY <1>1, <1>3, <1>4, <1>5, <1>6, StepKinds

\* The book's bounded maps, their histories and the phases tell one story in
\* every state (rememberTerminal, forgetTerminal, settleCompletion).
THEOREM BookInvariant == Spec => []BookInv
  BY InitBookInv, NextBookInv, PTL DEF Spec

-----------------------------------------------------------------------------
(* The refinement *)

\* The state a cohort has in the ledger, case by case: one with a record has
\* left the map, and a fresh one was in neither.
StatesByCase ==
    \A c \in Cohort :
        /\ cause[c] \in {"fresh", "completed"} \cup Rejections \/ c \in advertised
        /\ c \in advertised => LedgerState(c) = "live" /\ c \notin terminalKeys
        /\ c \in terminalKeys =>
              /\ LedgerState(c) = terminal[c].fate
              /\ terminal[c].fate \in {"expired", "canceled"}
              /\ cause[c] \in Rejections
        /\ cause[c] = "fresh" => LedgerState(c) = "unknown"
        /\ cause[c] = "completed" /\ c \notin advertised => LedgerState(c) = "completed"
        /\ cause[c] \in Rejections /\ c \notin advertised /\ c \notin terminalKeys
              => LedgerState(c) = "gone"

LEMMA LedgerStates == IInv => StatesByCase
<1> SUFFICES ASSUME IInv PROVE StatesByCase
  OBVIOUS
<1>1. ASSUME NEW c \in Cohort, c \in terminalKeys
      PROVE  /\ c \notin advertised
             /\ terminal[c].fate \in {"expired", "canceled"}
             /\ cause[c] \in Rejections
  BY <1>1 DEF terminalKeys, IInv, RecordInv, TypeOK, TerminalRecord, Rejections
<1>2. ASSUME NEW c \in Cohort
      PROVE  /\ c \in advertised => cause[c] # "fresh"
             /\ cause[c] \in {"fresh", "completed"} \cup Rejections \/ c \in advertised
  BY DEF IInv, AdvertisedInv, SessionInv, TypeOK, Rejections, Causes
<1> QED
  BY <1>1, <1>2 DEF StatesByCase, LedgerState, Rejections

\* A record is filed under one of the two fates of the ledger, so the ledger's
\* filed cohorts are those with a record.
LEMMA FiledAreRecorded ==
    ASSUME IInv
    PROVE  Ledger!Filed = terminalKeys
BY LedgerStates DEF StatesByCase, Ledger!Filed, terminalKeys

\* The ledger's state under the mapping.
Ledgers == [c \in Cohort |-> LedgerState(c)]

LEMMA InitRefines == Init => Ledger!Init
<1> SUFFICES ASSUME Init PROVE Ledger!Init
  OBVIOUS
<1>1. \A c \in Cohort : LedgerState(c) = "unknown"
  BY DEF Init, LedgerState, terminalKeys
<1> QED
  BY <1>1 DEF Init, Ledger!Init

\* What the maps do not see, the ledger does not see.
LEMMA UnseenStutters ==
    ASSUME IInv, Unseen
    PROVE  UNCHANGED <<Ledgers, dismissedCanceled>>
<1>1. ASSUME NEW c \in Cohort
      PROVE  LedgerState(c)' = LedgerState(c)
  BY DEF Unseen, LedgerState, terminalKeys
<1> QED
  BY <1>1 DEF Unseen, Ledgers

\* An advertise opens a cohort; a re-advertise reopens a filed one under a new id.
LEMMA AdvertiseOpens ==
    ASSUME BookInv, BookInv', NEW d \in Draft, NEW c \in Cohort, AdvertiseDraft(d, c)
    PROVE  Ledger!Next
<1>1. StatesByCase /\ StatesByCase'
  <2>1. IInv' => StatesByCase'
    BY LedgerStates, PTL
  <2> QED
    BY <2>1, LedgerStates DEF BookInv
<1>2. /\ advertised' = advertised \cup {c} /\ cause' = [cause EXCEPT ![c] = "live"]
      /\ cause[c] = "fresh" /\ cause \in [Cohort -> Causes]
      /\ UNCHANGED <<terminal, dismissedCanceled>>
  BY DEF AdvertiseDraft, Advertise, BookInv, IInv, TypeOK
<1>3. ASSUME NEW k \in Cohort
      PROVE  Ledgers'[k] = IF k = c THEN "live" ELSE Ledgers[k]
  BY <1>1, <1>2 DEF StatesByCase, terminalKeys, Ledgers
<1>4. Ledgers' = [Ledgers EXCEPT ![c] = "live"] /\ Ledgers[c] = "unknown"
  BY <1>1, <1>2, <1>3 DEF Ledgers, StatesByCase
<1>5. Ledger!Open(c)
  BY <1>2, <1>4 DEF Ledger!Open, Ledgers
<1> QED
  BY <1>5 DEF Ledger!Next

LEMMA ReadvertiseReopens ==
    ASSUME BookInv, BookInv', NEW old \in Cohort, NEW c \in Cohort,
           ReadvertiseExpired(old, c)
    PROVE  Ledger!Next
<1>1. StatesByCase /\ StatesByCase'
  <2>1. IInv' => StatesByCase'
    BY LedgerStates, PTL
  <2> QED
    BY <2>1, LedgerStates DEF BookInv
<1>2. /\ advertised' = advertised \cup {c} /\ cause' = [cause EXCEPT ![c] = "live"]
      /\ cause[c] = "fresh" /\ cause \in [Cohort -> Causes]
      /\ terminal' = [terminal EXCEPT ![old] = NoRecord]
      /\ old \in terminalKeys
      /\ UNCHANGED dismissedCanceled
  BY DEF ReadvertiseExpired, Advertise, BookInv, IInv, TypeOK
<1>3. terminalKeys' = terminalKeys \ {old}
  BY <1>2 DEF terminalKeys, BookInv, IInv, TypeOK
<1>4. old # c
  BY <1>1, <1>2 DEF StatesByCase, Rejections
<1>5. ASSUME NEW k \in Cohort
      PROVE  Ledgers'[k] = IF k = c THEN "live" ELSE IF k = old THEN "gone" ELSE Ledgers[k]
  <2>1. CASE k = c
    BY <1>1, <1>2, <2>1 DEF StatesByCase, Ledgers
  <2>2. CASE k = old
    <3>1. k \notin advertised' /\ k \notin terminalKeys' /\ cause'[k] \in Rejections
      BY <1>1, <1>2, <1>3, <1>4, <2>2 DEF StatesByCase
    <3> QED
      BY <1>1, <1>4, <2>2, <3>1 DEF StatesByCase, Ledgers
  <2>3. CASE k # c /\ k # old
    <3>1. terminal'[k] = terminal[k]
      BY <1>2, <2>3 DEF BookInv, IInv, TypeOK
    <3> QED
      BY <1>1, <1>2, <1>3, <2>3, <3>1 DEF StatesByCase, Ledgers
  <2> QED
    BY <2>1, <2>2, <2>3
<1>6. Ledgers' = [Ledgers EXCEPT ![old] = "gone", ![c] = "live"] /\ Ledgers[c] = "unknown"
  BY <1>1, <1>2, <1>4, <1>5 DEF Ledgers, StatesByCase
<1>7. old \in Ledger!Filed
  BY <1>2, FiledAreRecorded DEF BookInv
<1>8. Ledger!Reopen(old, c)
  BY <1>2, <1>6, <1>7 DEF Ledger!Reopen, Ledgers
<1> QED
  BY <1>8 DEF Ledger!Next

\* The ledger counts as the book counts: its Cardinality is that of FiniteSets.
LEMMA SameCount ==
    ASSUME NEW S
    PROVE  Ledger!Cardinality(S) = Cardinality(S)
BY DEF Ledger!Cardinality, Cardinality

\* A reaction closes the cohort: a completion is kept, a rejection filed.
LEMMA SettleCloses ==
    ASSUME BookInv, BookInv', NEW c \in Cohort, SettleCompletion(c)
    PROVE  Ledger!Next
<1>1. StatesByCase /\ StatesByCase'
  <2>1. IInv' => StatesByCase'
    BY LedgerStates, PTL
  <2> QED
    BY <2>1, LedgerStates DEF BookInv
<1>2. /\ c \in advertised /\ advertised' = advertised \ {c}
      /\ UNCHANGED <<cause, dismissedCanceled>>
      /\ Ledgers[c] = "live"
  BY <1>1, SettleFiles DEF StatesByCase, Ledgers
<1>3. CASE cause[c] = "completed"
  <2>1. UNCHANGED terminal
    BY <1>3, SettleFiles DEF Rejections
  <2>2. ASSUME NEW k \in Cohort
        PROVE  Ledgers'[k] = IF k = c THEN "completed" ELSE Ledgers[k]
    BY <1>1, <1>2, <1>3, <2>1 DEF StatesByCase, terminalKeys, Ledgers
  <2>3. Ledgers' = [Ledgers EXCEPT ![c] = "completed"]
    BY <2>2 DEF Ledgers
  <2>4. Ledger!Complete(c)
    BY <1>2, <2>3 DEF Ledger!Complete, Ledgers
  <2> QED
    BY <2>4 DEF Ledger!Next
<1>4. CASE cause[c] \in Rejections
  <2> DEFINE fate == terminal'[c].fate
  <2>1. /\ fate \in {"expired", "canceled"}
        /\ \A d \in Cohort \ {c} : terminal'[d] =
               IF d \in terminalKeys' THEN terminal[d] ELSE NoRecord
        /\ \/ /\ Cardinality(terminalKeys) < MaxTerminal
              /\ terminalKeys' = terminalKeys \cup {c}
           \/ /\ Cardinality(terminalKeys) = MaxTerminal
              /\ \E d \in terminalKeys :
                    terminalKeys' = (terminalKeys \ {d}) \cup {c}
    BY <1>4, SettleFiles DEF Rejections
  <2> HIDE DEF fate
  <2>2. ASSUME NEW k \in Cohort
        PROVE  /\ k = c => Ledgers'[k] = fate
               /\ k # c /\ (k \in terminalKeys <=> k \in terminalKeys')
                    => Ledgers'[k] = Ledgers[k]
               /\ k # c /\ k \in terminalKeys /\ k \notin terminalKeys'
                    => Ledgers'[k] = "gone"
    <3>1. c \in terminalKeys'
      BY <2>1
    <3>2. k # c /\ k \in terminalKeys' => terminal'[k] = terminal[k]
      BY <2>1
    <3>3. k \in terminalKeys => k \notin advertised'
      BY <1>1, <1>2 DEF StatesByCase
    <3> QED
      BY <1>1, <1>2, <3>1, <3>2, <3>3 DEF StatesByCase, Ledgers, fate
  <2>3. Ledger!Filed = terminalKeys /\ c \notin terminalKeys
    BY <1>1, <1>2, FiledAreRecorded DEF BookInv, StatesByCase
  <2>4. CASE /\ Cardinality(terminalKeys) < MaxTerminal
             /\ terminalKeys' = terminalKeys \cup {c}
    <3>1. Ledgers' = [Ledgers EXCEPT ![c] = fate]
      BY <2>2, <2>4 DEF Ledgers
    <3>2. Ledger!File(c, fate)
      BY <1>2, <2>3, <2>4, <3>1, SameCount DEF Ledger!File, Ledgers
    <3> QED
      BY <2>1, <3>2 DEF Ledger!Next
  <2>5. CASE /\ Cardinality(terminalKeys) = MaxTerminal
             /\ \E d \in terminalKeys :
                   terminalKeys' = (terminalKeys \ {d}) \cup {c}
    <3>1. PICK d \in terminalKeys : terminalKeys' = (terminalKeys \ {d}) \cup {c}
      BY <2>5
    <3>2. d # c /\ d \in Cohort
      BY <2>3 DEF terminalKeys
    <3>3. Ledgers' = [Ledgers EXCEPT ![c] = fate, ![d] = "gone"]
      BY <2>2, <3>1, <3>2 DEF Ledgers
    <3>4. Ledger!File(c, fate)
      BY <1>2, <2>3, <2>5, <3>1, <3>3, SameCount DEF Ledger!File, Ledgers
    <3> QED
      BY <2>1, <3>4 DEF Ledger!Next
  <2> QED
    BY <2>1, <2>4, <2>5
<1> QED
  BY <1>3, <1>4, SettleFiles

\* A dismissal forgets a filed cohort, and goes on telling of a canceled one.
LEMMA DismissalForgets ==
    ASSUME BookInv, BookInv', NEW c \in Cohort, ForgetTerminal(c)
    PROVE  Ledger!Next
<1>1. StatesByCase /\ StatesByCase'
  <2>1. IInv' => StatesByCase'
    BY LedgerStates, PTL
  <2> QED
    BY <2>1, LedgerStates DEF BookInv
<1>2. /\ c \in terminalKeys
      /\ terminal' = [terminal EXCEPT ![c] = NoRecord]
      /\ terminalKeys' = terminalKeys \ {c}
      /\ UNCHANGED <<advertised, cause>>
  BY ForgetCarries
<1>3. ASSUME NEW k \in Cohort
      PROVE  Ledgers'[k] = IF k = c THEN "gone" ELSE Ledgers[k]
  <2>1. k # c => terminal'[k] = terminal[k]
    BY <1>2 DEF BookInv, IInv, TypeOK
  <2> QED
    BY <1>1, <1>2, <2>1 DEF StatesByCase, Ledgers
<1>4. Ledgers' = [Ledgers EXCEPT ![c] = "gone"]
  BY <1>3 DEF Ledgers
<1>5. c \in Ledger!Filed /\ Ledgers[c] = terminal[c].fate
  BY <1>1, <1>2, FiledAreRecorded DEF BookInv, StatesByCase, Ledgers
<1>6. \/ terminal[c].fate = "expired" /\ UNCHANGED dismissedCanceled
      \/ /\ terminal[c].fate = "canceled"
         /\ \/ /\ Cardinality(dismissedCanceled) < MaxTerminal
               /\ dismissedCanceled' = dismissedCanceled \cup {c}
            \/ /\ Cardinality(dismissedCanceled) = MaxTerminal
               /\ \E d \in dismissedCanceled :
                     dismissedCanceled' = (dismissedCanceled \ {d}) \cup {c}
  BY ForgetCarries
<1>7. Ledger!Forget(c)
  BY <1>4, <1>5, <1>6, SameCount DEF Ledger!Forget, Ledgers
<1> QED
  BY <1>7 DEF Ledger!Next

\* The book implements the ledger: every step of the event loop is a step of
\* the ledger or invisible to it (settleCompletion, rememberTerminal,
\* forgetTerminal, readvertiseExpired).
THEOREM BookImplementsLedger == Spec => ImplementsLedger
<1>1. BookInv /\ BookInv' /\ [Next]_vars => [Ledger!Next]_<<Ledgers, dismissedCanceled>>
  <2> SUFFICES ASSUME BookInv, BookInv', [Next]_vars
               PROVE  Ledger!Next \/ UNCHANGED <<Ledgers, dismissedCanceled>>
    OBVIOUS
  <2> QED
    BY StepKinds, UnseenStutters, AdvertiseOpens, ReadvertiseReopens,
       SettleCloses, DismissalForgets DEF BookInv
<1> QED
  BY <1>1, InitRefines, BookInvariant, PTL
  DEF Spec, ImplementsLedger, Ledger!Spec, Ledgers

\* Nobody's answer is taken back by a dismissal of their own row, by a repair, a
\* pause or a shutdown: only by a re-advertise of that very cohort, or because
\* a map at its capacity filed another (cohortFate, forgetTerminal).
THEOREM AnswersAreKept == Spec => FateRetraction
<1> DEFINE Kept ==
      \A c \in Cohort :
            cohortFate(c) /\ ~cohortFate(c)' =>
                \/ adverts' # adverts /\ terminal[c].fate = "canceled"
                       /\ terminal'[c] = NoRecord
                \/ dismissals' # dismissals /\ c \in dismissedCanceled
                       /\ Cardinality(dismissedCanceled) = MaxTerminal
                \/ endings' # endings
                       /\ Cardinality(terminalKeys) = MaxTerminal
<1>1. BookInv /\ [Next]_vars => [Kept]_vars
  <2> SUFFICES ASSUME BookInv, [Next]_vars, NEW k \in Cohort,
                      cohortFate(k), ~cohortFate(k)'
               PROVE  \/ adverts' # adverts /\ terminal[k].fate = "canceled"
                             /\ terminal'[k] = NoRecord
                      \/ dismissals' # dismissals /\ k \in dismissedCanceled
                             /\ Cardinality(dismissedCanceled) = MaxTerminal
                      \/ endings' # endings
                             /\ Cardinality(terminalKeys) = MaxTerminal
    OBVIOUS
  <2>0. /\ adverts \in Seq(Cohort) /\ endings \in Seq(Cohort)
        /\ dismissals \in Seq(Cohort)
        /\ terminal[k].fate = "canceled" => k \in terminalKeys
    BY DEF BookInv, IInv, TypeOK, terminalKeys, NoRecord
  <2>1. CASE Unseen
    BY <2>1 DEF Unseen, cohortFate
  <2>2. ASSUME NEW d \in Draft, NEW c \in Cohort, AdvertiseDraft(d, c)
        PROVE  FALSE
    BY <2>2 DEF AdvertiseDraft, Advertise, cohortFate
  <2>3. ASSUME NEW old \in Cohort, NEW c \in Cohort, ReadvertiseExpired(old, c)
        PROVE  /\ adverts' # adverts /\ terminal[k].fate = "canceled"
               /\ terminal'[k] = NoRecord
    <3>1. /\ adverts' = Append(adverts, c) /\ UNCHANGED dismissedCanceled
          /\ terminal' = [terminal EXCEPT ![old] = NoRecord]
      BY <2>3 DEF ReadvertiseExpired, Advertise
    <3>2. Len(adverts') = Len(adverts) + 1
      BY <2>0, <3>1
    <3> QED
      BY <2>0, <3>1, <3>2 DEF cohortFate, BookInv, IInv, TypeOK
  <2>4. ASSUME NEW c \in Cohort, SettleCompletion(c)
        PROVE  /\ endings' # endings
               /\ Cardinality(terminalKeys) = MaxTerminal
    <3>1. /\ terminal[k].fate = "canceled"
          /\ terminal'[k].fate # "canceled"
          /\ k # c
      BY <2>0, <2>4, SettleFiles, LedgerStates DEF cohortFate, BookInv, StatesByCase
    <3>2. /\ endings' = Append(endings, c)
          /\ k \notin terminalKeys'
      BY <2>4, <3>1, SettleFiles
    <3>3. terminalKeys' # terminalKeys \cup {c}
      BY <2>0, <3>1, <3>2
    <3>4. Len(endings') = Len(endings) + 1
      BY <2>0, <3>2
    <3>5. Cardinality(terminalKeys) = MaxTerminal
      BY <2>4, <3>1, <3>3, SettleFiles
    <3> QED
      BY <3>4, <3>5
  <2>5. ASSUME NEW c \in Cohort, ForgetTerminal(c)
        PROVE  /\ dismissals' # dismissals /\ k \in dismissedCanceled
               /\ Cardinality(dismissedCanceled) = MaxTerminal
    <3>1. terminal' = [terminal EXCEPT ![c] = NoRecord]
      BY <2>5, ForgetCarries
    <3>2. k # c => terminal'[k] = terminal[k]
      BY <3>1 DEF BookInv, IInv, TypeOK
    <3>3. k \notin dismissedCanceled'
      BY DEF cohortFate
    <3>4. terminal[c].fate = "canceled" => c \in dismissedCanceled'
      BY <2>5, ForgetCarries
    <3>5. k \in dismissedCanceled
      BY <3>2, <3>3, <3>4 DEF cohortFate
    <3>6. /\ dismissals' = Append(dismissals, c)
          /\ Cardinality(dismissedCanceled) = MaxTerminal
      BY <2>5, <3>3, <3>5, ForgetCarries
    <3>7. Len(dismissals') = Len(dismissals) + 1
      BY <2>0, <3>6
    <3> QED
      BY <3>5, <3>6, <3>7
  <2> QED
    BY <2>1, <2>2, <2>3, <2>4, <2>5, StepKinds DEF BookInv, Unseen, cohortFate
<1> QED
  BY <1>1, BookInvariant, PTL DEF Spec, FateRetraction

-----------------------------------------------------------------------------
(* The operator's list: the book and the monitor, joined *)

Chips == {"co-signed", "co-signed-fallback", "anchored", "fallback", "canceled", "failed"}

LiveEntry == [id : Cohort, fellBack : BOOLEAN]
EndedRecord == [id : Cohort, chip : Chips, viaFallback : BOOLEAN]
AnchorEntry == [id : Cohort, state : {"broadcast", "confirmed", "failed"}]

\* The monitor's maps and the anchor fold hold entries of cohorts, within their
\* bounds, and of each cohort at most one ended record.
MapsInv ==
    /\ entries \in Seq(LiveEntry) /\ Len(entries) <= MaxMonitored
    /\ ended \in Seq(EndedRecord) /\ Len(ended) <= MaxEnded
    /\ anchors \in Seq(AnchorEntry) /\ Len(anchors) <= MaxTerminal
    /\ Distinct(ended)

\* What the list adds to the book, typed.
WatchInv ==
    /\ watching \subseteq Cohort
    /\ lastView \in [Cohort -> FundingStates \cup {"none"}]
    /\ tx \in [Cohort -> TxStates]
    /\ fell \subseteq Cohort /\ gone \subseteq Cohort

\* A cohort that fell back is in FallbackRequested until it ends; only a completed
\* cohort has a transaction, and only one that has ended had a record to give up.
PathInv ==
    \A c \in Cohort :
        /\ phase[c] = "FallbackRequested" => c \in fell
        /\ c \in fell => phase[c] \in {"FallbackRequested", NoPhase} /\ cause[c] # "fresh"
        /\ tx[c] # "none" => cause[c] = "completed"
        /\ c \in gone => cause[c] \notin {"fresh", "live"}

\* An entry is marked only if its cohort fell back, and a frame was heard only of
\* a transaction.
MarksInv ==
    /\ \A i \in DOMAIN entries : entries[i].fellBack => entries[i].id \in fell
    /\ \A i \in DOMAIN anchors : tx[anchors[i].id] # "none"

\* What a record says of cohort c.
RecordSays(c, chip, via) ==
    /\ chip = "failed" => cause[c] = "failed" \/ tx[c] = "failed"
    /\ chip = "canceled" => cause[c] = "canceled"
    /\ chip \in {"co-signed", "co-signed-fallback"} =>
          cause[c] = "completed" /\ tx[c] \notin {"confirmed", "failed"} /\ c \notin gone
    /\ chip = "co-signed" => ~via /\ c \notin fell
    /\ chip = "co-signed-fallback" => via /\ c \in fell
    /\ chip \in {"anchored", "fallback"} => tx[c] = "confirmed"
    /\ chip = "fallback" => c \in fell
    /\ chip = "anchored" => c \notin fell \/ c \in gone

\* Each record says what happened to its cohort, and a cohort whose end the monitor
\* heard of has one until it is given up.
EndedInv ==
    /\ \A i \in DOMAIN ended : RecordSays(ended[i].id, ended[i].chip, ended[i].viaFallback)
    /\ \A c \in Cohort :
          cause[c] \in {"completed", "failed", "canceled"} => c \in Keys(ended) \cup gone

ListInv == BookInv /\ MapsInv /\ WatchInv /\ PathInv /\ MarksInv /\ EndedInv

-----------------------------------------------------------------------------
(* The steps of the list, seen from the book *)

\* Every step of the list is one of the book's, or leaves it alone.
LEMMA ListStepsBook == ListNext => [Next]_vars
<1>1. BookStep => [Next]_vars
  BY DEF BookStep, Next, OperatorStep
<1>2. Stop => [Next]_vars
  BY DEF Stop, Next
<1>3. ASSUME NEW c \in Cohort, NEW p \in DISPLAY_PHASES, NEW live \in BOOLEAN,
             Advance(c, p, live)
      PROVE  [Next]_vars
  BY <1>3 DEF Advance, Next, RunnerStep
<1>4. ASSUME NEW c \in Cohort, NEW extracts \in BOOLEAN, Complete(c, extracts)
      PROVE  [Next]_vars
  BY <1>4 DEF Complete, Next, RunnerStep
<1>5. ASSUME NEW c \in Cohort, Fail(c)
      PROVE  [Next]_vars
  BY <1>5 DEF Fail, Next, RunnerStep
<1>6. ASSUME NEW c \in Cohort,
             \/ CohortEvent(c) \/ \E s \in WatchStates : WatchReports(c, s)
             \/ BroadcastFrame(c) \/ FailedFrame(c)
             \/ \E confirmed \in BOOLEAN : AnchoredFrame(c, confirmed)
      PROVE  UNCHANGED vars
  BY <1>6 DEF CohortEvent, WatchReports, BroadcastFrame, FailedFrame, AnchoredFrame, Frame
<1>7. ASSUME NEW c \in Cohort, Cancel(c) \/ Finalize(c)
      PROVE  [Next]_vars
  BY <1>7 DEF Cancel, Finalize, Next, OperatorStep
<1>8. ASSUME NEW c \in Cohort, Dismiss(c)
      PROVE  [Next]_vars
  BY <1>8 DEF Dismiss, Next, OperatorStep
<1> QED
  BY <1>1, <1>2, <1>3, <1>4, <1>5, <1>6, <1>7, <1>8 DEF ListNext

\* Every run of the list is one of the book, so what is proved of the book holds of
\* the list: the monitor, the watch and the broadcaster only listen.
THEOREM ListRunsTheBook == ListSpec => Spec
<1>1. ListInit => Init
  BY DEF ListInit
<1>2. [ListNext]_listVars => [Next]_vars
  BY ListStepsBook DEF listVars
<1> QED
  BY <1>1, <1>2, PTL DEF ListSpec, Spec

\* gone takes exactly the records that a step took out of the monitor.
LEMMA GoneSteps ==
    ASSUME ListNext
    PROVE  gone' = gone \cup (Keys(ended) \ Keys(ended'))
<1>1. \/ ended' = ended /\ gone' = gone
      \/ GivenUp
  <2>1. BookStep \/ Stop => ended' = ended /\ gone' = gone
    BY DEF BookStep, Stop, listOnly, monitorVars
  <2>2. ASSUME NEW c \in Cohort, NEW p \in DISPLAY_PHASES, NEW live \in BOOLEAN,
               Advance(c, p, live)
        PROVE  ended' = ended /\ gone' = gone
    BY <2>2 DEF Advance
  <2>3. ASSUME NEW c \in Cohort, NEW extracts \in BOOLEAN, Complete(c, extracts)
        PROVE  GivenUp
    BY <2>3 DEF Complete
  <2>4. ASSUME NEW c \in Cohort,
               \/ Fail(c) \/ FailedFrame(c) \/ Cancel(c) \/ Dismiss(c)
               \/ \E confirmed \in BOOLEAN : AnchoredFrame(c, confirmed)
        PROVE  GivenUp
    BY <2>4 DEF Fail, FailedFrame, Cancel, Dismiss, AnchoredFrame
  <2>5. ASSUME NEW c \in Cohort,
               \/ CohortEvent(c) \/ BroadcastFrame(c) \/ Finalize(c)
               \/ \E s \in WatchStates : WatchReports(c, s)
        PROVE  ended' = ended /\ gone' = gone
    BY <2>5 DEF CohortEvent, BroadcastFrame, Finalize, WatchReports
  <2> QED
    BY <2>1, <2>2, <2>3, <2>4, <2>5 DEF ListNext
<1> QED
  BY <1>1 DEF GivenUp

\* What a step does to one cohort's session: nothing, it is opened, it moves on
\* (and is marked exactly when it falls back), or it ends.
SessionStep(c) ==
    \/ phase'[c] = phase[c] /\ cause'[c] = cause[c] /\ (c \in fell' <=> c \in fell)
    \/ /\ cause[c] = "fresh" /\ cause'[c] = "live" /\ phase'[c] = "Advertised"
       /\ c \in fell' <=> c \in fell
    \/ /\ cause[c] = "live" /\ cause'[c] = "live" /\ phase'[c] \in DISPLAY_PHASES
       /\ phase[c] # "FallbackRequested"
       /\ c \in fell' <=> c \in fell \/ phase'[c] = "FallbackRequested"
    \/ /\ cause[c] = "live" /\ phase'[c] = NoPhase
       /\ cause'[c] \in {"completed"} \cup Rejections
       /\ c \in fell' <=> c \in fell

\* What a step of the list may do to the history of a cohort, and to its phase.
LEMMA SessionSteps ==
    ASSUME ListInv, ListNext, NEW c \in Cohort
    PROVE  SessionStep(c)
<1> USE DEF ListInv, BookInv, IInv
<1>0. /\ phase \in [Cohort -> DISPLAY_PHASES \cup {NoPhase}]
      /\ cause \in [Cohort -> Causes]
      /\ settling \in [Cohort -> {"no", "resolved", "rejected"}]
      /\ fell \subseteq Cohort
      /\ NoPhase \notin DISPLAY_PHASES
      /\ FINALIZABLE_PHASES \subseteq DISPLAY_PHASES
      /\ "FallbackRequested" \in DISPLAY_PHASES /\ "FallbackRequested" \notin FINALIZABLE_PHASES
  BY DEF TypeOK, WatchInv, DISPLAY_PHASES, OPEN_PHASES, IN_FLIGHT_PHASES, NoPhase,
     FINALIZABLE_PHASES
<1>1. ASSUME NEW d \in Cohort, NEW outcome, NEW why \in {"completed"} \cup Rejections,
             cause[d] = "live", Settle(d, outcome, why), fell' = fell
      PROVE  SessionStep(c)
  BY <1>0, <1>1 DEF Settle, SessionStep
<1>2. ASSUME UNCHANGED <<phase, cause, fell>>
      PROVE  SessionStep(c)
  BY <1>2 DEF SessionStep
<1>3. ASSUME NEW d \in Cohort, NEW w, Advertise(d, w), fell' = fell
      PROVE  SessionStep(c)
  BY <1>0, <1>3 DEF Advertise, SessionStep
<1>4. CASE BookStep
  <2>1. fell' = fell
    BY <1>4 DEF BookStep, listOnly
  <2>2. CASE DraftStep
    BY <1>2, <1>3, <2>1, <2>2 DEF DraftStep, CreateDraft, UpdateDraft, DiscardDraft,
       AdvertiseDraft, runnerVars, historyVars
  <2>3. CASE TimerStep
    BY <1>1, <1>2, <2>1, <2>3 DEF TimerStep, WindowExpires, StopCohort, SessionInv, Rejections
  <2>4. CASE SettleStep \/ SetPaused
    BY <1>2, <2>1, <2>4 DEF SettleStep, SettleCompletion, SetPaused, runnerVars, historyVars
  <2>5. ASSUME NEW old \in Cohort, NEW d \in Cohort, ReadvertiseExpired(old, d)
        PROVE  SessionStep(c)
    BY <1>3, <2>1, <2>5 DEF ReadvertiseExpired
  <2> QED
    BY <1>4, <2>2, <2>3, <2>4, <2>5 DEF BookStep
<1>5. CASE Stop
  BY <1>0, <1>5 DEF Stop, StopService, SessionStep, SessionInv, Rejections
<1>6. ASSUME NEW d \in Cohort, NEW p \in DISPLAY_PHASES, NEW live \in BOOLEAN,
             Advance(d, p, live)
      PROVE  SessionStep(c)
  <2>1. /\ <<phase[d], p>> \in PhaseStep /\ phase' = [phase EXCEPT ![d] = p] /\ cause' = cause
        /\ fell' = IF p = "FallbackRequested" THEN fell \cup {d} ELSE fell
    BY <1>6 DEF Advance, RunnerAdvance, historyVars
  <2>2. phase[d] \in DISPLAY_PHASES /\ phase[d] # "FallbackRequested"
    BY <2>1, PhaseAssumption, FallbackAssumption
  <2>3. cause[d] = "live"
    BY <1>0, <2>2 DEF SessionInv
  <2> QED
    BY <1>0, <2>1, <2>2, <2>3 DEF SessionStep
<1>7. ASSUME NEW d \in Cohort, NEW extracts \in BOOLEAN, Complete(d, extracts)
      PROVE  SessionStep(c)
  BY <1>0, <1>1, <1>7 DEF Complete, RunnerComplete, SessionInv
<1>8. ASSUME NEW d \in Cohort, Fail(d)
      PROVE  SessionStep(c)
  BY <1>1, <1>8 DEF Fail, RunnerFail, SessionInv, Rejections
<1>9. ASSUME NEW d \in Cohort,
             \/ CohortEvent(d) \/ \E s \in WatchStates : WatchReports(d, s)
             \/ BroadcastFrame(d) \/ FailedFrame(d)
             \/ \E confirmed \in BOOLEAN : AnchoredFrame(d, confirmed)
             \/ Dismiss(d)
      PROVE  SessionStep(c)
  BY <1>2, <1>9 DEF CohortEvent, WatchReports, BroadcastFrame, FailedFrame, AnchoredFrame, Frame,
     Dismiss, ForgetTerminal, vars, runnerVars, historyVars
<1>10. ASSUME NEW d \in Cohort, Cancel(d)
       PROVE  SessionStep(c)
  BY <1>1, <1>2, <1>10 DEF Cancel, CancelCohort, StopCohort, SessionInv, Rejections
<1>11. ASSUME NEW d \in Cohort, Finalize(d)
       PROVE  SessionStep(c)
  <2>1. /\ phase[d] \in FINALIZABLE_PHASES /\ cause' = cause
        /\ phase' = [phase EXCEPT ![d] = "FallbackRequested"] /\ fell' = fell \cup {d}
    BY <1>11 DEF Finalize, FinalizeCohort, historyVars
  <2>2. cause[d] = "live"
    BY <1>0, <2>1 DEF SessionInv
  <2> QED
    BY <1>0, <2>1, <2>2 DEF SessionStep
<1> QED
  BY <1>4, <1>5, <1>6, <1>7, <1>8, <1>9, <1>10, <1>11 DEF ListNext

\* What a step does to one cohort's transaction: only the step that completes the
\* cohort starts one, and only a frame moves it.
TxStep(c) ==
    \/ tx'[c] = tx[c]
    \/ cause[c] = "live" /\ cause'[c] = "completed" /\ tx'[c] \in {"none", "sending", "unusable"}
    \/ tx[c] = "sending" /\ tx'[c] \in {"broadcast", "failed"}
    \/ tx[c] = "broadcast" /\ tx'[c] \in {"given-up", "confirmed"}

\* A transaction goes forward, and only a completed cohort gets one.
LEMMA TxSteps ==
    ASSUME ListInv, ListNext
    PROVE  tx' \in [Cohort -> TxStates] /\ \A c \in Cohort : TxStep(c)
<1> USE DEF ListInv, BookInv, IInv
<1>0. tx \in [Cohort -> TxStates]
  BY DEF WatchInv
<1>1. ASSUME tx' = tx
      PROVE  tx' \in [Cohort -> TxStates] /\ \A c \in Cohort : TxStep(c)
  BY <1>0, <1>1 DEF TxStep
<1>2. CASE BookStep \/ Stop
  BY <1>1, <1>2 DEF BookStep, Stop, listOnly
<1>3. ASSUME NEW d \in Cohort,
             \/ \E p \in DISPLAY_PHASES, live \in BOOLEAN : Advance(d, p, live)
             \/ Fail(d) \/ CohortEvent(d) \/ \E s \in WatchStates : WatchReports(d, s)
             \/ Cancel(d) \/ Finalize(d) \/ Dismiss(d)
      PROVE  tx' = tx
  BY <1>3 DEF Advance, Fail, CohortEvent, WatchReports, Cancel, Finalize, Dismiss
<1>4. ASSUME NEW d \in Cohort, NEW extracts \in BOOLEAN, Complete(d, extracts)
      PROVE  tx' \in [Cohort -> TxStates] /\ \A c \in Cohort : TxStep(c)
  <2>1. /\ phase[d] # NoPhase /\ cause' = [cause EXCEPT ![d] = "completed"]
        /\ tx' = [tx EXCEPT ![d] = CASE ~(d \in watching) -> "none"
                                    [] d \in watching /\ extracts -> "sending"
                                    [] OTHER -> "unusable"]
    BY <1>4 DEF Complete, RunnerComplete, Settle, NoPhase, FINALIZABLE_PHASES
  <2>2. /\ cause[d] = "live" /\ cause'[d] = "completed"
        /\ tx'[d] \in {"none", "sending", "unusable"}
        /\ \A c \in Cohort \ {d} : tx'[c] = tx[c]
    BY <1>0, <2>1 DEF SessionInv, TypeOK
  <2>3. tx' \in [Cohort -> TxStates]
    BY <1>0, <2>1, <2>2 DEF TxStates
  <2> QED
    BY <2>2, <2>3 DEF TxStep
<1>5. ASSUME NEW d \in Cohort,
             \/ BroadcastFrame(d) \/ FailedFrame(d)
             \/ \E confirmed \in BOOLEAN : AnchoredFrame(d, confirmed)
      PROVE  tx' \in [Cohort -> TxStates] /\ \A c \in Cohort : TxStep(c)
  <2>1. \E from, to \in TxStates :
           /\ tx[d] = from /\ tx' = [tx EXCEPT ![d] = to]
           /\ \/ from = "sending" /\ to \in {"broadcast", "failed"}
              \/ from = "broadcast" /\ to \in {"given-up", "confirmed"}
    BY <1>5 DEF BroadcastFrame, FailedFrame, AnchoredFrame, Frame, TxStates
  <2> QED
    BY <1>0, <2>1 DEF TxStep
<1> QED
  BY <1>1, <1>2, <1>3, <1>4, <1>5 DEF ListNext

\* A record filed in this step, which says what happened.
Filed(c) ==
    \E chip \in Chips, via \in BOOLEAN :
        /\ RememberEnded(c, chip, via)
        /\ RecordSays(c, chip, via)'
        /\ cause[c] = "live" \/ tx[c] \in {"sending", "broadcast"}

EndedStep ==
    /\ \/ UNCHANGED ended
       \/ \E c \in Cohort : ended' = Delete(ended, c)
       \/ \E c \in Cohort : Filed(c)
    /\ \A c \in Cohort :
          \/ cause[c] = "live" /\ cause'[c] \in {"completed", "failed", "canceled"}
          \/ tx'[c] # tx[c] /\ tx'[c] \in {"confirmed", "failed"}
          => Filed(c)

\* Remembering a record keeps the map typed and leaves every other one as it was.
LEMMA RecordFiled ==
    ASSUME MapsInv, NEW c \in Cohort, NEW chip \in Chips, NEW via \in BOOLEAN,
           RememberEnded(c, chip, via)
    PROVE  /\ ended' \in Seq(EndedRecord) /\ Len(ended') <= MaxEnded /\ Distinct(ended')
           /\ c \in Keys(ended')
           /\ Lookup(ended', c) = [id |-> c, chip |-> chip, viaFallback |-> via]
           /\ \A d : d # c => StillSays(ended', ended, d)
<1> DEFINE entry == [id |-> c, chip |-> chip, viaFallback |-> via]
<1>1. /\ entry \in EndedRecord /\ entry.id = c
      /\ ended \in Seq(EndedRecord) /\ Len(ended) <= MaxEnded /\ Distinct(ended)
      /\ MaxEnded \in Nat \ {0} /\ MaxEnded \in Nat
  BY MonitorAssumption DEF MapsInv, EndedRecord
<1>2. ended' = Remember(ended, entry, MaxEnded)
  BY DEF RememberEnded
<1> HIDE DEF entry
<1>3. ended' \in Seq(EndedRecord) /\ Len(ended') <= MaxEnded
  BY <1>1, <1>2, RememberProperties
<1>4. /\ Distinct(ended') /\ c \in Keys(ended') /\ Lookup(ended', c) = entry
      /\ \A d : d # c => StillSays(ended', ended, d)
  BY <1>1, <1>2, RememberLookup
<1> QED
  BY <1>3, <1>4 DEF entry

\* The record of a cohort is one of the map's.
LEMMA RecordOfCohort ==
    ASSUME MapsInv, EndedInv, NEW c \in Keys(ended)
    PROVE  /\ c \in Cohort
           /\ Lookup(ended, c) \in EndedRecord /\ Lookup(ended, c).id = c
           /\ Lookup(ended, c).chip \in Chips /\ Lookup(ended, c).viaFallback \in BOOLEAN
           /\ RecordSays(c, Lookup(ended, c).chip, Lookup(ended, c).viaFallback)
<1>1. Position(ended, c) \in DOMAIN ended /\ ended[Position(ended, c)].id = c
  BY PositionProperty
<1>2. Lookup(ended, c) \in EndedRecord
  BY <1>1, ElementOfSeq, LenProperties DEF MapsInv, Lookup
<1> QED
  BY <1>1, <1>2 DEF EndedRecord, Lookup, EndedInv

\* The mark of the script path is on no other cohort's entry.
LEMMA MarkOfCohort ==
    ASSUME MapsInv, MarksInv, NEW c
    PROVE  FellBack(c) \in BOOLEAN /\ (FellBack(c) => c \in fell)
<1>1. CASE c \in Keys(entries)
  <2>1. Position(entries, c) \in DOMAIN entries /\ entries[Position(entries, c)].id = c
    BY <1>1, PositionProperty
  <2>2. Lookup(entries, c) \in LiveEntry
    BY <2>1, ElementOfSeq, LenProperties DEF MapsInv, Lookup
  <2> QED
    BY <1>1, <2>1, <2>2 DEF LiveEntry, Lookup, FellBack, MarksInv
<1>2. CASE c \notin Keys(entries)
  BY <1>2 DEF FellBack
<1> QED
  BY <1>1, <1>2

\* Filing keeps the cohort out of the ones whose record the step gave up.
LEMMA FiledIsNotGone ==
    ASSUME ListInv, ListNext, NEW c \in Cohort, c \in Keys(ended'), c \notin gone
    PROVE  c \notin gone'
  BY GoneSteps

\* A completed signing files one record, its own, whatever the broadcaster makes of it.
LEMMA CompleteFiles ==
    ASSUME ListInv, ListNext, NEW c \in Cohort, NEW extracts \in BOOLEAN,
           Complete(c, extracts)
    PROVE  Filed(c) /\ \A d \in Cohort \ {c} : cause'[d] = cause[d] /\ tx'[d] = tx[d]
<1> USE DEF ListInv, BookInv, IInv
<1> DEFINE path == IF phase[c] = "FallbackRequested" THEN "script-path" ELSE "key-path"
           via == path = "script-path" \/ FellBack(c)
           chip == IF via THEN "co-signed-fallback" ELSE "co-signed"
<1>1. /\ phase[c] # NoPhase
      /\ cause' = [cause EXCEPT ![c] = "completed"]
      /\ tx' = [tx EXCEPT ![c] = CASE ~(c \in watching) -> "none"
                                   [] c \in watching /\ extracts -> "sending"
                                   [] OTHER -> "unusable"]
      /\ RememberEnded(c, chip, via)
      /\ fell' = fell
  BY DEF Complete, RunnerComplete, Settle, NoPhase, FINALIZABLE_PHASES, SigningCompleteFold
<1>2. /\ cause[c] = "live" /\ cause'[c] = "completed"
      /\ tx'[c] \notin {"confirmed", "failed"}
      /\ \A d \in Cohort \ {c} : cause'[d] = cause[d] /\ tx'[d] = tx[d]
  BY <1>1 DEF SessionInv, TypeOK, WatchInv
<1>3. via <=> c \in fell
  BY <1>1, MarkOfCohort DEF PathInv
<1>4. via \in BOOLEAN /\ chip \in Chips
  BY MarkOfCohort DEF Chips
<1>5. PICK v \in BOOLEAN, ch \in Chips : v = via /\ ch = chip
  BY <1>4
<1>6. RememberEnded(c, ch, v) /\ (ch = IF v THEN "co-signed-fallback" ELSE "co-signed")
  BY <1>1, <1>5
<1>7. v <=> c \in fell'
  BY <1>1, <1>3, <1>5
<1> HIDE DEF via, chip, path
<1>8. c \notin gone'
  BY <1>2, <1>6, RecordFiled, FiledIsNotGone DEF PathInv
<1>9. RecordSays(c, ch, v)'
  BY <1>2, <1>6, <1>7, <1>8 DEF RecordSays
<1> QED
  BY <1>2, <1>6, <1>9 DEF Filed

\* A failure files a record of that failure.
LEMMA FailedFiles ==
    ASSUME NEW c \in Cohort, FailedFold(c),
           cause[c] = "live" \/ tx[c] \in {"sending", "broadcast"},
           cause'[c] = "failed" \/ tx'[c] = "failed"
    PROVE  Filed(c)
<1>1. RememberEnded(c, "failed", FALSE)
  BY DEF FailedFold
<1>2. RecordSays(c, "failed", FALSE)'
  BY DEF RecordSays
<1>3. "failed" \in Chips /\ FALSE \in BOOLEAN
  BY DEF Chips
<1> QED
  BY <1>1, <1>2, <1>3 DEF Filed

\* A cancel files a record of that cancel.
LEMMA CancelFiles ==
    ASSUME ListInv, NEW c \in Cohort, Cancel(c)
    PROVE  /\ Filed(c) /\ \A d \in Cohort \ {c} : cause'[d] = cause[d]
<1> USE DEF ListInv, BookInv, IInv
<1>1. /\ c \in advertised /\ TurnOver /\ StopCohort(c, "canceled") /\ NoteCanceled(c)
  BY DEF Cancel, CancelCohort
<1>2. cause[c] = "live" /\ phase[c] # NoPhase
  BY <1>1 DEF AdvertisedInv, SessionInv, TurnOver
<1>3. cause' = [cause EXCEPT ![c] = "canceled"]
  BY <1>1, <1>2 DEF StopCohort, Settle
<1>4. ~RowCanceled(c)
  BY <1>2, RecordOfCohort DEF RowCanceled, RecordSays
<1>5. RememberEnded(c, "canceled", FALSE)
  BY <1>1, <1>4 DEF NoteCanceled
<1>6. cause'[c] = "canceled" /\ \A d \in Cohort \ {c} : cause'[d] = cause[d]
  BY <1>3 DEF TypeOK
<1>7. RecordSays(c, "canceled", FALSE)'
  BY <1>6 DEF RecordSays
<1>8. "canceled" \in Chips /\ FALSE \in BOOLEAN
  BY DEF Chips
<1> QED
  BY <1>2, <1>5, <1>6, <1>7, <1>8 DEF Filed

\* The broadcaster's last frame promotes the record under the path it was filed with.
LEMMA AnchoredFiles ==
    ASSUME ListInv, ListNext, NEW c \in Cohort, AnchoredFrame(c, TRUE)
    PROVE  Filed(c)
<1> USE DEF ListInv, BookInv, IInv
<1> DEFINE via == c \in Keys(ended) /\ Lookup(ended, c).viaFallback
           chip == IF via THEN "fallback" ELSE "anchored"
<1>1. /\ tx[c] = "broadcast" /\ tx' = [tx EXCEPT ![c] = "confirmed"] /\ fell' = fell
      /\ RememberEnded(c, chip, via)
  BY DEF AnchoredFrame, Frame, AnchoredFold
<1>2. tx'[c] = "confirmed"
  BY <1>1 DEF WatchInv
<1>3. cause[c] = "completed"
  BY <1>1 DEF PathInv
<1>4. c \in Keys(ended) => (Lookup(ended, c).viaFallback <=> c \in fell)
  BY <1>1, <1>3, RecordOfCohort DEF RecordSays, Chips
<1>5. c \in Keys(ended) \cup gone
  BY <1>3 DEF EndedInv
<1>6. c \in gone => c \in gone'
  BY GoneSteps
<1>7. via \in BOOLEAN /\ chip \in Chips
  BY RecordOfCohort DEF Chips
<1>8. PICK v \in BOOLEAN, ch \in Chips : v = via /\ ch = chip
  BY <1>7
<1>9. RecordSays(c, ch, v)'
  BY <1>1, <1>2, <1>4, <1>5, <1>6, <1>8 DEF RecordSays
<1>10. RememberEnded(c, ch, v)
  BY <1>1, <1>8
<1> HIDE DEF via, chip
<1> QED
  BY <1>1, <1>9, <1>10 DEF Filed

\* Every step either files the records it must, or only gives some up.
LEMMA EndedSteps ==
    ASSUME ListInv, ListNext
    PROVE  EndedStep
<1> USE DEF ListInv, BookInv, IInv
<1> DEFINE Must(c) ==
      \/ cause[c] = "live" /\ cause'[c] \in {"completed", "failed", "canceled"}
      \/ tx'[c] # tx[c] /\ tx'[c] \in {"confirmed", "failed"}
<1>a. ASSUME UNCHANGED ended \/ \E d \in Cohort : ended' = Delete(ended, d),
             \A c \in Cohort : ~Must(c)
      PROVE  EndedStep
  BY <1>a DEF EndedStep
<1>b. ASSUME NEW d \in Cohort, Filed(d), \A c \in Cohort \ {d} : ~Must(c)
      PROVE  EndedStep
  BY <1>b DEF EndedStep
<1>c. ASSUME NEW c \in Cohort, cause'[c] = cause[c], tx'[c] = tx[c]
      PROVE  ~Must(c)
  BY <1>c
<1>1. CASE BookStep
  <2>1. UNCHANGED ended /\ tx' = tx
    BY <1>1 DEF BookStep, listOnly, monitorVars
  <2>2. ASSUME NEW c \in Cohort, cause[c] = "live"
        PROVE  cause'[c] \notin {"completed", "failed", "canceled"}
    <3>1. CASE DraftStep \/ \E old, d \in Cohort : ReadvertiseExpired(old, d)
      BY <2>2, <3>1 DEF DraftStep, CreateDraft, UpdateDraft, DiscardDraft, AdvertiseDraft,
         Advertise, ReadvertiseExpired, historyVars, TypeOK
    <3>2. CASE TimerStep
      BY <2>2, <3>2 DEF TimerStep, WindowExpires, StopCohort, Settle, TypeOK
    <3>3. CASE SettleStep \/ SetPaused
      BY <2>2, <3>3 DEF SettleStep, SettleCompletion, SetPaused, historyVars
    <3> QED
      BY <1>1, <3>1, <3>2, <3>3 DEF BookStep
  <2> QED
    BY <1>a, <2>1, <2>2
<1>2. CASE Stop
  <2>1. UNCHANGED ended /\ tx' = tx
        /\ \A c \in Cohort : cause'[c] \in {cause[c], "stopped"}
    BY <1>2 DEF Stop, StopService, monitorVars
  <2> QED
    BY <1>a, <2>1
<1>3. ASSUME NEW d \in Cohort,
             \/ \E p \in DISPLAY_PHASES, live \in BOOLEAN : Advance(d, p, live)
             \/ CohortEvent(d) \/ \E s \in WatchStates : WatchReports(d, s)
             \/ Finalize(d)
      PROVE  EndedStep
  <2>1. UNCHANGED ended /\ tx' = tx /\ cause' = cause
    BY <1>3 DEF Advance, RunnerAdvance, CohortEvent, WatchReports, Finalize, FinalizeCohort, vars,
       historyVars
  <2> QED
    BY <1>a, <2>1
<1>4. ASSUME NEW d \in Cohort, Dismiss(d)
      PROVE  EndedStep
  <2>1. /\ UNCHANGED ended \/ ended' = Delete(ended, d)
        /\ tx' = tx /\ cause' = cause
    BY <1>4 DEF Dismiss, DismissEnded, ForgetTerminal, monitorVars, vars, historyVars
  <2> QED
    BY <1>a, <2>1
<1>5. ASSUME NEW d \in Cohort, NEW extracts \in BOOLEAN, Complete(d, extracts)
      PROVE  EndedStep
  <2>1. Filed(d) /\ \A c \in Cohort \ {d} : cause'[c] = cause[c] /\ tx'[c] = tx[c]
    BY <1>5, CompleteFiles
  <2> QED
    BY <1>b, <2>1
<1>6. ASSUME NEW d \in Cohort, Fail(d)
      PROVE  EndedStep
  <2>1. /\ FailedFold(d) /\ phase[d] # NoPhase /\ tx' = tx
        /\ cause' = [cause EXCEPT ![d] = "failed"]
    BY <1>6 DEF Fail, RunnerFail, Settle
  <2>2. cause[d] = "live" /\ cause'[d] = "failed" /\ \A c \in Cohort \ {d} : cause'[c] = cause[c]
    BY <2>1 DEF SessionInv, TypeOK
  <2>3. Filed(d)
    BY <2>1, <2>2, FailedFiles
  <2> QED
    BY <1>b, <2>1, <2>2, <2>3
<1>7. ASSUME NEW d \in Cohort, Cancel(d)
      PROVE  EndedStep
  <2>1. Filed(d) /\ (\A c \in Cohort \ {d} : cause'[c] = cause[c]) /\ tx' = tx
    BY <1>7, CancelFiles DEF Cancel
  <2> QED
    BY <1>b, <2>1
<1>8. ASSUME NEW d \in Cohort, BroadcastFrame(d)
      PROVE  EndedStep
  <2>1. UNCHANGED ended /\ tx' = [tx EXCEPT ![d] = "broadcast"] /\ cause' = cause
    BY <1>8 DEF BroadcastFrame, Frame, vars, historyVars
  <2>2. \A c \in Cohort : ~Must(c)
    BY <2>1 DEF WatchInv
  <2> QED
    BY <1>a, <2>1, <2>2
<1>9. ASSUME NEW d \in Cohort, FailedFrame(d)
      PROVE  EndedStep
  <2>1. /\ tx[d] = "sending" /\ tx' = [tx EXCEPT ![d] = "failed"] /\ cause' = cause
        /\ FailedFold(d)
    BY <1>9 DEF FailedFrame, Frame, vars, historyVars
  <2>2. tx'[d] = "failed" /\ \A c \in Cohort \ {d} : tx'[c] = tx[c] /\ cause'[c] = cause[c]
    BY <2>1 DEF WatchInv
  <2>3. Filed(d)
    BY <2>1, <2>2, FailedFiles
  <2> QED
    BY <1>b, <2>2, <2>3
<1>10. ASSUME NEW d \in Cohort, AnchoredFrame(d, TRUE)
       PROVE  EndedStep
  <2>1. tx' = [tx EXCEPT ![d] = "confirmed"] /\ cause' = cause
    BY <1>10 DEF AnchoredFrame, Frame, vars, historyVars
  <2>2. \A c \in Cohort \ {d} : tx'[c] = tx[c] /\ cause'[c] = cause[c]
    BY <2>1 DEF WatchInv
  <2>3. Filed(d)
    BY <1>10, AnchoredFiles
  <2> QED
    BY <1>b, <2>2, <2>3
<1>11. ASSUME NEW d \in Cohort, AnchoredFrame(d, FALSE)
       PROVE  EndedStep
  <2>1. tx' = [tx EXCEPT ![d] = "given-up"] /\ cause' = cause /\ UNCHANGED ended
    BY <1>11 DEF AnchoredFrame, Frame, AnchoredFold, vars, historyVars
  <2>2. \A c \in Cohort : ~Must(c)
    BY <2>1 DEF WatchInv
  <2> QED
    BY <1>a, <2>1, <2>2
<1> QED
  BY <1>1, <1>2, <1>3, <1>4, <1>5, <1>6, <1>7, <1>8, <1>9, <1>10, <1>11 DEF ListNext

\* The anchor fold has its own copy of the map's discipline.
LEMMA SameDiscipline ==
    ASSUME NEW map, NEW entry, NEW bound
    PROVE  A!Remember(map, entry, bound) = Remember(map, entry, bound)
BY DEF A!Remember, Remember, A!Delete, Delete, A!Keys, Keys, A!Position, Position

\* The anchor read is a lookup in the same bounded map.
LEMMA SameReading ==
    ASSUME NEW c
    PROVE  A!AnchorRead(c) = IF c \in Keys(anchors) THEN Lookup(anchors, c).state ELSE "none"
BY DEF A!AnchorRead, A!Keys, Keys, A!Lookup, Lookup, A!Position, Position

\* What a step does to the three maps: an entry is touched or deleted, a record is
\* filed or deleted, a frame is remembered; an entry that is marked falls back.
EntriesStep ==
    \/ UNCHANGED entries
    \/ \E c \in Cohort : entries' = Delete(entries, c)
    \/ \E c \in Cohort, mark \in BOOLEAN : Touch(c, mark) /\ (mark => c \in fell')

\* Every step of the list does one of these to the live entries.
LEMMA EntriesSteps ==
    ASSUME ListNext
    PROVE  EntriesStep
<1>1. CASE BookStep \/ Stop
  BY <1>1 DEF BookStep, Stop, listOnly, monitorVars, EntriesStep
<1>2. ASSUME NEW c \in Cohort, NEW p \in DISPLAY_PHASES, NEW live \in BOOLEAN,
             Advance(c, p, live)
      PROVE  EntriesStep
  BY <1>2 DEF Advance, EntriesStep
<1>3. ASSUME NEW c \in Cohort,
             \/ \E extracts \in BOOLEAN : Complete(c, extracts)
             \/ Fail(c) \/ \E s \in WatchStates : WatchReports(c, s)
             \/ BroadcastFrame(c) \/ FailedFrame(c)
             \/ \E confirmed \in BOOLEAN : AnchoredFrame(c, confirmed)
      PROVE  EntriesStep
  BY <1>3 DEF Complete, Fail, WatchReports, BroadcastFrame, FailedFrame, AnchoredFrame, Frame,
     EntriesStep
<1>4. ASSUME NEW c \in Cohort, CohortEvent(c) \/ Cancel(c)
      PROVE  EntriesStep
  BY <1>4 DEF CohortEvent, Cancel, NoteCanceled, EntriesStep
<1>5. ASSUME NEW c \in Cohort, Finalize(c)
      PROVE  EntriesStep
  BY <1>5 DEF Finalize, EntriesStep
<1>6. ASSUME NEW c \in Cohort, Dismiss(c)
      PROVE  EntriesStep
  BY <1>6 DEF Dismiss, DismissEnded, monitorVars, EntriesStep
<1> QED
  BY <1>1, <1>2, <1>3, <1>4, <1>5, <1>6 DEF ListNext

AnchorsStep ==
    \/ UNCHANGED anchors
    \/ \E c \in Cohort, state \in {"broadcast", "confirmed", "failed"} :
          A!RememberAnchor(c, state) /\ tx'[c] # "none"

\* Every step of the list does one of these to the anchor fold.
LEMMA AnchorsSteps ==
    ASSUME ListNext, tx \in [Cohort -> TxStates]
    PROVE  AnchorsStep
<1>1. CASE BookStep \/ Stop
  BY <1>1 DEF BookStep, Stop, listOnly, AnchorsStep
<1>2. ASSUME NEW c \in Cohort,
             \/ \E p \in DISPLAY_PHASES, live \in BOOLEAN : Advance(c, p, live)
             \/ Fail(c) \/ CohortEvent(c) \/ \E s \in WatchStates : WatchReports(c, s)
             \/ Cancel(c) \/ Finalize(c) \/ Dismiss(c)
      PROVE  AnchorsStep
  BY <1>2 DEF Advance, Fail, CohortEvent, WatchReports, Cancel, Finalize, Dismiss, AnchorsStep
<1>3. ASSUME NEW c \in Cohort, NEW extracts \in BOOLEAN, Complete(c, extracts)
      PROVE  AnchorsStep
  <2>1. CASE c \in watching /\ ~extracts
    <3>1. A!RememberAnchor(c, "failed") /\ tx' = [tx EXCEPT ![c] = "unusable"]
      BY <1>3, <2>1 DEF Complete
    <3> QED
      BY <3>1 DEF AnchorsStep
  <2>2. CASE ~(c \in watching /\ ~extracts)
    BY <1>3, <2>2 DEF Complete, AnchorsStep
  <2> QED
    BY <2>1, <2>2
<1>4. ASSUME NEW c \in Cohort, BroadcastFrame(c)
      PROVE  AnchorsStep
  BY <1>4 DEF BroadcastFrame, Frame, AnchorsStep
<1>5. ASSUME NEW c \in Cohort, FailedFrame(c)
      PROVE  AnchorsStep
  BY <1>5 DEF FailedFrame, Frame, AnchorsStep
<1>6. ASSUME NEW c \in Cohort, NEW confirmed \in BOOLEAN, AnchoredFrame(c, confirmed)
      PROVE  AnchorsStep
  <2>1. A!AnchoredState(confirmed) \in {"broadcast", "confirmed"}
    BY DEF A!AnchoredState
  <2>2. tx'[c] # "none"
    BY <1>6 DEF AnchoredFrame, Frame
  <2>3. A!RememberAnchor(c, A!AnchoredState(confirmed))
    BY <1>6 DEF AnchoredFrame
  <2> QED
    BY <2>1, <2>2, <2>3 DEF AnchorsStep
<1> QED
  BY <1>1, <1>2, <1>3, <1>4, <1>5, <1>6 DEF ListNext

\* The maps keep their shape, and no entry is marked without a fallback.
LEMMA NextMapsInv ==
    ASSUME ListInv, ListNext
    PROVE  MapsInv' /\ MarksInv'
<1> USE DEF ListInv, BookInv, IInv
<1>1. /\ entries' \in Seq(LiveEntry) /\ Len(entries') <= MaxMonitored
      /\ \A i \in DOMAIN entries' : entries'[i].fellBack => entries'[i].id \in fell'
  <2>1. entries \in Seq(LiveEntry) /\ Len(entries) <= MaxMonitored /\ MaxMonitored \in Nat
        /\ Len(entries) \in Nat
    BY MonitorAssumption, LenProperties DEF MapsInv
  <2>2. fell \subseteq fell'
    BY SessionSteps DEF SessionStep, WatchInv
  <2>3. \A i \in DOMAIN entries : entries[i].fellBack => entries[i].id \in fell'
    BY <2>2 DEF MarksInv
  <2>4. CASE UNCHANGED entries
    BY <2>1, <2>3, <2>4
  <2>5. ASSUME NEW c \in Cohort, entries' = Delete(entries, c)
        PROVE  /\ entries' \in Seq(LiveEntry) /\ Len(entries') <= MaxMonitored
               /\ \A i \in DOMAIN entries' : entries'[i].fellBack => entries'[i].id \in fell'
    <3>1. /\ Delete(entries, c) \in Seq(LiveEntry) /\ Len(Delete(entries, c)) <= Len(entries)
          /\ ComesFrom(Delete(entries, c), entries)
      BY <2>1, DeleteProperties
    <3>2. Len(entries') \in Nat
      BY <3>1, <2>5, LenProperties
    <3> QED
      BY <2>1, <2>3, <2>5, <3>1, <3>2 DEF ComesFrom
  <2>6. ASSUME NEW c \in Cohort, NEW mark \in BOOLEAN, Touch(c, mark), mark => c \in fell'
        PROVE  /\ entries' \in Seq(LiveEntry) /\ Len(entries') <= MaxMonitored
               /\ \A i \in DOMAIN entries' : entries'[i].fellBack => entries'[i].id \in fell'
    <3> DEFINE entry == [id |-> c, fellBack |-> FellBack(c) \/ mark]
    <3>1. entry \in LiveEntry /\ entry.id = c /\ (entry.fellBack => c \in fell')
      BY <2>2, <2>6, MarkOfCohort DEF LiveEntry
    <3>2. entries' = Remember(entries, entry, MaxMonitored)
      BY <2>6 DEF Touch
    <3> HIDE DEF entry
    <3>3. /\ Remember(entries, entry, MaxMonitored) \in Seq(LiveEntry)
          /\ Len(Remember(entries, entry, MaxMonitored)) <= MaxMonitored
          /\ \A j \in DOMAIN Remember(entries, entry, MaxMonitored) :
                \/ Remember(entries, entry, MaxMonitored)[j] = entry
                \/ \E i \in DOMAIN entries :
                      Remember(entries, entry, MaxMonitored)[j] = entries[i]
      BY <2>1, <3>1, RememberProperties
    <3> QED
      BY <2>3, <3>1, <3>2, <3>3
  <2> QED
    BY <2>4, <2>5, <2>6, EntriesSteps DEF EntriesStep
<1>2. /\ anchors' \in Seq(AnchorEntry) /\ Len(anchors') <= MaxTerminal
      /\ \A i \in DOMAIN anchors' : tx'[anchors'[i].id] # "none"
  <2>1. anchors \in Seq(AnchorEntry) /\ Len(anchors) <= MaxTerminal /\ MaxTerminal \in Nat
    BY CapAssumption DEF MapsInv
  <2>2. \A i \in DOMAIN anchors : anchors[i].id \in Cohort
    <3>1. DOMAIN anchors = 1 .. Len(anchors)
      BY <2>1, LenProperties
    <3>2. \A i \in DOMAIN anchors : anchors[i] \in AnchorEntry
      BY <2>1, <3>1, ElementOfSeq
    <3> QED
      BY <3>2 DEF AnchorEntry
  <2>3. \A d \in Cohort : tx[d] # "none" => tx'[d] # "none"
    <3>1. ASSUME NEW d \in Cohort, tx[d] # "none"
          PROVE  tx'[d] # "none"
      <4>1. TxStep(d) /\ cause[d] = "completed"
        BY <3>1, TxSteps DEF PathInv
      <4> QED
        BY <3>1, <4>1 DEF TxStep
    <3> QED
      BY <3>1
  <2>4. \A i \in DOMAIN anchors : tx'[anchors[i].id] # "none"
    BY <2>2, <2>3 DEF MarksInv
  <2>5. CASE UNCHANGED anchors
    BY <2>1, <2>4, <2>5
  <2>6. ASSUME NEW c \in Cohort, NEW state \in {"broadcast", "confirmed", "failed"},
               A!RememberAnchor(c, state), tx'[c] # "none"
        PROVE  /\ anchors' \in Seq(AnchorEntry) /\ Len(anchors') <= MaxTerminal
               /\ \A i \in DOMAIN anchors' : tx'[anchors'[i].id] # "none"
    <3> DEFINE entry == [id |-> c, state |-> state]
    <3>1. entry \in AnchorEntry /\ entry.id = c
      BY DEF AnchorEntry
    <3>2. anchors' = Remember(anchors, entry, MaxTerminal)
      BY <2>6, SameDiscipline DEF A!RememberAnchor
    <3> HIDE DEF entry
    <3>3. /\ Remember(anchors, entry, MaxTerminal) \in Seq(AnchorEntry)
          /\ Len(Remember(anchors, entry, MaxTerminal)) <= MaxTerminal
          /\ \A j \in DOMAIN Remember(anchors, entry, MaxTerminal) :
                \/ Remember(anchors, entry, MaxTerminal)[j] = entry
                \/ \E i \in DOMAIN anchors :
                      Remember(anchors, entry, MaxTerminal)[j] = anchors[i]
      BY <2>1, <3>1, RememberProperties
    <3> QED
      BY <2>4, <2>6, <3>1, <3>2, <3>3
  <2> QED
    BY <2>5, <2>6, AnchorsSteps DEF AnchorsStep, WatchInv
<1>3. ended' \in Seq(EndedRecord) /\ Len(ended') <= MaxEnded /\ Distinct(ended')
  <2>1. ended \in Seq(EndedRecord) /\ Len(ended) <= MaxEnded /\ MaxEnded \in Nat
        /\ Len(ended) \in Nat /\ Distinct(ended)
    BY MonitorAssumption, LenProperties DEF MapsInv
  <2>2. CASE UNCHANGED ended
    BY <2>1, <2>2
  <2>3. ASSUME NEW c \in Cohort, ended' = Delete(ended, c)
        PROVE  ended' \in Seq(EndedRecord) /\ Len(ended') <= MaxEnded /\ Distinct(ended')
    <3>1. /\ Delete(ended, c) \in Seq(EndedRecord) /\ Len(Delete(ended, c)) <= Len(ended)
          /\ Distinct(Delete(ended, c))
      BY <2>1, DeleteProperties, DeleteKeys
    <3>2. Len(ended') \in Nat
      BY <3>1, <2>3, LenProperties
    <3> QED
      BY <2>1, <2>3, <3>1, <3>2
  <2>4. ASSUME NEW c \in Cohort, Filed(c)
        PROVE  ended' \in Seq(EndedRecord) /\ Len(ended') <= MaxEnded /\ Distinct(ended')
    BY <2>4, RecordFiled DEF Filed
  <2> QED
    BY <2>2, <2>3, <2>4, EndedSteps DEF EndedStep
<1> QED
  BY <1>1, <1>2, <1>3 DEF MapsInv, MarksInv

\* What the list adds to the book keeps its types.
LEMMA WatchSteps ==
    ASSUME WatchInv, ListNext
    PROVE  /\ watching' \subseteq Cohort
           /\ lastView' \in [Cohort -> FundingStates \cup {"none"}]
           /\ fell' \subseteq Cohort
<1> USE DEF WatchInv
<1> DEFINE Typed == /\ watching' \subseteq Cohort
                    /\ lastView' \in [Cohort -> FundingStates \cup {"none"}]
                    /\ fell' \subseteq Cohort
<1>1. ASSUME UNCHANGED <<watching, lastView, fell>>
      PROVE  Typed
  BY <1>1
<1>2. CASE BookStep \/ Stop
  BY <1>2 DEF BookStep, Stop, listOnly
<1>3. ASSUME NEW c \in Cohort, NEW p \in DISPLAY_PHASES, NEW live \in BOOLEAN,
             Advance(c, p, live)
      PROVE  Typed
  BY <1>3 DEF Advance
<1>4. ASSUME NEW c \in Cohort,
             \/ \E extracts \in BOOLEAN : Complete(c, extracts)
             \/ Fail(c) \/ Cancel(c)
      PROVE  Typed
  BY <1>4 DEF Complete, Fail, Cancel, Release
<1>5. ASSUME NEW c \in Cohort,
             \/ CohortEvent(c) \/ BroadcastFrame(c) \/ FailedFrame(c)
             \/ \E confirmed \in BOOLEAN : AnchoredFrame(c, confirmed)
             \/ Finalize(c) \/ Dismiss(c)
      PROVE  Typed
  BY <1>5 DEF CohortEvent, BroadcastFrame, FailedFrame, AnchoredFrame, Frame, Finalize, Dismiss
<1>6. ASSUME NEW c \in Cohort, NEW s \in WatchStates, WatchReports(c, s)
      PROVE  Typed
  BY <1>6, WatchAssumption DEF WatchReports
<1> QED
  BY <1>2, <1>3, <1>4, <1>5, <1>6 DEF ListNext

\* A cohort that fell back, or has a transaction, is where its path put it.
LEMMA NextPathInv ==
    ASSUME ListInv, ListNext
    PROVE  WatchInv' /\ PathInv'
<1> USE DEF ListInv, BookInv, IInv
<1>1. Keys(ended) \subseteq Cohort
  BY RecordOfCohort
<1>2. gone' \subseteq Cohort
  BY <1>1, GoneSteps DEF WatchInv
<1>3. WatchInv'
  BY <1>2, WatchSteps, TxSteps DEF WatchInv
<1>4. ASSUME NEW c \in Cohort
      PROVE  /\ phase'[c] = "FallbackRequested" => c \in fell'
             /\ c \in fell' => phase'[c] \in {"FallbackRequested", NoPhase} /\ cause'[c] # "fresh"
             /\ tx'[c] # "none" => cause'[c] = "completed"
             /\ c \in gone' => cause'[c] \notin {"fresh", "live"}
  <2>1. SessionStep(c) /\ TxStep(c)
    BY SessionSteps, TxSteps
  <2>2. /\ phase[c] = "FallbackRequested" => c \in fell
        /\ c \in fell => phase[c] \in {"FallbackRequested", NoPhase} /\ cause[c] # "fresh"
        /\ tx[c] # "none" => cause[c] = "completed"
        /\ c \in gone => cause[c] \notin {"fresh", "live"}
        /\ phase[c] # NoPhase <=> cause[c] = "live"
    BY DEF PathInv, SessionInv
  <2>3. c \in gone' => cause[c] \notin {"fresh"} /\ (cause[c] = "live" => c \in Keys(ended) \ Keys(ended'))
    BY <2>2, GoneSteps, RecordOfCohort DEF RecordSays, Chips
  <2>4. c \in Keys(ended) => cause[c] \notin {"fresh", "live"}
    BY <2>2, RecordOfCohort DEF RecordSays, Chips
  <2> QED
    BY <2>1, <2>2, <2>3, <2>4 DEF SessionStep, TxStep, NoPhase, Rejections, DISPLAY_PHASES
<1> QED
  BY <1>3, <1>4 DEF PathInv

\* A record that is kept still says what happened: a step that ends the cohort or
\* settles its transaction files a new one.
LEMMA RecordKept ==
    ASSUME ListInv, ListNext, NEW c \in Keys(ended), c \in Keys(ended'), ~Filed(c),
           NEW chip \in Chips, NEW via \in BOOLEAN, RecordSays(c, chip, via)
    PROVE  RecordSays(c, chip, via)'
<1> USE DEF ListInv, BookInv, IInv
<1>1. c \in Cohort /\ cause[c] \notin {"fresh", "live"}
  BY RecordOfCohort DEF RecordSays, Chips, PathInv
<1>2. SessionStep(c) /\ TxStep(c)
  BY <1>1, SessionSteps, TxSteps
<1>3. cause'[c] = cause[c] /\ (c \in fell' <=> c \in fell)
  BY <1>1, <1>2 DEF SessionStep
<1>4. tx'[c] # tx[c] => tx[c] \in {"sending", "broadcast"} /\ tx'[c] \in {"broadcast", "given-up"}
  <2>1. tx'[c] # tx[c] => tx'[c] \notin {"confirmed", "failed"}
    BY <1>1, EndedSteps DEF EndedStep
  <2> QED
    BY <1>1, <1>2, <2>1 DEF TxStep
<1>5. c \in gone' <=> c \in gone
  BY GoneSteps
<1>6. tx'[c] # tx[c] => tx[c] \notin {"confirmed", "failed"} /\ tx'[c] \notin {"confirmed", "failed"}
  BY <1>4
<1>7. chip = "failed" => cause'[c] = "failed" \/ tx'[c] = "failed"
  BY <1>3, <1>6 DEF RecordSays
<1>8. chip \in {"anchored", "fallback"} => tx'[c] = "confirmed"
  BY <1>6 DEF RecordSays
<1>9. tx[c] \notin {"confirmed", "failed"} => tx'[c] \notin {"confirmed", "failed"}
  BY <1>6
<1> QED
  BY <1>3, <1>5, <1>7, <1>8, <1>9 DEF RecordSays

\* Only filing renews a cohort's record.
LEMMA RecordStays ==
    ASSUME ListInv, ListNext, MapsInv', NEW c \in Keys(ended'), ~Filed(c)
    PROVE  c \in Keys(ended) /\ Lookup(ended', c) = Lookup(ended, c)
<1>0. EndedStep
  BY EndedSteps
<1>m. ended \in Seq(EndedRecord) /\ Distinct(ended)
  BY DEF ListInv, MapsInv
<1>1. StillSays(ended', ended, c)
  <2>1. CASE UNCHANGED ended
    BY <2>1 DEF StillSays
  <2>2. ASSUME NEW d \in Cohort, ended' = Delete(ended, d)
        PROVE  StillSays(ended', ended, c)
    BY <1>m, <2>2, DeleteLookup
  <2>3. ASSUME NEW d \in Cohort, Filed(d), d # c
        PROVE  StillSays(ended', ended, c)
    <3>1. PICK chip \in Chips, via \in BOOLEAN : RememberEnded(d, chip, via)
      BY <2>3 DEF Filed
    <3> QED
      BY <2>3, <3>1, RecordFiled DEF ListInv
  <2> QED
    BY <1>0, <2>1, <2>2, <2>3 DEF EndedStep
<1> QED
  BY <1>1 DEF StillSays

\* A record goes on saying what happened, and no end goes unrecorded.
LEMMA NextEndedInv ==
    ASSUME ListInv, ListNext
    PROVE  EndedInv'
<1> USE DEF ListInv, BookInv, IInv
<1> DEFINE RecordIsSo(c) ==
      \E chip \in Chips, via \in BOOLEAN :
         /\ chip = Lookup(ended', c).chip /\ via = Lookup(ended', c).viaFallback
         /\ RecordSays(c, chip, via)'
<1>0. MapsInv' /\ EndedStep
  BY NextMapsInv, EndedSteps
<1>m. /\ ended \in Seq(EndedRecord) /\ Distinct(ended)
      /\ ended' \in Seq(EndedRecord) /\ Distinct(ended')
  BY <1>0 DEF MapsInv
<1>1. ASSUME NEW c \in Keys(ended')
      PROVE  RecordIsSo(c)
  <2>1. ASSUME Filed(c)
        PROVE  RecordIsSo(c)
    <3>0. c \in Cohort
      <4>1. Position(ended', c) \in DOMAIN ended' /\ ended'[Position(ended', c)].id = c
        BY PositionProperty
      <4>2. DOMAIN ended' = 1 .. Len(ended')
        BY <1>m, LenProperties
      <4>3. ended'[Position(ended', c)] \in EndedRecord
        BY <1>m, <4>1, <4>2, ElementOfSeq
      <4> QED
        BY <4>1, <4>3 DEF EndedRecord
    <3>1. PICK chip \in Chips, via \in BOOLEAN :
             RememberEnded(c, chip, via) /\ RecordSays(c, chip, via)'
      BY <2>1 DEF Filed
    <3>2. Lookup(ended', c) = [id |-> c, chip |-> chip, viaFallback |-> via]
      BY <3>0, <3>1, RecordFiled
    <3>3. Lookup(ended', c).chip = chip /\ Lookup(ended', c).viaFallback = via
      BY <3>2
    <3> QED
      BY <3>1, <3>3
  <2>2. ASSUME ~Filed(c), c \in Keys(ended), Lookup(ended', c) = Lookup(ended, c)
        PROVE  RecordIsSo(c)
    <3>1. PICK chip \in Chips, via \in BOOLEAN :
             chip = Lookup(ended, c).chip /\ via = Lookup(ended, c).viaFallback
      BY <2>2, RecordOfCohort
    <3>2. RecordSays(c, chip, via)
      BY <2>2, <3>1, RecordOfCohort
    <3>3. RecordSays(c, chip, via)'
      BY <2>2, <3>2, RecordKept
    <3> QED
      BY <2>2, <3>1, <3>3
  <2>3. ~Filed(c) => c \in Keys(ended) /\ Lookup(ended', c) = Lookup(ended, c)
    BY <1>0, RecordStays
  <2> QED
    BY <2>1, <2>2, <2>3
<1>2. ASSUME NEW i \in DOMAIN ended'
      PROVE  RecordSays(ended[i].id, ended[i].chip, ended[i].viaFallback)'
  <2>1. /\ ended'[i].id \in Keys(ended')
        /\ Lookup(ended', ended'[i].id) = ended'[i]
    BY <1>m, LookupEntry
  <2>2. PICK c \in Keys(ended') : c = ended'[i].id
    BY <2>1
  <2>3. PICK chip \in Chips, via \in BOOLEAN :
          /\ chip = Lookup(ended', c).chip /\ via = Lookup(ended', c).viaFallback
          /\ RecordSays(c, chip, via)'
    BY <1>1
  <2> QED
    BY <2>1, <2>2, <2>3 DEF RecordSays
<1>3. ASSUME NEW c \in Cohort, cause'[c] \in {"completed", "failed", "canceled"}
      PROVE  c \in Keys(ended') \cup gone'
  <2>1. CASE Filed(c)
    <3>1. PICK chip \in Chips, via \in BOOLEAN : RememberEnded(c, chip, via)
      BY <2>1 DEF Filed
    <3> QED
      BY <3>1, RecordFiled
  <2>2. CASE ~Filed(c)
    <3>1. SessionStep(c)
      BY SessionSteps
    <3>2. cause'[c] = cause[c]
      BY <1>0, <1>3, <2>2, <3>1 DEF SessionStep, EndedStep
    <3> QED
      BY <1>3, <3>2, GoneSteps DEF EndedInv
  <2> QED
    BY <2>1, <2>2
<1> QED
  BY <1>2, <1>3 DEF EndedInv

\* The books, the watch and the broadcaster are set out together.
LEMMA InitListInv == ListInit => ListInv
<1> SUFFICES ASSUME ListInit PROVE ListInv
  OBVIOUS
<1>1. BookInv
  BY InitBookInv DEF ListInit
<1>2. MapsInv
  <2>1. <<>> \in Seq(LiveEntry) /\ <<>> \in Seq(EndedRecord) /\ <<>> \in Seq(AnchorEntry)
        /\ Len(<<>>) = 0 /\ DOMAIN <<>> = {}
    OBVIOUS
  <2> QED
    BY <2>1, MonitorAssumption, CapAssumption DEF ListInit, MapsInv, Distinct
<1>3. WatchInv
  BY DEF ListInit, WatchInv, TxStates
<1>4. PathInv /\ MarksInv /\ EndedInv
  BY DEF ListInit, Init, PathInv, MarksInv, EndedInv, NoPhase
<1> QED
  BY <1>1, <1>2, <1>3, <1>4 DEF ListInv

\* Every step of the list keeps the invariant.
LEMMA NextListInv == ListInv /\ [ListNext]_listVars => ListInv'
<1> SUFFICES ASSUME ListInv, [ListNext]_listVars PROVE ListInv'
  OBVIOUS
<1>1. CASE ListNext
  <2>1. BookInv'
    BY <1>1, ListStepsBook, NextBookInv DEF ListInv
  <2> QED
    BY <1>1, <2>1, NextMapsInv, NextPathInv, NextEndedInv DEF ListInv
<1>2. CASE UNCHANGED listVars
  <2>1. BookInv'
    BY <1>2, NextBookInv DEF ListInv, listVars
  <2>2. UNCHANGED <<entries, ended, anchors, watching, lastView, tx, fell, gone, phase, cause>>
    BY <1>2 DEF listVars, listOnly, monitorVars, vars, runnerVars, historyVars
  <2>3. MapsInv' /\ WatchInv' /\ MarksInv'
    BY <2>2 DEF ListInv, MapsInv, WatchInv, MarksInv, Distinct
  <2>4. PathInv'
    BY <2>2 DEF ListInv, PathInv
  <2>5. EndedInv'
    BY <2>2 DEF ListInv, EndedInv, RecordSays, Keys
  <2> QED
    BY <2>1, <2>3, <2>4, <2>5 DEF ListInv
<1> QED
  BY <1>1, <1>2

\* In every reachable state the monitor's records and the book tell one story of
\* every cohort.
THEOREM ListInvariant == ListSpec => []ListInv
BY InitListInv, NextListInv, PTL DEF ListSpec

\* Every value of the list's own tables is one the code can hold.
THEOREM ListTyped == ListSpec => []ListTypeOK
<1>1. ListInv => ListTypeOK
  BY DEF ListInv, BookInv, IInv, WatchInv, ListTypeOK
<1> QED
  BY <1>1, ListInvariant, PTL

\* Whatever adverts were published, finitely many cohorts are live.
LEMMA FinitelyMany ==
    ASSUME BookInv, [Next]_vars, IsFiniteSet(advertised)
    PROVE  IsFiniteSet(advertised')
<1> USE DEF BookInv
<1>1. \/ advertised' = advertised
      \/ \E c \in Cohort : advertised' \in {advertised \cup {c}, advertised \ {c}}
  BY DEF Next, DraftStep, OperatorStep, RunnerStep, TimerStep, SettleStep, SetPaused, StopService,
     CreateDraft, UpdateDraft, DiscardDraft, AdvertiseDraft, Advertise, ReadvertiseExpired,
     CancelCohort, FinalizeCohort, ForgetTerminal, RunnerAdvance, RunnerComplete, RunnerFail,
     WindowExpires, SettleCompletion, LeaveBook, vars, operatorVars
<1> QED
  BY <1>1, FS_AddElement, FS_RemoveElement

\* Finitely many cohorts are advertised at any time, however many ids there are.
LEMMA FiniteInvariant == ListSpec => []IsFiniteSet(advertised)
<1>1. ListInit => IsFiniteSet(advertised)
  BY FS_EmptySet DEF ListInit, Init
<1>2. ListInv /\ IsFiniteSet(advertised) /\ [ListNext]_listVars => IsFiniteSet(advertised)'
  <2>1. [ListNext]_listVars => [Next]_vars
    BY ListStepsBook DEF listVars
  <2> QED
    BY <2>1, FinitelyMany DEF ListInv
<1> QED
  BY <1>1, <1>2, ListInvariant, PTL DEF ListSpec

-----------------------------------------------------------------------------
(* The rows of the list *)

\* The chip of a cohort's row, and the state of the book it carries.
RowChip(c) == IF c \in terminalKeys THEN terminal[c].fate ELSE summaryChip(c, Tier(c))
RowState(c) == IF c \in terminalKeys THEN terminal[c].fate
               ELSE IF c \in directory THEN "advertised" ELSE "absent"

\* What decides a cohort's chip: a live one is filling, co-signing or waiting for
\* funds; one in a terminal record shows its fate; else the monitor's record.
LEMMA ChipCases ==
    ASSUME ListInv, NEW c \in Cohort
    PROVE  /\ c \in directory <=> phase[c] # NoPhase
           /\ phase[c] # NoPhase <=> cause[c] = "live"
           /\ phase[c] # NoPhase => c \notin terminalKeys /\ RowChip(c) \in LiveChips
           /\ c \in terminalKeys =>
                 /\ terminal[c].fate \in {"expired", "canceled"}
                 /\ terminal[c].fate = "canceled" => cause[c] = "canceled"
                 /\ terminal[c].fate = "expired" => cause[c] \in {"window-expired", "failed", "stopped"}
           /\ phase[c] = NoPhase /\ c \notin terminalKeys =>
                 RowChip(c) = IF c \in Keys(ended) THEN Lookup(ended, c).chip ELSE "none"
<1> USE DEF ListInv, BookInv, IInv
<1>1. /\ phase[c] \in DISPLAY_PHASES \cup {NoPhase} /\ NoPhase \notin DISPLAY_PHASES
      /\ advertised \subseteq Cohort
      /\ terminal[c] \in TerminalRecord \cup {NoRecord}
  BY DEF TypeOK, DISPLAY_PHASES, OPEN_PHASES, IN_FLIGHT_PHASES, NoPhase
<1>2. phase[c] # NoPhase => c \in advertised /\ terminal[c] = NoRecord
  BY DEF AdvertisedInv, RecordInv
<1>3. phase[c] # NoPhase <=> cause[c] = "live"
  BY DEF SessionInv
<1>4. phase[c] # NoPhase => Tier(c) \in {"filling", "co-signing"}
  BY <1>1 DEF Tier, DISPLAY_PHASES
<1>5. phase[c] = NoPhase => Tier(c) = "none"
  BY DEF Tier, OPEN_PHASES, IN_FLIGHT_PHASES, NoPhase
<1>6. phase[c] # NoPhase => c \notin terminalKeys /\ RowChip(c) \in LiveChips
  <2>1. ASSUME phase[c] # NoPhase PROVE summaryChip(c, Tier(c)) \in LiveChips
    BY <1>4, <2>1 DEF summaryChip, LiveChips
  <2> QED
    BY <1>2, <2>1 DEF RowChip, terminalKeys
<1>7. ASSUME c \in terminalKeys
      PROVE  /\ terminal[c].fate \in {"expired", "canceled"}
             /\ terminal[c].fate = "canceled" => cause[c] = "canceled"
             /\ terminal[c].fate = "expired" => cause[c] \in {"window-expired", "failed", "stopped"}
  <2>1. terminal[c] \in TerminalRecord
    BY <1>1, <1>7 DEF terminalKeys
  <2>2. terminal[c].fate \in {"expired", "canceled"}
        /\ terminal[c].reason \in {"canceled", "window-expired", "library"}
    BY <2>1 DEF TerminalRecord
  <2> QED
    BY <2>2 DEF RecordInv
<1>8. phase[c] = NoPhase /\ c \notin terminalKeys =>
         RowChip(c) = IF c \in Keys(ended) THEN Lookup(ended, c).chip ELSE "none"
  BY <1>5 DEF RowChip, summaryChip
<1> QED
  BY <1>1, <1>2, <1>3, <1>6, <1>7, <1>8 DEF directory

\* The summary has one row at most for a cohort, and none for anything else.
LEMMA SummaryRows ==
    /\ \A c \in Cohort :
          (IF \E r \in summary : r.id = c THEN (CHOOSE r \in summary : r.id = c).chip ELSE "none")
             = summaryChip(c, Tier(c))
    /\ \A r \in summary : r.id \in Cohort /\ r.chip = summaryChip(r.id, Tier(r.id))
                          /\ r.chip # "none"
<1>1. \A r \in summary : \E c \in Cohort :
          r = [id |-> c, chip |-> summaryChip(c, Tier(c))] /\ r.chip # "none"
  BY DEF summary
<1>2. \A r \in summary : r.id \in Cohort /\ r.chip = summaryChip(r.id, Tier(r.id))
                         /\ r.chip # "none"
  BY <1>1
<1>3. ASSUME NEW c \in Cohort
      PROVE  (IF \E r \in summary : r.id = c THEN (CHOOSE r \in summary : r.id = c).chip ELSE "none")
                = summaryChip(c, Tier(c))
  <2>1. CASE \E r \in summary : r.id = c
    <3>1. (CHOOSE r \in summary : r.id = c) \in summary
          /\ (CHOOSE r \in summary : r.id = c).id = c
      BY <2>1
    <3> QED
      BY <1>2, <2>1, <3>1
  <2>2. CASE ~\E r \in summary : r.id = c
    <3>1. ASSUME summaryChip(c, Tier(c)) # "none" PROVE FALSE
      <4> DEFINE r == [id |-> c, chip |-> summaryChip(c, Tier(c))]
      <4>1. r \in summary
        BY <3>1 DEF summary
      <4> QED
        BY <2>2, <4>1
    <3> QED
      BY <2>2, <3>1
  <2> QED
    BY <2>1, <2>2
<1> QED
  BY <1>2, <1>3

DraftRow(d) == [id |-> d, state |-> "draft", chip |-> "draft"]
CohortRow(c) == [id |-> c, state |-> RowState(c), chip |-> RowChip(c)]

Shown == {c \in Cohort : RowChip(c) # "none"}
Drafted == {d \in Draft : drafts[d] # None}

\* The two reads, joined: a row for each draft, and one for each cohort a book shows.
LEMMA RowsAre ==
    ASSUME ListInv
    PROVE  Rows = {DraftRow(d) : d \in Drafted} \cup {CohortRow(c) : c \in Shown}
<1> DEFINE chipOf(id) == IF \E r \in summary : r.id = id
                         THEN (CHOOSE r \in summary : r.id = id).chip ELSE "none"
           ids == {k.id : k \in listCohorts}
           joined == {[id |-> k.id, state |-> k.state, chip |-> chipForCohort(k.state, chipOf(k.id))] :
                         k \in listCohorts}
           absent == {[id |-> r.id, state |-> "absent", chip |-> r.chip] :
                         r \in {x \in summary : x.id \notin ids}}
<1>1. Rows = joined \cup absent
  BY DEF Rows, groupRenderRows
<1>2. \A c \in Cohort : chipOf(c) = summaryChip(c, Tier(c))
  BY SummaryRows
<1>3. /\ \A d \in Drafted : [id |-> d, state |-> "draft"] \in listCohorts
      /\ \A c \in directory : [id |-> c, state |-> "advertised"] \in listCohorts
      /\ \A c \in terminalKeys : [id |-> c, state |-> terminal[c].fate] \in listCohorts
  BY DEF listCohorts, Drafted
<1>4. ASSUME NEW k \in listCohorts
      PROVE  \/ \E d \in Drafted : k = [id |-> d, state |-> "draft"]
             \/ \E c \in directory : k = [id |-> c, state |-> "advertised"]
             \/ \E c \in terminalKeys : k = [id |-> c, state |-> terminal[c].fate]
  <2>1. CASE k \in [id : Drafted, state : {"draft"}]
    BY <2>1
  <2>2. CASE k \in [id : directory, state : {"advertised"}]
    BY <2>2
  <2>3. CASE k \in {[id |-> c, state |-> terminal[c].fate] : c \in terminalKeys}
    BY <2>3
  <2> QED
    BY <1>4, <2>1, <2>2, <2>3 DEF listCohorts, Drafted
<1>5. directory \subseteq Cohort /\ terminalKeys \subseteq Cohort /\ Drafted \cap Cohort = {}
  BY IdAssumption DEF directory, terminalKeys, Drafted, ListInv, BookInv, IInv, TypeOK
<1>6. ASSUME NEW id
      PROVE  id \in ids <=> id \in Drafted \cup directory \cup terminalKeys
  <2>1. ASSUME id \in ids
        PROVE  id \in Drafted \cup directory \cup terminalKeys
    <3>1. PICK k \in listCohorts : id = k.id
      BY <2>1
    <3>2. \/ \E d \in Drafted : k = [id |-> d, state |-> "draft"]
          \/ \E c \in directory : k = [id |-> c, state |-> "advertised"]
          \/ \E c \in terminalKeys : k = [id |-> c, state |-> terminal[c].fate]
      BY <1>4
    <3> QED
      BY <3>1, <3>2
  <2>3. ASSUME id \in Drafted
        PROVE  id \in ids
    <3>1. [id |-> id, state |-> "draft"] \in listCohorts
      BY <1>3, <2>3
    <3> QED
      BY <3>1
  <2>4. ASSUME id \in directory
        PROVE  id \in ids
    <3>1. [id |-> id, state |-> "advertised"] \in listCohorts
      BY <1>3, <2>4
    <3> QED
      BY <3>1
  <2>5. ASSUME id \in terminalKeys
        PROVE  id \in ids
    <3>1. [id |-> id, state |-> terminal[id].fate] \in listCohorts
      BY <1>3, <2>5
    <3> QED
      BY <3>1
  <2> QED
    BY <2>1, <2>3, <2>4, <2>5
<1>7. ASSUME NEW c \in directory
      PROVE  /\ c \in Shown /\ RowState(c) = "advertised"
             /\ chipForCohort("advertised", chipOf(c)) = RowChip(c)
  <2>1. /\ c \in Cohort /\ c \notin terminalKeys /\ RowChip(c) \in LiveChips
    BY <1>5, ChipCases
  <2>2. chipOf(c) = RowChip(c) /\ RowChip(c) # "none"
    BY <1>2, <2>1 DEF RowChip, LiveChips
  <2> QED
    BY <2>1, <2>2 DEF chipForCohort, RowState, Shown
<1>8. ASSUME NEW c \in terminalKeys
      PROVE  /\ c \in Shown /\ RowState(c) = terminal[c].fate
             /\ chipForCohort(terminal[c].fate, chipOf(c)) = RowChip(c)
  BY <1>5, <1>8, ChipCases DEF chipForCohort, RowState, RowChip, Shown
<1> HIDE DEF chipOf, ids
<1>9. ASSUME NEW row \in joined
      PROVE  row \in {DraftRow(d) : d \in Drafted} \cup {CohortRow(c) : c \in Shown}
  <2>1. PICK k \in listCohorts : row = [id |-> k.id, state |-> k.state,
                                        chip |-> chipForCohort(k.state, chipOf(k.id))]
    BY <1>9
  <2>2. ASSUME NEW d \in Drafted, k = [id |-> d, state |-> "draft"]
        PROVE  row = DraftRow(d)
    BY <2>1, <2>2 DEF DraftRow, chipForCohort
  <2>3. ASSUME NEW c \in directory, k = [id |-> c, state |-> "advertised"]
        PROVE  row = CohortRow(c) /\ c \in Shown
    BY <1>7, <2>1, <2>3 DEF CohortRow
  <2>4. ASSUME NEW c \in terminalKeys, k = [id |-> c, state |-> terminal[c].fate]
        PROVE  row = CohortRow(c) /\ c \in Shown
    BY <1>8, <2>1, <2>4 DEF CohortRow
  <2> QED
    BY <1>4, <2>2, <2>3, <2>4
<1>10. ASSUME NEW row \in absent
       PROVE  row \in {CohortRow(c) : c \in Shown}
  <2>1. PICK r \in summary : r.id \notin ids /\ row = [id |-> r.id, state |-> "absent", chip |-> r.chip]
    BY <1>10
  <2>2. r.id \in Cohort /\ r.chip = summaryChip(r.id, Tier(r.id)) /\ r.chip # "none"
    BY SummaryRows
  <2>3. r.id \notin directory /\ r.id \notin terminalKeys
    BY <1>6, <2>1
  <2> QED
    BY <2>1, <2>2, <2>3 DEF CohortRow, Shown, RowState, RowChip
<1>11. ASSUME NEW d \in Drafted
       PROVE  DraftRow(d) \in joined
  <2> DEFINE k == [id |-> d, state |-> "draft"]
  <2>1. k \in listCohorts /\ k.id = d /\ k.state = "draft"
    BY <1>3
  <2>2. DraftRow(d) = [id |-> k.id, state |-> k.state, chip |-> chipForCohort(k.state, chipOf(k.id))]
    BY DEF DraftRow, chipForCohort
  <2> QED
    BY <2>1, <2>2
<1>12. ASSUME NEW c \in Shown
       PROVE  CohortRow(c) \in joined \cup absent
  <2>1. CASE c \in directory
    <3> DEFINE k == [id |-> c, state |-> "advertised"]
    <3>1. k \in listCohorts
      BY <1>3, <2>1
    <3>2. CohortRow(c) = [id |-> k.id, state |-> k.state, chip |-> chipForCohort(k.state, chipOf(k.id))]
      BY <1>7, <2>1 DEF CohortRow
    <3> QED
      BY <3>1, <3>2
  <2>2. CASE c \in terminalKeys
    <3> DEFINE k == [id |-> c, state |-> terminal[c].fate]
    <3>1. k \in listCohorts
      BY <1>3, <2>2
    <3>2. CohortRow(c) = [id |-> k.id, state |-> k.state, chip |-> chipForCohort(k.state, chipOf(k.id))]
      BY <1>8, <2>2 DEF CohortRow
    <3> QED
      BY <3>1, <3>2
  <2>3. CASE c \notin directory /\ c \notin terminalKeys
    <3> DEFINE r == [id |-> c, chip |-> summaryChip(c, Tier(c))]
    <3>1. c \in Cohort /\ RowChip(c) = summaryChip(c, Tier(c)) /\ RowChip(c) # "none"
          /\ RowState(c) = "absent"
      BY <2>3 DEF RowChip, RowState, Shown
    <3>2. r \in summary
      BY <3>1 DEF summary
    <3>3. c \notin ids
      BY <1>5, <1>6, <2>3, <3>1
    <3>4. CohortRow(c) = [id |-> r.id, state |-> "absent", chip |-> r.chip]
      BY <3>1 DEF CohortRow
    <3> QED
      BY <3>2, <3>3, <3>4
  <2> QED
    BY <2>1, <2>2, <2>3
<1> QED
  BY <1>1, <1>9, <1>10, <1>11, <1>12

\* A chip is one of a live cohort exactly while the cohort is in the session.
LEMMA LiveRows ==
    ASSUME ListInv, NEW c \in Cohort
    PROVE  RowChip(c) \in LiveChips <=> phase[c] # NoPhase
<1>1. CASE phase[c] # NoPhase
  BY <1>1, ChipCases
<1>2. CASE phase[c] = NoPhase /\ c \in terminalKeys
  BY <1>2, ChipCases DEF RowChip, LiveChips
<1>3. CASE phase[c] = NoPhase /\ c \notin terminalKeys
  BY <1>3, ChipCases, RecordOfCohort DEF LiveChips, Chips, ListInv
<1> QED
  BY <1>1, <1>2, <1>3

\* The one row of a cohort.
LEMMA RowOfCohort ==
    ASSUME ListInv, NEW c \in Cohort
    PROVE  {row \in Rows : row.id = c} = IF c \in Shown THEN {CohortRow(c)} ELSE {}
<1>1. \A row \in Rows : row.id = c => c \in Shown /\ row = CohortRow(c)
  BY RowsAre, IdAssumption DEF DraftRow, CohortRow, Drafted
<1>2. c \in Shown => CohortRow(c) \in Rows /\ CohortRow(c).id = c
  BY RowsAre DEF CohortRow
<1> QED
  BY <1>1, <1>2

\* A completed cohort is in no terminal record, and out of the session.
LEMMA CompletedRows ==
    ASSUME ListInv, NEW c \in Cohort, cause[c] = "completed"
    PROVE  /\ c \notin terminalKeys /\ phase[c] = NoPhase
           /\ RowChip(c) = IF c \in Keys(ended) THEN Lookup(ended, c).chip ELSE "none"
BY ChipCases

\* Whatever either book shows of a cohort is what happened to it.
THEOREM RowsAreTrue == ListSpec => []RowsTellTheFate
<1>1. ASSUME ListInv, NEW c \in Cohort
      PROVE  LET mine == {row \in Rows : row.id = c}
             IN  /\ Cardinality(mine) <= 1
                 /\ MustShow(c) => mine # {}
                 /\ \A row \in mine :
                       /\ ChipTrue(c, row.chip)
                       /\ cause[c] = "completed" /\ c \notin gone =>
                             (groupForChip(row.chip) = "attention"
                                 <=> c \in fell \/ tx[c] = "failed")
  <2> USE <1>1
  <2>1. {row \in Rows : row.id = c} = IF c \in Shown THEN {CohortRow(c)} ELSE {}
    BY RowOfCohort
  <2>2. Cardinality({row \in Rows : row.id = c}) <= 1
    <3>1. Cardinality({row \in Rows : row.id = c}) \in {0, 1}
      BY <2>1, FS_EmptySet, FS_Singleton
    <3> QED
      BY <3>1
  <2>3. MustShow(c) => c \in Shown
    <3>1. CASE phase[c] # NoPhase
      BY <3>1, ChipCases DEF Shown, LiveChips
    <3>2. CASE c \in terminalKeys
      BY <3>2, ChipCases DEF Shown, RowChip
    <3>3. CASE phase[c] = NoPhase /\ c \notin terminalKeys
      <4>1. MustShow(c) => c \in Keys(ended)
        BY <3>3 DEF MustShow, ListInv, EndedInv
      <4> QED
        BY <3>3, <4>1, ChipCases, RecordOfCohort DEF ListInv, Shown, Chips
    <3> QED
      BY <3>1, <3>2, <3>3
  <2>4. ChipTrue(c, RowChip(c)) \/ c \notin Shown
    <3>1. CASE phase[c] # NoPhase
      BY <3>1, ChipCases DEF ChipTrue, LiveChips
    <3>2. CASE c \in terminalKeys
      BY <3>2, ChipCases DEF RowChip, ChipTrue, LiveChips
    <3>3. CASE phase[c] = NoPhase /\ c \notin terminalKeys /\ c \in Keys(ended)
      <4>1. RowChip(c) \in Chips /\ RecordSays(c, RowChip(c), Lookup(ended, c).viaFallback)
        BY <3>3, ChipCases, RecordOfCohort DEF ListInv
      <4> QED
        BY <4>1 DEF RecordSays, Chips, ChipTrue, LiveChips
    <3>4. CASE phase[c] = NoPhase /\ c \notin terminalKeys /\ c \notin Keys(ended)
      BY <3>4, ChipCases DEF Shown
    <3> QED
      BY <3>1, <3>2, <3>3, <3>4
  <2>5. ASSUME c \in Shown, cause[c] = "completed", c \notin gone
        PROVE  groupForChip(RowChip(c)) = "attention" <=> c \in fell \/ tx[c] = "failed"
    <3>1. c \in Keys(ended) /\ RowChip(c) = Lookup(ended, c).chip
      BY <2>5, CompletedRows DEF Shown
    <3>2. RowChip(c) \in Chips /\ RecordSays(c, RowChip(c), Lookup(ended, c).viaFallback)
      BY <3>1, RecordOfCohort DEF ListInv
    <3> QED
      BY <2>5, <3>2 DEF RecordSays, Chips, groupForChip
  <2>6. CohortRow(c).chip = RowChip(c)
    BY DEF CohortRow
  <2> QED
    BY <2>1, <2>2, <2>3, <2>4, <2>5, <2>6
<1>2. ListInv => RowsTellTheFate
  BY <1>1 DEF RowsTellTheFate
<1> QED
  BY <1>2, ListInvariant, PTL

\* No frame was heard of a live cohort's transaction.
LEMMA LiveIsNotAnchored ==
    ASSUME ListInv, NEW c \in Cohort, phase[c] # NoPhase
    PROVE  A!AnchorRead(c) = "none"
<1>1. tx[c] = "none"
  BY ChipCases DEF ListInv, PathInv
<1>2. c \notin Keys(anchors)
  BY <1>1 DEF ListInv, MarksInv, Keys
<1> QED
  BY <1>2, SameReading

\* A dismissal, re-advertise, cancel or finalize that a fresh page offers is granted by
\* the service, and a live cohort's row always offers the cancel (CohortRow,
\* LifecycleActions against dismissEnded, cancelCohort, readvertiseExpired).
THEOREM OffersAreGranted == ListSpec => []OffersAreHonoured
<1> DEFINE Offered(row) == RowOffers(row)
                \cup (IF "open" \in RowOffers(row) THEN DetailOffers(buildDetail(row.id)) ELSE {})
           Granted(row) ==
             /\ "dismiss" \in Offered(row) =>
                   /\ DismissAccepted(row.id)
                   /\ terminal[row.id].fate = "expired" => dismissDropsReadvertise(row)
             /\ "re-advertise" \in Offered(row) => ~paused /\ row.id \in terminalKeys
             /\ "cancel" \in Offered(row) => row.id \in advertised
             /\ "finalize" \in Offered(row) =>
                   row.id \in advertised /\ phase[row.id] \in FINALIZABLE_PHASES
             /\ row.chip \in LiveChips => "cancel" \in Offered(row)
<1>1. ASSUME NEW d \in Drafted
      PROVE  Granted(DraftRow(d))
  <2>1. /\ DraftRow(d).state = "draft" /\ DraftRow(d).chip = "draft"
    BY DEF DraftRow
  <2>2. RowOffers(DraftRow(d)) \subseteq {"edit", "discard", "advertise"}
    BY <2>1 DEF RowOffers, groupForChip
  <2>3. Offered(DraftRow(d)) \subseteq {"edit", "discard", "advertise"}
    BY <2>2
  <2> QED
    BY <2>1, <2>3 DEF LiveChips
<1>2. ASSUME ListInv, NEW c \in Shown
      PROVE  Granted(CohortRow(c))
  <2> USE <1>2 DEF ListInv, BookInv, IInv
  <2> DEFINE row == CohortRow(c)
  <2>1. /\ c \in Cohort /\ RowChip(c) # "none"
        /\ row.id = c /\ row.state = RowState(c) /\ row.chip = RowChip(c)
    BY DEF Shown, CohortRow
  <2>2. /\ RowState(c) \in {"expired", "canceled", "advertised", "absent"}
        /\ RowState(c) = "expired" <=> c \in terminalKeys /\ terminal[c].fate = "expired"
        /\ c \in directory => RowState(c) = "advertised"
    BY <2>1, ChipCases DEF RowState
  <2> HIDE DEF row
  <2>3. ASSUME "dismiss" \in RowOffers(row)
        PROVE  DismissAccepted(c) /\ (terminal[c].fate = "expired" => RowState(c) = "expired")
    <3>1. groupForChip(RowChip(c)) = "ended"
      BY <2>1, <2>3 DEF RowOffers
    <3>2. RowChip(c) \notin LiveChips
      BY <3>1 DEF groupForChip, LiveChips
    <3>3. phase[c] = NoPhase /\ phase[c] \notin DISPLAY_PHASES
      BY <2>1, <3>2, LiveRows DEF NoPhase, DISPLAY_PHASES, OPEN_PHASES, IN_FLIGHT_PHASES
    <3>4. c \in terminalKeys \/ c \in Keys(ended)
      BY <2>1, <3>3, ChipCases
    <3>5. terminal[c].fate = "expired" => c \in terminalKeys
      BY <2>1 DEF terminalKeys, NoRecord
    <3> QED
      BY <2>2, <3>3, <3>4, <3>5 DEF DismissAccepted, MonitorClears, BookClears
  <2>4. /\ buildDetail(c).exists <=> c \in Keys(entries) \/ phase[c] # NoPhase
        /\ buildDetail(c).phase = phase[c] /\ buildDetail(c).anchor = A!AnchorRead(c)
        /\ buildDetail(c).used = FellBack(c)
    BY DEF buildDetail
  <2>5. phase[c] \in DISPLAY_PHASES => c \in advertised
    BY <2>1, ChipCases DEF directory, NoPhase, DISPLAY_PHASES, OPEN_PHASES, IN_FLIGHT_PHASES
  <2>6. "cancel" \in DetailOffers(buildDetail(c)) => c \in advertised
    BY <2>4, <2>5 DEF DetailOffers, cancelAvailability
  <2>7. "finalize" \in DetailOffers(buildDetail(c)) =>
           c \in advertised /\ phase[c] \in FINALIZABLE_PHASES
    BY <2>4, <2>5 DEF DetailOffers, finalizeAvailability, FINALIZABLE_PHASES, DISPLAY_PHASES,
       IN_FLIGHT_PHASES
  <2>8. RowOffers(row) \cap {"cancel", "finalize"} = {}
    BY DEF RowOffers
  <2>9. DetailOffers(buildDetail(c)) \cap {"dismiss", "re-advertise"} = {}
    BY DEF DetailOffers
  <2>10. "re-advertise" \in RowOffers(row) => ~paused /\ c \in terminalKeys
    BY <2>1, <2>2 DEF RowOffers
  <2>11. ASSUME RowChip(c) \in LiveChips
         PROVE  "cancel" \in Offered(row)
    <3>1. phase[c] # NoPhase /\ phase[c] \in DISPLAY_PHASES /\ RowState(c) = "advertised"
      BY <2>1, <2>2, <2>11, LiveRows, ChipCases DEF TypeOK
    <3>2. "open" \in RowOffers(row)
      BY <2>1, <3>1 DEF RowOffers
    <3>3. cancelAvailability(buildDetail(c)) = "available"
      BY <2>1, <2>4, <3>1, LiveIsNotAnchored DEF cancelAvailability
    <3> QED
      BY <2>1, <3>2, <3>3 DEF DetailOffers
  <2>12. dismissDropsReadvertise(row) <=> RowState(c) = "expired"
    BY <2>1 DEF dismissDropsReadvertise
  <2> QED
    BY <2>1, <2>3, <2>6, <2>7, <2>8, <2>9, <2>10, <2>11, <2>12 DEF row
<1>3. ListInv => OffersAreHonoured
  <2> SUFFICES ASSUME ListInv, NEW row \in Rows PROVE Granted(row)
    BY DEF OffersAreHonoured
  <2> HIDE DEF Granted
  <2> QED
    BY <1>1, <1>2, RowsAre
<1> QED
  BY <1>3, ListInvariant, PTL

\* The cohorts whose chip is one of chips.
Reading(chips) == {c \in Cohort : RowChip(c) \in chips}

\* Counting rows is counting cohorts: each has one.
LEMMA CountRows ==
    ASSUME ListInv, NEW chips, "draft" \notin chips, "none" \notin chips,
           IsFiniteSet(Reading(chips))
    PROVE  /\ IsFiniteSet({row \in Rows : row.chip \in chips})
           /\ Cardinality({row \in Rows : row.chip \in chips}) = Cardinality(Reading(chips))
<1> DEFINE S == Reading(chips)
           T == {row \in Rows : row.chip \in chips}
           f == [c \in S |-> CohortRow(c)]
<1>1. \A c \in S : CohortRow(c) \in T /\ CohortRow(c).id = c
  BY RowsAre DEF CohortRow, Reading, Shown
<1>2. \A row \in T : \E c \in S : row = CohortRow(c)
  BY RowsAre DEF CohortRow, DraftRow, Reading, Shown
<1> HIDE DEF S, T
<1>3. f \in [S -> T]
  BY <1>1
<1>4. \A a, b \in S : f[a] = f[b] => a = b
  BY <1>1
<1>5. \A t \in T : \E s \in S : f[s] = t
  BY <1>2
<1>6. f \in Bijection(S, T)
  BY <1>3, <1>4, <1>5 DEF Bijection, Injection, Surjection, IsInjective
<1>7. ExistsBijection(S, T)
  BY <1>6 DEF ExistsBijection
<1> QED
  BY <1>7, FS_Bijection DEF S, T

\* The cohorts that read failed or expired include every one the monitor counts
\* failed.
LEMMA WhoReads ==
    ASSUME ListInv, NEW c \in Cohort
    PROVE  /\ RowChip(c) \in {"anchored", "fallback"}
                 <=> c \in Keys(ended) /\ Lookup(ended, c).chip \in {"anchored", "fallback"}
           /\ c \in Keys(ended) /\ Lookup(ended, c).chip = "failed"
                 => RowChip(c) \in {"failed", "expired"}
           /\ RowChip(c) \in {"failed", "expired"} => c \in terminalKeys \cup Keys(ended)
<1>1. CASE phase[c] # NoPhase
  <2>1. RowChip(c) \notin {"anchored", "fallback", "failed", "expired"}
    BY <1>1, ChipCases DEF LiveChips
  <2>2. tx[c] = "none" /\ cause[c] = "live"
    BY <1>1, ChipCases DEF ListInv, PathInv
  <2>3. c \in Keys(ended) => Lookup(ended, c).chip \notin {"anchored", "fallback", "failed"}
    BY <2>2, RecordOfCohort DEF RecordSays, ListInv
  <2> QED
    BY <2>1, <2>3
<1>2. CASE c \in terminalKeys
  <2>1. /\ RowChip(c) \in {"expired", "canceled"}
        /\ cause[c] \in {"canceled", "window-expired", "failed", "stopped"}
        /\ cause[c] = "failed" => RowChip(c) = "expired"
    BY <1>2, ChipCases DEF RowChip
  <2>2. tx[c] = "none"
    BY <2>1 DEF ListInv, PathInv
  <2>3. c \in Keys(ended) => /\ Lookup(ended, c).chip \notin {"anchored", "fallback"}
                             /\ Lookup(ended, c).chip = "failed" => cause[c] = "failed"
    BY <2>2, RecordOfCohort DEF RecordSays, ListInv
  <2> QED
    BY <1>2, <2>1, <2>3
<1>3. CASE phase[c] = NoPhase /\ c \notin terminalKeys
  BY <1>3, ChipCases
<1> QED
  BY <1>1, <1>2, <1>3

\* The numbers above the list are those of its rows.
THEOREM CountsAreRows == ListSpec => []CountsHaveRows
<1>1. ASSUME ListInv, IsFiniteSet(advertised)
      PROVE  CountsHaveRows
  <2> USE <1>1
  <2> DEFINE Open == {c \in Cohort : phase[c] \in OPEN_PHASES}
             InFlight == {c \in Cohort : phase[c] \in IN_FLIGHT_PHASES}
             With(chips) == {c \in Keys(ended) : Lookup(ended, c).chip \in chips}
  <2>1. Keys(ended) \subseteq Cohort /\ IsFiniteSet(Keys(ended))
    BY RecordOfCohort, KeysCounted DEF ListInv, MapsInv
  <2>2. \A c \in Cohort : phase[c] \in OPEN_PHASES \cup IN_FLIGHT_PHASES <=> phase[c] # NoPhase
    BY DEF ListInv, BookInv, IInv, TypeOK, DISPLAY_PHASES, OPEN_PHASES, IN_FLIGHT_PHASES, NoPhase
  <2>3. Open \cup InFlight \subseteq advertised
    BY <2>2, ChipCases DEF directory
  <2>4. /\ IsFiniteSet(Open) /\ IsFiniteSet(InFlight) /\ IsFiniteSet(Open \cup InFlight)
        /\ Cardinality(Open \cup InFlight) = Cardinality(Open) + Cardinality(InFlight)
    <3>1. Open \cap InFlight = {}
      BY DEF OPEN_PHASES, IN_FLIGHT_PHASES
    <3>2. IsFiniteSet(Open) /\ IsFiniteSet(InFlight)
      <4>1. Open \in SUBSET advertised /\ InFlight \in SUBSET advertised
        BY <2>3
      <4> QED
        BY <4>1, FS_Subset
    <3> HIDE DEF Open, InFlight
    <3>3. /\ IsFiniteSet(Open \cup InFlight)
          /\ Cardinality(Open \cup InFlight)
                = Cardinality(Open) + Cardinality(InFlight) - Cardinality(Open \cap InFlight)
      BY <3>2, FS_Union
    <3>4. Cardinality(Open) \in Nat /\ Cardinality(InFlight) \in Nat /\ Cardinality({}) = 0
      BY <3>2, FS_CardinalityType, FS_EmptySet
    <3>5. Cardinality(Open \cap InFlight) = 0
      BY <3>1, <3>4, Zenon
    <3> QED
      BY <3>2, <3>3, <3>4, <3>5
  <2>5. serviceMetrics.open + serviceMetrics.inFlight
           = Cardinality({row \in Rows : row.chip \in LiveChips})
    <3>1. Reading(LiveChips) = Open \cup InFlight
      BY <2>2, LiveRows DEF Reading
    <3>2. "draft" \notin LiveChips /\ "none" \notin LiveChips
      BY DEF LiveChips
    <3>3. Cardinality({row \in Rows : row.chip \in LiveChips}) = Cardinality(Reading(LiveChips))
      BY <2>4, <3>1, <3>2, CountRows
    <3> QED
      BY <2>4, <3>1, <3>3 DEF serviceMetrics
  <2>6. serviceMetrics.open = status.openCohorts
    <3>1. Open = {c \in directory : phase[c] \in OPEN_PHASES}
      BY <2>2, ChipCases DEF directory, ListInv, BookInv, IInv, TypeOK
    <3> QED
      BY <3>1 DEF serviceMetrics, status, openCount
  <2>7. serviceMetrics.anchored = Cardinality({row \in Rows : row.chip \in {"anchored", "fallback"}})
    <3> DEFINE chips == {"anchored", "fallback"}
    <3>1. Reading(chips) = With(chips)
      BY <2>1, WhoReads DEF Reading
    <3>2. IsFiniteSet(With(chips))
      BY <2>1, FS_Subset
    <3>3. Cardinality({row \in Rows : row.chip \in chips}) = Cardinality(Reading(chips))
      BY <3>1, <3>2, CountRows
    <3> QED
      BY <3>1, <3>3 DEF serviceMetrics, EndedWith
  <2>8. serviceMetrics.failed <= Cardinality({row \in Rows : row.chip \in {"failed", "expired"}})
    <3> DEFINE chips == {"failed", "expired"}
    <3>1. With({"failed"}) \subseteq Reading(chips)
      BY <2>1, WhoReads DEF Reading
    <3>2. Reading(chips) \subseteq terminalKeys \cup Keys(ended)
      BY WhoReads DEF Reading
    <3>3. IsFiniteSet(terminalKeys \cup Keys(ended))
      BY <2>1, FS_Union DEF ListInv, BookInv, CapacityInv
    <3>4. IsFiniteSet(Reading(chips))
      BY <3>2, <3>3, FS_Subset
    <3>5. Cardinality({row \in Rows : row.chip \in chips}) = Cardinality(Reading(chips))
      BY <3>4, CountRows
    <3>6. Cardinality(With({"failed"})) <= Cardinality(Reading(chips))
      BY <3>1, <3>4, FS_Subset
    <3> QED
      BY <3>5, <3>6 DEF serviceMetrics, EndedWith
  <2> QED
    BY <2>5, <2>6, <2>7, <2>8 DEF CountsHaveRows
<1> QED
  BY <1>1, ListInvariant, FiniteInvariant, PTL

\* A record of the book is filed only by the reaction to its cohort's completion.
LEMMA TerminalSteps ==
    ASSUME BookInv, [Next]_vars, NEW c \in Cohort, settling[c] = "no"
    PROVE  terminal'[c] = terminal[c] \/ c \notin terminalKeys'
<1> USE DEF BookInv, IInv
<1>0. terminal \in [Cohort -> TerminalRecord \cup {NoRecord}]
  BY DEF TypeOK
<1>1. CASE terminal' = terminal
  BY <1>1
<1>2. ASSUME NEW d \in Cohort, terminal' = [terminal EXCEPT ![d] = NoRecord]
      PROVE  terminal'[c] = terminal[c] \/ c \notin terminalKeys'
  BY <1>0, <1>2 DEF terminalKeys
<1>3. ASSUME NEW d \in Cohort, SettleCompletion(d)
      PROVE  terminal'[c] = terminal[c] \/ c \notin terminalKeys'
  <2>1. d # c
    BY <1>3 DEF SettleCompletion
  <2>2. \/ terminal' = terminal
        \/ \E kept, record : terminal' = [e \in Cohort |-> IF e \notin kept THEN NoRecord
                                                       ELSE IF e = d THEN record ELSE terminal[e]]
    BY <1>3 DEF SettleCompletion, RememberTerminal
  <2> QED
    BY <2>1, <2>2 DEF terminalKeys
<1>4. \/ terminal' = terminal
      \/ \E d \in Cohort : terminal' = [terminal EXCEPT ![d] = NoRecord]
      \/ \E d \in Cohort : SettleCompletion(d)
  <2>1. CASE DraftStep \/ SetPaused \/ StopService \/ TimerStep \/ RunnerStep
    BY <2>1 DEF DraftStep, CreateDraft, UpdateDraft, DiscardDraft, AdvertiseDraft, SetPaused,
       StopService, TimerStep, WindowExpires, RunnerStep, RunnerAdvance, RunnerComplete,
       RunnerFail, operatorVars
  <2>2. CASE OperatorStep
    BY <2>2 DEF OperatorStep, ReadvertiseExpired, CancelCohort, FinalizeCohort, ForgetTerminal,
       operatorVars
  <2>3. CASE SettleStep
    BY <2>3 DEF SettleStep
  <2>4. CASE UNCHANGED vars
    BY <2>4 DEF vars, operatorVars
  <2> QED
    BY <2>1, <2>2, <2>3, <2>4 DEF Next
<1> QED
  BY <1>1, <1>2, <1>3, <1>4

\* What a cohort's row reads, and of a finished one what that says.
RowReads(c) ==
    /\ ChipOf(c) = RowChip(c)
    /\ phase[c] = NoPhase /\ c \notin terminalKeys =>
          RowChip(c) = IF c \in Keys(ended) THEN Lookup(ended, c).chip ELSE "none"
    /\ c \in terminalKeys => RowChip(c) = terminal[c].fate
    /\ c \in Keys(ended) =>
          /\ Lookup(ended, c).chip \in Chips /\ Lookup(ended, c).viaFallback \in BOOLEAN
          /\ RecordSays(c, Lookup(ended, c).chip, Lookup(ended, c).viaFallback)

\* The row of a cohort is read off the two books.
LEMMA RowsRead ==
    ASSUME ListInv, NEW c \in Cohort
    PROVE  RowReads(c)
<1>1. ChipOf(c) = RowChip(c)
  <2>1. {row \in Rows : row.id = c} = IF c \in Shown THEN {CohortRow(c)} ELSE {}
    BY RowOfCohort
  <2>2. CASE c \in Shown
    <3>1. \E row \in Rows : row.id = c
      BY <2>1, <2>2
    <3>2. (CHOOSE row \in Rows : row.id = c) \in {row \in Rows : row.id = c}
      BY <3>1
    <3>3. (CHOOSE row \in Rows : row.id = c) = CohortRow(c)
      BY <2>1, <2>2, <3>2
    <3>4. ChipOf(c) = (CHOOSE row \in Rows : row.id = c).chip
      BY <3>1, Zenon DEF ChipOf
    <3>5. CohortRow(c).chip = RowChip(c)
      BY DEF CohortRow
    <3> QED
      BY <3>3, <3>4, <3>5
  <2>3. CASE c \notin Shown
    <3>1. ~\E row \in Rows : row.id = c
      BY <2>1, <2>3
    <3> QED
      BY <2>3, <3>1 DEF ChipOf, Shown
  <2> QED
    BY <2>2, <2>3
<1>2. c \in terminalKeys => RowChip(c) = terminal[c].fate
  BY DEF RowChip
<1> QED
  BY <1>1, <1>2, ChipCases, RecordOfCohort DEF RowReads, ListInv

\* A finished cohort's row goes only where its fate may still go.
LEMMA RowMoves ==
    ASSUME ListInv, ListInv', ListNext, NEW c \in Cohort, settling[c] = "no",
           RowReads(c), RowReads(c)',
           RowChip(c) \notin LiveChips \cup {"none"}, RowChip(c)' # "none"
    PROVE  /\ RowChip(c)' \in Later(RowChip(c))
           /\ RowChip(c) = "expired" /\ RowChip(c)' = "failed" =>
                 c \in terminalKeys /\ terminal'[c] = NoRecord
<1> USE DEF ListInv
<1>1. phase[c] = NoPhase
  BY LiveRows
<1>2. cause[c] # "live"
  BY <1>1, ChipCases
<1>3. c \in Keys(ended) => cause[c] # "fresh"
  BY RecordOfCohort DEF RecordSays, Chips, PathInv
<1>4. cause[c] # "fresh"
  BY <1>1, <1>3, ChipCases DEF RowReads
<1>5. phase'[c] = NoPhase /\ cause'[c] = cause[c] /\ (c \in fell' <=> c \in fell)
  BY <1>1, <1>2, <1>4, SessionSteps DEF SessionStep
<1>6. terminal'[c] = terminal[c] \/ c \notin terminalKeys'
  BY ListStepsBook, TerminalSteps
<1>7. c \in terminalKeys' => terminal'[c] = terminal[c] /\ c \in terminalKeys
  BY <1>6 DEF terminalKeys
<1>8. tx'[c] # "none" => cause'[c] = "completed"
  BY DEF PathInv
<1>9. c \notin terminalKeys' => terminal'[c] = NoRecord
  BY DEF terminalKeys
<1> DEFINE was == RowChip(c)
           now == RowChip(c)'
<1>10. CASE c \in terminalKeys'
  <2>1. was = terminal[c].fate /\ now = terminal[c].fate /\ was \in {"expired", "canceled"}
    BY <1>7, <1>10, ChipCases DEF RowReads
  <2> HIDE DEF was, now
  <2>2. now \in Later(was) /\ ~(was = "expired" /\ now = "failed")
    BY <2>1 DEF Later
  <2> QED
    BY <2>2 DEF was, now
<1>11. CASE c \notin terminalKeys' /\ c \in terminalKeys
  <2>1. c \in Keys(ended') /\ now = Lookup(ended', c).chip
    BY <1>5, <1>11 DEF RowReads
  <2>2. PICK chip \in Chips, via \in BOOLEAN : now = chip /\ RecordSays(c, chip, via)'
    BY <2>1 DEF RowReads, RecordSays
  <2>3. /\ was \in {"expired", "canceled"}
        /\ was = "canceled" => cause[c] = "canceled"
        /\ was = "expired" => cause[c] \in {"window-expired", "failed", "stopped"}
    BY <1>11, ChipCases DEF RowReads
  <2> HIDE DEF was, now
  <2>4. chip = IF was = "canceled" THEN "canceled" ELSE "failed"
    BY <1>5, <1>8, <2>2, <2>3 DEF RecordSays, Chips
  <2>5. now \in Later(was)
    BY <2>2, <2>3, <2>4 DEF Later
  <2> QED
    BY <1>9, <1>11, <2>5 DEF was, now
<1>12. CASE c \notin terminalKeys' /\ c \notin terminalKeys
  <2>1. /\ c \in Keys(ended) /\ was = Lookup(ended, c).chip /\ was \in Chips
        /\ c \in Keys(ended') /\ now = Lookup(ended', c).chip /\ now \in Chips
    BY <1>1, <1>5, <1>12 DEF RowReads
  <2>2. CASE ~Filed(c)
    <3>1. now = was
      BY <2>1, <2>2, RecordStays
    <3> HIDE DEF was, now
    <3>2. now \in Later(was) /\ was # "expired"
      BY <2>1, <3>1 DEF Later, Chips
    <3> QED
      BY <3>2 DEF was, now
  <2>3. CASE Filed(c)
    <3>1. PICK chip \in Chips, via \in BOOLEAN : was = chip /\ RecordSays(c, chip, via)
      BY <2>1 DEF RowReads
    <3>2. PICK chip2 \in Chips, via2 \in BOOLEAN : now = chip2 /\ RecordSays(c, chip2, via2)'
      BY <2>1 DEF RowReads, RecordSays
    <3>3. tx[c] \in {"sending", "broadcast"}
      BY <1>2, <2>3 DEF Filed
    <3>4. cause[c] = "completed"
      BY <3>3 DEF PathInv
    <3> HIDE DEF was, now
    <3>5. chip \in {"co-signed", "co-signed-fallback"} /\ c \notin gone
      BY <3>1, <3>3, <3>4 DEF RecordSays, Chips
    <3>6. c \notin gone'
      BY <2>1, <3>5, GoneSteps
    <3>7. /\ chip = "co-signed" => chip2 \in {"co-signed", "anchored", "failed"}
          /\ chip = "co-signed-fallback" => chip2 \in {"co-signed-fallback", "fallback", "failed"}
      BY <1>5, <3>1, <3>2, <3>4, <3>5, <3>6 DEF RecordSays, Chips
    <3>8. now \in Later(was) /\ was # "expired"
      BY <3>1, <3>2, <3>5, <3>7 DEF Later
    <3> QED
      BY <3>8 DEF was, now
  <2> QED
    BY <2>2, <2>3
<1> QED
  BY <1>10, <1>11, <1>12

\* Once a row has read how a cohort ended it never goes back on it.
THEOREM RowsKeepTheirWord == ListSpec => RowsNeverRegress
<1> DEFINE Kept(c) ==
      LET was == ChipOf(c)  now == ChipOf(c)'
      IN  settling[c] = "no" /\ was \notin LiveChips \cup {"none"} /\ now # "none" =>
             /\ now \in Later(was)
             /\ was = "expired" /\ now = "failed" => c \in terminalKeys /\ terminal'[c] = NoRecord
<1>1. ASSUME ListInv, ListInv', ListNext, (\A c \in Cohort : RowReads(c))', NEW c \in Cohort
      PROVE  Kept(c)
  <2>1. RowReads(c) /\ RowReads(c)'
    BY <1>1, RowsRead
  <2>2. ChipOf(c) = RowChip(c) /\ ChipOf(c)' = RowChip(c)'
    BY <2>1 DEF RowReads
  <2> QED
    BY <1>1, <2>1, <2>2, RowMoves
<1>2. ListInv => \A c \in Cohort : RowReads(c)
  BY RowsRead
<1>3. ListInv' => (\A c \in Cohort : RowReads(c))'
  BY <1>2, PTL
<1>4. ListInv /\ ListInv' /\ [ListNext]_listVars => [\A c \in Cohort : Kept(c)]_listVars
  BY <1>1, <1>3
<1> QED
  BY <1>4, ListInvariant, PTL DEF ListSpec, RowsNeverRegress

====
