---- MODULE OperatorCohorts ----
(***************************************************************************)
(* The operator's cohort book (packages/service/src/operator-cohorts.ts)   *)
(* with the intent registry (cohort-intent.ts) and the advert republisher  *)
(* (advert-republish.ts) it drives.  The aggregation library's runner and  *)
(* the transport's single advert cell are external: they are modelled from *)
(* how this code uses them.                                                *)
(*                                                                         *)
(* JavaScript runs one handler to completion.  A request, a timer or a     *)
(* runner event is one action, and the promise reactions it queued         *)
(* (settleCompletion) run before the next one: every such action is        *)
(* guarded by TurnOver.                                                    *)
(***************************************************************************)
EXTENDS CohortPhases, Naturals, Sequences, FiniteSets

CONSTANTS
    Cohort,        \* cohort ids; the library draws a fresh one per advertise
    Draft,         \* draft ids
    Windows,       \* effective discovery windows a draft can have, 0 = none
    CohortTtl,     \* the service's cohort TTL, the ceiling of a window
    MaxTerminal,   \* MAX_TERMINAL = MAX_DISMISSED_CANCELED (24 in the code)
    PhaseStep,     \* the library's phase graph: pairs <<from, to>>
    None           \* undefined

ASSUME CapAssumption == MaxTerminal \in Nat \ {0}
ASSUME WindowAssumption == Windows \subseteq Nat /\ CohortTtl \in Nat
ASSUME PhaseAssumption ==
    /\ PhaseStep \subseteq DISPLAY_PHASES \X DISPLAY_PHASES
    /\ \A s \in PhaseStep : s[2] # "Advertised"
    /\ \A s \in PhaseStep : s[2] \in OPEN_PHASES => s[1] \in OPEN_PHASES
ASSUME NoneAssumption == None \notin Cohort /\ None \notin Nat

VARIABLES
    drafts,             \* Draft -> its effective window, None if not a draft
    advertised,         \* the keys of the advertised map
    advertisedWindows,  \* Cohort -> window it was advertised with, or None
    terminal,           \* Cohort -> terminal record, or NoRecord
    dismissedCanceled,  \* canceled fates carried out of dismissed records
    windowTimers,       \* cohorts whose discovery-window timer is armed
    intents,            \* Cohort -> declared intent, or "none"
    advertSlotOwner,    \* mirror of who owns the transport's advert cell
    stopCurrent,        \* cohort of the advert the republisher last installed
    paused,             \* runtime setting: advertising is paused
    stopped,            \* the service's stop signal is aborted
    phase,              \* runner: session phase of each cohort
    slot,               \* transport: the single advert cell
    settling,           \* runner: settled completions not yet reacted to
    adverts,            \* cohorts in the order they were advertised
    endings,            \* cohorts in the order their records were filed
    dismissals,         \* cohorts in the order their fates were carried
    cause               \* history: what really happened to each cohort

operatorVars == <<drafts, advertised, advertisedWindows, terminal,
                  dismissedCanceled, windowTimers, intents, advertSlotOwner,
                  stopCurrent, paused>>
runnerVars == <<stopped, phase, slot, settling>>
historyVars == <<adverts, endings, dismissals, cause>>
vars == <<operatorVars, runnerVars, historyVars>>

-----------------------------------------------------------------------------
(* Values *)

Intents == {"canceled", "window-expired"}
NoRecord == [fate |-> "none", reason |-> "none", window |-> None]
TerminalRecord == [fate : {"expired", "canceled"},
                   reason : {"canceled", "window-expired", "library"},
                   window : Windows]

NoAdvert == [by |-> "nobody", id |-> None]
RunnerAdvert(c) == [by |-> "runner", id |-> c]
Republished(c) == [by |-> "republisher", id |-> c]

\* The ends that reject a cohort's completion; the other end is "completed".
Rejections == {"canceled", "window-expired", "failed", "stopped"}
Causes == {"fresh", "live", "completed"} \cup Rejections

TypeOK ==
    /\ drafts \in [Draft -> Windows \cup {None}]
    /\ advertised \subseteq Cohort
    /\ advertisedWindows \in [Cohort -> Windows \cup {None}]
    /\ terminal \in [Cohort -> TerminalRecord \cup {NoRecord}]
    /\ dismissedCanceled \subseteq Cohort
    /\ windowTimers \subseteq Cohort
    /\ intents \in [Cohort -> Intents \cup {"none"}]
    /\ advertSlotOwner \in Cohort \cup {None}
    /\ stopCurrent \in Cohort \cup {None}
    /\ paused \in BOOLEAN
    /\ stopped \in BOOLEAN
    /\ phase \in [Cohort -> DISPLAY_PHASES \cup {NoPhase}]
    /\ slot \in [by : {"runner", "republisher"}, id : Cohort] \cup {NoAdvert}
    /\ settling \in [Cohort -> {"no", "resolved", "rejected"}]
    /\ adverts \in Seq(Cohort)
    /\ endings \in Seq(Cohort)
    /\ dismissals \in Seq(Cohort)
    /\ cause \in [Cohort -> Causes]

-----------------------------------------------------------------------------
(* Bounded, insertion-ordered maps.  A JavaScript Map iterates its keys in   *)
(* the order they were inserted and no id is inserted twice, so the order of *)
(* a map is that of the history its keys were appended to.                   *)

Before(order, c, d) ==
    \E i, j \in DOMAIN order : i < j /\ order[i] = c /\ order[j] = d

Bounded_OffByOne(keys, order) ==   \* mutant: ">=" for ">" in the eviction loop
    IF Cardinality(keys) >= MaxTerminal /\ Cardinality(keys) > 1
    THEN {c \in keys : \E d \in keys : Before(order, d, c)}
    ELSE keys

\* Evict the oldest key once the map exceeds MAX_TERMINAL.
Bounded(keys, order) ==
    IF Cardinality(keys) > MaxTerminal
    THEN {c \in keys : \E d \in keys : Before(order, d, c)}
    ELSE keys

terminalKeys == {c \in Cohort : terminal[c] # NoRecord}

TurnOver == \A c \in Cohort : settling[c] = "no"

-----------------------------------------------------------------------------
(* The library's runner and the transport, as this code relies on them *)

\* The stop closure of a cohort's own advert: it empties the cell only while
\* the cell still holds that very advert.
Disposed(c) == IF slot = RunnerAdvert(c) THEN NoAdvert ELSE slot

\* The cohort leaves the session and its completion settles.
Settle(c, outcome, why) ==
    /\ phase' = [phase EXCEPT ![c] = NoPhase]
    /\ settling' = [settling EXCEPT ![c] = outcome]
    /\ cause' = [cause EXCEPT ![c] = why]

\* runner.stopCohort: silent, and a no-op for a cohort already settled.
StopCohort(c, why) ==
    IF phase[c] = NoPhase
    THEN UNCHANGED <<phase, settling, cause>>
    ELSE Settle(c, "rejected", why)

\* The cohort moves through the protocol; the one that fills its last seat
\* (keygen-complete) stops advertising.
RunnerAdvance(c, p) ==
    /\ TurnOver
    /\ <<phase[c], p>> \in PhaseStep
    /\ phase' = [phase EXCEPT ![c] = p]
    /\ slot' = IF phase[c] = "Advertised" THEN Disposed(c) ELSE slot
    /\ UNCHANGED <<operatorVars, historyVars, stopped, settling>>

\* signing-complete: the completion resolves.
RunnerComplete(c) ==
    /\ TurnOver
    /\ phase[c] \in FINALIZABLE_PHASES \cup {"FallbackRequested"}
    /\ Settle(c, "resolved", "completed")
    /\ slot' = Disposed(c)
    /\ UNCHANGED <<operatorVars, stopped, adverts, endings, dismissals>>

\* A stall, a TTL lapse or a protocol failure: the completion rejects.
RunnerFail(c) ==
    /\ TurnOver
    /\ phase[c] # NoPhase
    /\ Settle(c, "rejected", "failed")
    /\ slot' = Disposed(c)
    /\ UNCHANGED <<operatorVars, stopped, adverts, endings, dismissals>>

-----------------------------------------------------------------------------
(* The advert slot *)

\* c is the newest of the cohorts in open.
Newest(c, open) == c \in open /\ \A d \in open \ {c} : Before(adverts, d, c)

RepairAdvertSlot_AnySettle(settled, ads, ph, cell) ==   \* mutant: no owner guard
    LET open == {c \in ads : ph[c] \in OPEN_PHASES}
    IN  \/ \E c \in open :
             /\ Newest(c, open)
             /\ advertSlotOwner' = c
             /\ stopCurrent' = c
             /\ slot' = Republished(c)
        \/ /\ open = {}
           /\ advertSlotOwner' = None
           /\ stopCurrent' = None
           /\ slot' = IF cell = Republished(stopCurrent) THEN NoAdvert ELSE cell

RepairAdvertSlot_NoWalk(settled, ads, ph, cell) ==   \* mutant: cleared, no walk
    \/ /\ settled # advertSlotOwner
       /\ slot' = cell
       /\ UNCHANGED <<advertSlotOwner, stopCurrent>>
    \/ /\ settled = advertSlotOwner
       /\ advertSlotOwner' = None
       /\ stopCurrent' = None
       /\ slot' = IF cell = Republished(stopCurrent) THEN NoAdvert ELSE cell

\* repairAdvertSlot(settled), run when the advertised map is ads, the session
\* phases are ph and the cell is cell: only the owner's end empties the cell,
\* and the newest cohort in an open phase takes it over.
RepairAdvertSlot(settled, ads, ph, cell) ==
    LET open == {c \in ads : ph[c] \in OPEN_PHASES}
    IN  \/ /\ settled # advertSlotOwner
           /\ slot' = cell
           /\ UNCHANGED <<advertSlotOwner, stopCurrent>>
        \/ /\ settled = advertSlotOwner
           /\ \E c \in open :
                /\ Newest(c, open)
                /\ advertSlotOwner' = c
                /\ stopCurrent' = c
                /\ slot' = Republished(c)
        \/ /\ settled = advertSlotOwner
           /\ open = {}
           /\ advertSlotOwner' = None
           /\ stopCurrent' = None
           /\ slot' = IF cell = Republished(stopCurrent) THEN NoAdvert ELSE cell

-----------------------------------------------------------------------------
(* Drafts *)

\* createDraft, and the windows it freezes: explicit ones over the defaults.
CreateDraft(d, w) ==
    /\ TurnOver
    /\ drafts[d] = None
    /\ drafts' = [drafts EXCEPT ![d] = w]
    /\ UNCHANGED <<advertised, advertisedWindows, terminal, dismissedCanceled,
                   windowTimers, intents, advertSlotOwner, stopCurrent, paused,
                   runnerVars, historyVars>>

\* updateDraft: same id, new windows; nothing but a draft can be reshaped.
UpdateDraft(d, w) ==
    /\ TurnOver
    /\ drafts[d] # None
    /\ drafts' = [drafts EXCEPT ![d] = w]
    /\ UNCHANGED <<advertised, advertisedWindows, terminal, dismissedCanceled,
                   windowTimers, intents, advertSlotOwner, stopCurrent, paused,
                   runnerVars, historyVars>>

DiscardDraft(d) ==
    /\ TurnOver
    /\ drafts[d] # None
    /\ drafts' = [drafts EXCEPT ![d] = None]
    /\ UNCHANGED <<advertised, advertisedWindows, terminal, dismissedCanceled,
                   windowTimers, intents, advertSlotOwner, stopCurrent, paused,
                   runnerVars, historyVars>>

-----------------------------------------------------------------------------
(* Advertising *)

\* armWindowTimer(c, w): only a window shorter than the TTL, on a running
\* service, gets a timer of its own; the oldest timer is evicted at the cap.
ArmWindowTimer(c, w) ==
    windowTimers' =
        IF w > 0 /\ w < CohortTtl /\ ~stopped
        THEN Bounded(windowTimers \cup {c}, Append(adverts, c))
        ELSE windowTimers

\* What advertiseDraft and readvertiseExpired share: the runner opens a fresh
\* cohort and installs its advert, and the book records it.
Advertise(c, w) ==
    /\ cause[c] = "fresh"
    /\ cause' = [cause EXCEPT ![c] = "live"]
    /\ phase' = [phase EXCEPT ![c] = "Advertised"]
    /\ slot' = RunnerAdvert(c)
    /\ advertised' = advertised \cup {c}
    /\ advertisedWindows' = [advertisedWindows EXCEPT ![c] = w]
    /\ advertSlotOwner' = c
    /\ adverts' = Append(adverts, c)
    /\ ArmWindowTimer(c, w)
    /\ UNCHANGED <<intents, stopCurrent, paused, stopped, settling, endings,
                   dismissals, dismissedCanceled>>

AdvertiseDraft(d, c) ==
    /\ TurnOver
    /\ ~paused
    /\ drafts[d] # None
    /\ Advertise(c, drafts[d])
    /\ drafts' = [drafts EXCEPT ![d] = None]
    /\ UNCHANGED terminal

ReadvertiseExpired(old, c) ==
    /\ TurnOver
    /\ ~paused
    /\ old \in terminalKeys
    /\ Advertise(c, terminal[old].window)
    /\ terminal' = [terminal EXCEPT ![old] = NoRecord]
    /\ UNCHANGED drafts

-----------------------------------------------------------------------------
(* Ending a cohort *)

\* cancelCohort: declare, disarm, stop, repair, in that order.
CancelCohort(c) ==
    /\ TurnOver
    /\ c \in advertised
    /\ intents' = [intents EXCEPT ![c] = "canceled"]
    /\ windowTimers' = windowTimers \ {c}
    /\ StopCohort(c, "canceled")
    /\ RepairAdvertSlot(c, advertised, phase', Disposed(c))
    /\ UNCHANGED <<drafts, advertised, advertisedWindows, terminal,
                   dismissedCanceled, paused, stopped, adverts, endings,
                   dismissals>>

\* The discovery-window timer fires: declare, then stop.
WindowExpires(c) ==
    /\ TurnOver
    /\ c \in windowTimers
    /\ windowTimers' = windowTimers \ {c}
    /\ intents' = [intents EXCEPT ![c] = "window-expired"]
    /\ StopCohort(c, "window-expired")
    /\ slot' = Disposed(c)
    /\ UNCHANGED <<drafts, advertised, advertisedWindows, terminal,
                   dismissedCanceled, advertSlotOwner, stopCurrent, paused,
                   stopped, adverts, endings, dismissals>>

\* finalizeCohort: the phase predicate guards the library's triggerFallback.
FinalizeCohort(c) ==
    /\ TurnOver
    /\ c \in advertised
    /\ phase[c] \in FINALIZABLE_PHASES
    /\ phase' = [phase EXCEPT ![c] = "FallbackRequested"]
    /\ slot' = Disposed(c)
    /\ UNCHANGED <<operatorVars, historyVars, stopped, settling>>

\* The record rememberTerminal files: the fate comes from the intent.
RecordOf(intent, w) ==
    CASE intent = "canceled" ->
            [fate |-> "canceled", reason |-> "canceled", window |-> w]
      [] intent = "window-expired" ->
            [fate |-> "expired", reason |-> "window-expired", window |-> w]
      [] OTHER ->
            [fate |-> "expired", reason |-> "library", window |-> w]

RememberTerminal(c, record) ==
    LET kept == Bounded(terminalKeys \cup {c}, Append(endings, c))
    IN  /\ terminal' = [d \in Cohort |->
                           IF d \notin kept THEN NoRecord
                           ELSE IF d = c THEN record ELSE terminal[d]]
        /\ endings' = Append(endings, c)

LeaveBook_IntentKept(c) ==   \* mutant: intents.clear is forgotten
    /\ advertised' = advertised \ {c}
    /\ advertisedWindows' = [advertisedWindows EXCEPT ![c] = None]
    /\ windowTimers' = windowTimers \ {c}
    /\ UNCHANGED intents

LeaveBook_DeclaredOnly(c) ==   \* mutant: an undeclared rejection is ignored
    /\ IF settling[c] = "rejected" /\ intents[c] = "none"
       THEN UNCHANGED <<advertised, advertisedWindows>>
       ELSE /\ advertised' = advertised \ {c}
            /\ advertisedWindows' = [advertisedWindows EXCEPT ![c] = None]
    /\ windowTimers' = windowTimers \ {c}
    /\ intents' = [intents EXCEPT ![c] = "none"]

\* What every settlement drops of a cohort.
LeaveBook(c) ==
    /\ advertised' = advertised \ {c}
    /\ advertisedWindows' = [advertisedWindows EXCEPT ![c] = None]
    /\ windowTimers' = windowTimers \ {c}
    /\ intents' = [intents EXCEPT ![c] = "none"]

\* settleCompletion's reaction to c's completion.
SettleCompletion(c) ==
    /\ settling[c] # "no"
    /\ settling' = [settling EXCEPT ![c] = "no"]
    /\ LeaveBook(c)
    /\ IF settling[c] = "rejected" /\ c \in advertised
       THEN RememberTerminal(c, RecordOf(intents[c], advertisedWindows[c]))
       ELSE UNCHANGED <<terminal, endings>>
    /\ RepairAdvertSlot(c, advertised \ {c}, phase, slot)
    /\ UNCHANGED <<drafts, dismissedCanceled, paused, stopped, phase, adverts,
                   dismissals, cause>>

CarryFate_AnyFate(c) ==   \* mutant: every dismissed fate is carried
    /\ dismissals' = Append(dismissals, c)
    /\ dismissedCanceled' = Bounded(dismissedCanceled \cup {c}, dismissals')

CarryFate_Dropped(c) ==   \* mutant: the record is deleted and nothing carried
    UNCHANGED <<dismissals, dismissedCanceled>>

\* A dismissal carries a canceled fate out of the record it deletes.
CarryFate(c) ==
    IF terminal[c].fate = "canceled"
    THEN /\ dismissals' = Append(dismissals, c)
         /\ dismissedCanceled' = Bounded(dismissedCanceled \cup {c}, dismissals')
    ELSE UNCHANGED <<dismissals, dismissedCanceled>>

\* forgetTerminal.
ForgetTerminal(c) ==
    /\ TurnOver
    /\ c \in terminalKeys
    /\ phase[c] \notin DISPLAY_PHASES
    /\ CarryFate(c)
    /\ terminal' = [terminal EXCEPT ![c] = NoRecord]
    /\ UNCHANGED <<drafts, advertised, advertisedWindows, windowTimers, intents,
                   advertSlotOwner, stopCurrent, paused, runnerVars, adverts,
                   endings, cause>>

-----------------------------------------------------------------------------
(* The rest of the service *)

\* runtime-settings: pause and resume.
SetPaused ==
    /\ TurnOver
    /\ paused' = ~paused
    /\ UNCHANGED <<drafts, advertised, advertisedWindows, terminal,
                   dismissedCanceled, windowTimers, intents, advertSlotOwner,
                   stopCurrent, runnerVars, historyVars>>

\* service.stop(): abort the stop signal (every timer is cleared), stop the
\* runner (every live completion rejects) and the transport (its cell goes).
StopService ==
    /\ TurnOver
    /\ ~stopped
    /\ stopped' = TRUE
    /\ windowTimers' = {}
    /\ phase' = [c \in Cohort |-> NoPhase]
    /\ settling' = [c \in Cohort |->
                       IF phase[c] # NoPhase THEN "rejected" ELSE "no"]
    /\ cause' = [c \in Cohort |->
                       IF phase[c] # NoPhase THEN "stopped" ELSE cause[c]]
    /\ slot' = NoAdvert
    /\ UNCHANGED <<drafts, advertised, advertisedWindows, terminal,
                   dismissedCanceled, intents, advertSlotOwner, stopCurrent,
                   paused, adverts, endings, dismissals>>

-----------------------------------------------------------------------------
Init ==
    /\ drafts = [d \in Draft |-> None]
    /\ advertised = {}
    /\ advertisedWindows = [c \in Cohort |-> None]
    /\ terminal = [c \in Cohort |-> NoRecord]
    /\ dismissedCanceled = {}
    /\ windowTimers = {}
    /\ intents = [c \in Cohort |-> "none"]
    /\ advertSlotOwner = None
    /\ stopCurrent = None
    /\ paused = FALSE
    /\ stopped = FALSE
    /\ phase = [c \in Cohort |-> NoPhase]
    /\ slot = NoAdvert
    /\ settling = [c \in Cohort |-> "no"]
    /\ adverts = <<>>
    /\ endings = <<>>
    /\ dismissals = <<>>
    /\ cause = [c \in Cohort |-> "fresh"]

DraftStep ==
    \E d \in Draft :
        \/ \E w \in Windows : CreateDraft(d, w) \/ UpdateDraft(d, w)
        \/ DiscardDraft(d)
        \/ \E c \in Cohort : AdvertiseDraft(d, c)

OperatorStep ==
    \E c \in Cohort :
        \/ \E old \in Cohort : ReadvertiseExpired(old, c)
        \/ CancelCohort(c)
        \/ FinalizeCohort(c)
        \/ ForgetTerminal(c)

RunnerStep ==
    \E c \in Cohort :
        \/ \E p \in DISPLAY_PHASES : RunnerAdvance(c, p)
        \/ RunnerComplete(c)
        \/ RunnerFail(c)

TimerStep == \E c \in Cohort : WindowExpires(c)

SettleStep == \E c \in Cohort : SettleCompletion(c)

Next ==
    \/ DraftStep \/ OperatorStep \/ RunnerStep \/ TimerStep \/ SettleStep
    \/ SetPaused \/ StopService

Spec == Init /\ [][Next]_vars

\* The event loop drains its promise reactions, and the library arms a TTL for
\* every cohort it advertises.  Nothing obliges an operator or a participant.
FairSpec ==
    /\ Spec
    /\ WF_vars(SettleStep)
    /\ \A c \in Cohort : WF_vars(RunnerFail(c))

-----------------------------------------------------------------------------
(* Properties *)

\* cohortFate, the one bit a stranger may read about a cohort.
cohortFate(c) == terminal[c].fate = "canceled" \/ c \in dismissedCanceled

\* A settled cohort is told apart by what really ended it, never by the error:
\* a record reads canceled only for an operator's cancel and window-expired
\* only for a lapsed window, a stall or a shutdown is never narrated as either,
\* and no answer of the public fate route says canceled of any other cohort
\* (settleCompletion, cohortFate, cohort-intent.ts).
FateHonest ==
    \A c \in Cohort :
        /\ terminal[c].reason = "canceled" => cause[c] = "canceled"
        /\ terminal[c].reason = "window-expired" => cause[c] = "window-expired"
        /\ terminal[c].reason = "library" => cause[c] \in {"failed", "stopped"}
        /\ cohortFate(c) => cause[c] = "canceled"

\* Between two turns of the event loop the book, the library's session and the
\* intents agree: the advertised map holds exactly the live cohorts, no intent
\* outlives its settlement, so none can be read by another cohort's, and no
\* live cohort has a terminal record a dismissal could clear (settleCompletion
\* as the one place a cohort leaves the map, intents.clear).
BookMatchesSession ==
    TurnOver =>
        \A c \in Cohort :
            /\ c \in advertised <=> phase[c] # NoPhase
            /\ intents[c] = "none"
            /\ terminal[c] # NoRecord => phase[c] = NoPhase

\* A timer that is armed can only fire on a cohort that is still live, on a
\* running service, with a window the library's TTL would not have closed
\* first (armWindowTimer, "cleared on EVERY settle path").
TimersGuardLiveCohorts ==
    \A c \in windowTimers :
        /\ ~stopped
        /\ c \in advertised
        /\ TurnOver => phase[c] # NoPhase
        /\ advertisedWindows[c] \in 1 .. CohortTtl - 1

\* The slot mirror errs on one side only: whatever advert is in the cell is
\* that of the cohort the mirror names, that cohort is live at the end of the
\* turn, and an open cohort goes unserved by an empty cell only while the
\* mirror names a live cohort that has filled (advertSlotOwner's comment:
\* "stale in exactly one way").
SlotMirrored ==
    /\ slot # NoAdvert => slot.id = advertSlotOwner
    /\ TurnOver /\ slot # NoAdvert => phase[slot.id] # NoPhase
    /\ TurnOver /\ advertSlotOwner = None =>
           \A c \in advertised : phase[c] \notin OPEN_PHASES
    /\ TurnOver /\ slot = NoAdvert /\ advertSlotOwner # None =>
           phase[advertSlotOwner] \notin {NoPhase, "Advertised"}

\* Repairing the cell never replaces the advert of a cohort that is still in
\* the session: seated participants would be handed a duplicate of an advert
\* they have joined (repairAdvertSlot, "It can never cause the opposite error").
RepairNeverOverLiveAdvert ==
    [][ slot'.by = "republisher" /\ slot' # slot
            => slot = NoAdvert \/ phase'[slot.id] = NoPhase ]_vars

\* A participant's answer is retracted by a re-advertise, which starts that
\* cohort over, or by a bounded map overflowing; in particular dismissing one
\* canceled row never retracts that row's answer (forgetTerminal, cohortFate).
FateRetraction ==
    [][ \A c \in Cohort :
            cohortFate(c) /\ ~cohortFate(c)' =>
                \/ adverts' # adverts /\ terminal[c].fate = "canceled"
                       /\ terminal'[c] = NoRecord
                \/ dismissals' # dismissals /\ c \in dismissedCanceled
                       /\ Cardinality(dismissedCanceled) = MaxTerminal
                \/ endings' # endings
                       /\ Cardinality(terminalKeys) = MaxTerminal ]_vars

\* Every advertised cohort eventually leaves the book, whatever the operator
\* does (settleCompletion, the library's TTL).
AdvertisedEventuallySettles ==
    \A c \in Cohort : c \in advertised ~> c \notin advertised

\* "a dismissal removes the operator's record, never the participant's answer":
\* a dismissal retracts no answer about a cohort whose record would still be
\* among the MAX_TERMINAL newest had no row been dismissed (forgetTerminal).
AmongNewest(c) ==
    \E i \in DOMAIN endings : endings[i] = c /\ i + MaxTerminal > Len(endings)

DismissalKeepsAnswer ==
    [][ dismissals' # dismissals =>
            \A c \in Cohort :
                cohortFate(c) /\ AmongNewest(c) => cohortFate(c)' ]_vars

\* A repair re-publishes "the newest one that is still joinable" when there is
\* one: a cohort past Advertised has locked its members (repairAdvertSlot).
RepairServesJoinable ==
    [][ slot'.by = "republisher" /\ slot' # slot
          /\ (\E c \in advertised' : phase'[c] = "Advertised") =>
              phase'[slot'.id] = "Advertised" ]_vars

-----------------------------------------------------------------------------
(* The book implements the ledger: a cohort is live while it is in the map, *)
(* and its completion's reaction is the step that closes it.                *)

LedgerState(c) ==
    IF c \in advertised THEN "live"
    ELSE IF c \in terminalKeys THEN terminal[c].fate
    ELSE CASE cause[c] = "fresh" -> "unknown"
           [] cause[c] = "completed" -> "completed"
           [] OTHER -> "gone"

Ledger == INSTANCE CohortLedger WITH
    Capacity <- MaxTerminal,
    state <- [c \in Cohort |-> LedgerState(c)],
    told <- dismissedCanceled

\* Whatever interleaving the event loop produces, the book behaves as the
\* ledger: one filing per rejected cohort, nothing lost below the capacity.
ImplementsLedger == Ledger!Spec
====
