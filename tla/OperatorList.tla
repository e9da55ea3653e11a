---- MODULE OperatorList ----
(***************************************************************************)
(* The operator's list of cohorts: two books kept by different rules,      *)
(* joined into the rows the console renders and the controls it offers.    *)
(* The cohort book is OperatorCohorts; the monitor's fold is CohortMonitor *)
(* and the anchor fold AnchorState; createService (index.ts) wires them to *)
(* the runner, the funding watch and the broadcaster.  The join and the    *)
(* offers are lib/operator-rows.ts, lib/lifecycle.ts and the components    *)
(* OperatorCohortList and LifecycleActions of packages/web.                *)
(*                                                                         *)
(* The console renders what the last read served; here every read is       *)
(* fresh, and the operator's requests are not confined to what the page    *)
(* offers, so a click on a stale row is one of them.  A cohort's verdict   *)
(* of the kill switch is drawn at keygen-complete and read off its running *)
(* watch; the watch and view tables of index.ts do not fill up             *)
(* (ServiceWiring).  Networks, seats, reasons and stamps are left out.     *)
(***************************************************************************)
EXTENDS OperatorCohorts, CohortMonitor

CONSTANT WatchStates   \* the states the funding watch may report

ASSUME WatchAssumption == WatchStates \subseteq FundingStates
\* A cohort that has fallen back sits in FallbackRequested until it ends
\* (lifecycle.ts:107-109); a draft has an id of its own (randomUUID).
ASSUME FallbackAssumption == \A s \in PhaseStep : s[1] # "FallbackRequested"
ASSUME IdAssumption == Draft \cap Cohort = {}

VARIABLES
    anchors,     \* createAnchorState's entries
    watching,    \* cohorts with a handle in fundingWatches
    lastView,    \* lastFundingView: Cohort -> state, or "none"
    tx,          \* the broadcaster: where each cohort's transaction is
    fell,        \* history: cohorts that took the k-of-n path
    gone         \* history: cohorts whose ended record was given up

A == INSTANCE AnchorState

listOnly == <<monitorVars, anchors, watching, lastView, tx, fell, gone>>
listVars == <<vars, listOnly>>

TxStates == {"none", "unusable", "sending", "broadcast", "given-up", "confirmed", "failed"}

ListTypeOK ==
    /\ TypeOK
    /\ watching \subseteq Cohort
    /\ lastView \in [Cohort -> FundingStates \cup {"none"}]
    /\ tx \in [Cohort -> TxStates]
    /\ fell \subseteq Cohort /\ gone \subseteq Cohort

ListInit ==
    /\ Init
    /\ entries = <<>> /\ ended = <<>> /\ fundingViews = <<>> /\ anchors = <<>>
    /\ watching = {}
    /\ lastView = [c \in Cohort |-> "none"]
    /\ tx = [c \in Cohort |-> "none"]
    /\ fell = {} /\ gone = {}

\* Records the last step deleted or evicted.
GivenUp == gone' = gone \cup (Keys(ended) \ Keys(ended'))

-----------------------------------------------------------------------------
(* The runner's events and the listeners createService puts on them *)

\* releaseCohortTables
Release(c) ==
    /\ watching' = watching \ {c}
    /\ lastView' = [lastView EXCEPT ![c] = "none"]

\* A step of the book that no fold hears of: drafts, adverts, a window that
\* closed, a completion's reaction, the pause switch.
BookStep ==
    /\ \/ DraftStep \/ TimerStep \/ SettleStep \/ SetPaused
       \/ \E old, c \in Cohort : ReadvertiseExpired(old, c)
    /\ UNCHANGED listOnly

\* The cohort moves on.  Filling the last seat is keygen-complete, which starts
\* the display watch of a cohort on the live path; falling back marks the entry.
Advance(c, p, live) ==
    /\ RunnerAdvance(c, p)
    /\ Touch(c, p = "FallbackRequested")
    /\ watching' = IF phase[c] = "Advertised" /\ live THEN watching \cup {c} ELSE watching
    /\ fell' = IF p = "FallbackRequested" THEN fell \cup {c} ELSE fell
    /\ UNCHANGED <<ended, fundingViews, anchors, lastView, tx, gone>>

\* signing-complete: the broadcaster runs to its first await, the monitor files
\* the record, the tables are released.
Complete(c, extracts) ==
    /\ RunnerComplete(c)
    /\ SigningCompleteFold(c, IF phase[c] = "FallbackRequested" THEN "script-path"
                              ELSE "key-path")
    /\ GivenUp
    /\ LET handled == c \in watching
       IN  /\ tx' = [tx EXCEPT ![c] = CASE ~handled -> "none"
                                       [] handled /\ extracts -> "sending"
                                       [] OTHER -> "unusable"]
           /\ IF handled /\ ~extracts THEN A!RememberAnchor(c, "failed")
              ELSE UNCHANGED anchors
    /\ Release(c)
    /\ UNCHANGED <<entries, fundingViews, fell>>

\* cohort-failed: the record, then the lapse verdict of a watched cohort.
Fail(c) ==
    /\ RunnerFail(c)
    /\ FailedFold(c)
    /\ GivenUp
    /\ IF c \in watching
       THEN /\ IF lastView[c] \notin {"none", "funded"}
               THEN NoteFunding(c, [state |-> lastView[c], esploraStale |-> FALSE,
                                    terminal |-> TRUE])
               ELSE UNCHANGED fundingViews
            /\ Release(c)
       ELSE UNCHANGED <<fundingViews, watching, lastView>>
    /\ UNCHANGED <<entries, anchors, tx, fell>>

\* An opt-in, a seat, a nonce, a test peer's spawn: an event noted against c.
CohortEvent(c) ==
    /\ TurnOver
    /\ cause[c] # "fresh"
    /\ Touch(c, FALSE)
    /\ UNCHANGED <<vars, ended, fundingViews, anchors, watching, lastView, tx, fell, gone>>

\* One report of the display watch; the one that saw the funds was the last.
WatchReports(c, s) ==
    /\ TurnOver
    /\ c \in watching
    /\ lastView[c] # "funded"
    /\ lastView' = [lastView EXCEPT ![c] = s]
    /\ NoteFunding(c, [state |-> s, esploraStale |-> FALSE, terminal |-> FALSE])
    /\ UNCHANGED <<vars, entries, ended, anchors, watching, tx, fell, gone>>

\* service.stop(): the watches and the broadcaster's signal are aborted too.
Stop ==
    /\ StopService
    /\ watching' = {}
    /\ UNCHANGED <<monitorVars, anchors, lastView, tx, fell, gone>>

-----------------------------------------------------------------------------
(* The broadcaster's frames: the anchor state hears them, then the monitor *)

Frame(c, from, to) ==
    /\ TurnOver
    /\ ~stopped
    /\ tx[c] = from
    /\ tx' = [tx EXCEPT ![c] = to]
    /\ UNCHANGED <<vars, entries, fundingViews, watching, lastView, fell>>

BroadcastFrame(c) ==
    /\ Frame(c, "sending", "broadcast")
    /\ A!RememberAnchor(c, "broadcast")
    /\ UNCHANGED <<ended, gone>>

FailedFrame(c) ==
    /\ Frame(c, "sending", "failed")
    /\ A!RememberAnchor(c, "failed")
    /\ FailedFold(c) /\ GivenUp

AnchoredFrame(c, confirmed) ==
    /\ Frame(c, "broadcast", IF confirmed THEN "confirmed" ELSE "given-up")
    /\ A!RememberAnchor(c, A!AnchoredState(confirmed))
    /\ AnchoredFold(c, confirmed) /\ GivenUp

-----------------------------------------------------------------------------
(* The operator's routes *)

\* POST cancel: the book ends the cohort and onCancel notes the fate.
Cancel(c) ==
    /\ CancelCohort(c)
    /\ NoteCanceled(c)
    /\ GivenUp
    /\ Release(c)
    /\ UNCHANGED <<fundingViews, anchors, tx, fell>>

\* POST finalize: fallback-started, then onFinalize's note.
Finalize(c) ==
    /\ FinalizeCohort(c)
    /\ Touch(c, TRUE)
    /\ fell' = fell \cup {c}
    /\ UNCHANGED <<ended, fundingViews, anchors, watching, lastView, tx, gone>>

\* The halves of DELETE ended/:id that would clear something.
MonitorClears(c) == c \in Keys(ended) /\ phase[c] \notin DISPLAY_PHASES
BookClears(c) == c \in terminalKeys /\ phase[c] \notin DISPLAY_PHASES

DismissAccepted_MonitorOnly(c) ==   \* mutant: forgetTerminal is not tried alone
    MonitorClears(c)

\* The route answers 404 only when neither half cleared anything.
DismissAccepted(c) == MonitorClears(c) \/ BookClears(c)

Dismiss(c) ==
    /\ TurnOver
    /\ DismissAccepted(c)
    /\ IF MonitorClears(c) THEN DismissEnded(c, FALSE) ELSE UNCHANGED monitorVars
    /\ IF BookClears(c) THEN ForgetTerminal(c) ELSE UNCHANGED vars
    /\ GivenUp
    /\ UNCHANGED <<anchors, watching, lastView, tx, fell>>

ListNext ==
    \/ BookStep
    \/ Stop
    \/ \E c \in Cohort :
          \/ \E p \in DISPLAY_PHASES, live \in BOOLEAN : Advance(c, p, live)
          \/ \E extracts \in BOOLEAN : Complete(c, extracts)
          \/ Fail(c)
          \/ CohortEvent(c)
          \/ \E s \in WatchStates : WatchReports(c, s)
          \/ BroadcastFrame(c)
          \/ FailedFrame(c)
          \/ \E confirmed \in BOOLEAN : AnchoredFrame(c, confirmed)
          \/ Cancel(c)
          \/ Finalize(c)
          \/ Dismiss(c)

ListSpec == ListInit /\ [][ListNext]_listVars

-----------------------------------------------------------------------------
(* What the reads serve *)

\* directory(): the cohorts both in the session, in a displayed phase, and in
\* the book; openCount(): those a participant could still join.
directory == {c \in advertised : phase[c] \in DISPLAY_PHASES}

openCount == Cardinality({c \in directory : phase[c] \in OPEN_PHASES})

\* What a stranger is told: the same count and the bit the advertise gates read.
status == [openCohorts |-> openCount, paused |-> paused]

\* listCohorts: drafts, the directory, the terminal records.
listCohorts ==
    [id : {d \in Draft : drafts[d] # None}, state : {"draft"}]
      \cup [id : directory, state : {"advertised"}]
      \cup {[id |-> c, state |-> terminal[c].fate] : c \in terminalKeys}

\* The chip a phase asks for.
Tier(c) == CASE phase[c] \in OPEN_PHASES -> "filling"
             [] phase[c] \in IN_FLIGHT_PHASES -> "co-signing"
             [] OTHER -> "none"

summary ==
    {r \in {[id |-> c, chip |-> summaryChip(c, Tier(c))] : c \in Cohort} :
        r.chip # "none"}

EndedWith(chips) == Cardinality({c \in Keys(ended) : Lookup(ended, c).chip \in chips})

serviceMetrics_EverythingElse ==   \* mutant: whatever did not fail was anchored
    [open     |-> Cardinality({c \in Cohort : phase[c] \in OPEN_PHASES}),
     inFlight |-> Cardinality({c \in Cohort : phase[c] \in IN_FLIGHT_PHASES}),
     anchored |-> Cardinality(Keys(ended)) - EndedWith({"failed"}),
     failed   |-> EndedWith({"failed"})]

serviceMetrics ==
    [open     |-> Cardinality({c \in Cohort : phase[c] \in OPEN_PHASES}),
     inFlight |-> Cardinality({c \in Cohort : phase[c] \in IN_FLIGHT_PHASES}),
     anchored |-> EndedWith({"anchored", "fallback"}),
     failed   |-> EndedWith({"failed"})]

\* buildDetail, as far as the lifecycle controls read it.
buildDetail(c) ==
    [exists  |-> c \in Keys(entries) \/ phase[c] # NoPhase,
     phase   |-> phase[c],
     used    |-> FellBack(c),
     anchor  |-> A!AnchorRead(c),
     funding |-> IF c \in Keys(fundingViews) THEN Lookup(fundingViews, c).view.state
                 ELSE "none"]

-----------------------------------------------------------------------------
(* What the console makes of them *)

chipForCohort_FoldWins(state, chip) ==   \* mutant: the fold's chip wins
    CASE state = "draft" -> "draft"
      [] state # "draft" /\ chip # "none" -> chip
      [] OTHER -> IF state = "advertised" THEN "filling" ELSE state

\* A terminal fate wins over whatever the fold last saw.
chipForCohort(state, chip) ==
    CASE state \in {"draft", "expired", "canceled"} -> state
      [] OTHER -> IF chip = "none" THEN "filling" ELSE chip

\* The chip's one group.
groupForChip(chip) ==
    CASE chip \in {"needs-funding", "fallback", "co-signed-fallback", "failed"} -> "attention"
      [] chip \in {"filling", "co-signing"} -> "active"
      [] chip = "draft" -> "drafts"
      [] OTHER -> "ended"

groupRenderRows_CohortsOnly(cohorts, rows) ==   \* mutant: a lookup, not a union
    {[id |-> k.id, state |-> k.state,
      chip |-> chipForCohort(k.state, IF \E r \in rows : r.id = k.id
                                      THEN (CHOOSE r \in rows : r.id = k.id).chip
                                      ELSE "none")] : k \in cohorts}

\* The union of both reads by id: a cohort of the book joined with its row, then
\* the rows the book does not hold (state "absent").
groupRenderRows(cohorts, rows) ==
    LET ids == {k.id : k \in cohorts}
        chipOf(id) == IF \E r \in rows : r.id = id
                      THEN (CHOOSE r \in rows : r.id = id).chip ELSE "none"
    IN  {[id |-> k.id, state |-> k.state, chip |-> chipForCohort(k.state, chipOf(k.id))] :
            k \in cohorts}
        \cup {[id |-> r.id, state |-> "absent", chip |-> r.chip] :
                 r \in {x \in rows : x.id \notin ids}}

Rows == groupRenderRows(listCohorts, summary)

\* CohortRow: the controls a row carries.
RowOffers(row) ==
    (IF row.state = "draft" THEN {"edit", "discard"} ELSE {})
      \cup (IF row.state = "draft" /\ ~paused THEN {"advertise"} ELSE {})
      \cup (IF row.state = "expired" /\ ~paused THEN {"re-advertise"} ELSE {})
      \cup (IF row.state \in {"advertised", "absent"} THEN {"open"} ELSE {})
      \cup (IF groupForChip(row.chip) = "ended" THEN {"dismiss"} ELSE {})

dismissDropsReadvertise(row) == row.state = "expired"

\* A failed send left no transaction id behind (AnchorState).
cancelAvailability(detail) ==
    CASE ~detail.exists -> "unavailable"
      [] detail.exists /\ detail.anchor \in {"broadcast", "confirmed"} -> "broadcast"
      [] OTHER -> IF detail.phase \in DISPLAY_PHASES THEN "available" ELSE "unavailable"

\* The rung of the confirmation: 4 once money has reached the address.
cancelRung(detail) ==
    IF detail.funding \in {"awaiting-confirmation", "funded", "dead-end"} THEN 4 ELSE 3

finalizeAvailability(detail) ==
    CASE ~detail.exists -> "unavailable"
      [] detail.exists /\ detail.used -> "committed"
      [] OTHER -> IF detail.phase \in FINALIZABLE_PHASES THEN "available" ELSE "not-signing"

\* LifecycleActions: the controls of an open cohort.
DetailOffers(detail) ==
    (IF cancelAvailability(detail) = "available" THEN {"cancel"} ELSE {})
      \cup (IF finalizeAvailability(detail) = "available" THEN {"finalize"} ELSE {})

-----------------------------------------------------------------------------
(* Properties *)

LiveChips == {"filling", "co-signing", "needs-funding"}

\* What a chip says is what happened, whichever book it was read from.
ChipTrue(c, chip) ==
    CASE chip \in LiveChips -> phase[c] # NoPhase
      [] chip = "canceled" -> cause[c] = "canceled"
      [] chip = "expired" -> cause[c] \in {"window-expired", "failed", "stopped"}
      [] chip = "failed" -> cause[c] = "failed" \/ tx[c] = "failed"
      [] chip \in {"anchored", "fallback"} -> tx[c] = "confirmed"
      [] OTHER -> cause[c] = "completed" /\ tx[c] \notin {"confirmed", "failed"}

\* Whether one of the two books must still show c: it is live, or a book filed
\* its end and has not given the record up.
MustShow(c) ==
    \/ phase[c] # NoPhase
    \/ cause[c] \in {"completed", "failed", "canceled"} /\ c \notin gone
    \/ c \in terminalKeys

\* The two books retain cohorts by different rules, and still every cohort has at
\* most one row, a cohort either book accounts for has one, its chip says what
\* really happened to it, and a completed cohort sits under Needs attention
\* exactly when it took the script path or its transaction failed (operator-rows.ts:
\* the union by id, "a terminal fate always wins", "CONFIRMATION decides the WORD
\* on the chip, the k-of-n SCRIPT PATH decides the BUCKET").
RowsTellTheFate ==
    TurnOver => \A c \in Cohort :
        LET mine == {row \in Rows : row.id = c}
        IN  /\ Cardinality(mine) <= 1
            /\ MustShow(c) => mine # {}
            /\ \A row \in mine :
                  /\ ChipTrue(c, row.chip)
                  /\ cause[c] = "completed" /\ c \notin gone =>
                        (groupForChip(row.chip) = "attention"
                            <=> c \in fell \/ tx[c] = "failed")

\* The numbers above the list and the list agree: every cohort counted open, in
\* flight or anchored has a row that says so, every one counted failed has a row
\* that reads failed or expired, and the open count a stranger is told is the
\* operator's (serviceMetrics, status, and the defect the header of operator-rows.ts
\* recalls: "anchored: 1 with zero rows behind it").
CountsHaveRows ==
    TurnOver =>
        LET CountOf(chips) == Cardinality({row \in Rows : row.chip \in chips})
        IN  /\ serviceMetrics.open + serviceMetrics.inFlight = CountOf(LiveChips)
            /\ serviceMetrics.open = status.openCohorts
            /\ serviceMetrics.anchored = CountOf({"anchored", "fallback"})
            /\ serviceMetrics.failed <= CountOf({"failed", "expired"})

\* No dismissal, re-advertise, cancel or finalize that a fresh page offers is refused
\* by the service, and a live cohort is never out of reach: its row opens, and cancel
\* is there; a dismissal that costs the re-advertise option says so.  The record that
\* Open asks for may be gone, see OpenReachesTheRecord (CohortRow, cancelAvailability,
\* finalizeAvailability, dismissDropsReadvertise against forgetTerminal, dismissEnded,
\* cancelCohort, finalizeCohort, readvertiseExpired).
OffersAreHonoured ==
    TurnOver => \A row \in Rows :
        LET c == row.id
            offered == RowOffers(row)
                         \cup (IF "open" \in RowOffers(row) THEN DetailOffers(buildDetail(c))
                               ELSE {})
        IN  /\ "dismiss" \in offered =>
                  /\ DismissAccepted(c)
                  /\ terminal[c].fate = "expired" => dismissDropsReadvertise(row)
            /\ "re-advertise" \in offered => ~paused /\ c \in terminalKeys
            /\ "cancel" \in offered => c \in advertised
            /\ "finalize" \in offered => c \in advertised /\ phase[c] \in FINALIZABLE_PHASES
            /\ row.chip \in LiveChips => "cancel" \in offered

\* Where a row may go from each chip of a finished cohort.
Later(chip) ==
    CASE chip = "co-signed" -> {"co-signed", "anchored", "failed"}
      [] chip = "co-signed-fallback" -> {"co-signed-fallback", "fallback", "failed"}
      [] chip = "expired" -> {"expired", "failed"}
      [] OTHER -> {chip}

ChipOf(c) == IF \E row \in Rows : row.id = c
             THEN (CHOOSE row \in Rows : row.id = c).chip ELSE "none"

\* A row that has read a finished cohort's fate never reads a live one again, never
\* takes back a cancel, a confirmation or a failure, and keeps its path; an expired
\* row may turn into the monitor's own "Failed" only when the book gives its record
\* up (rememberTerminal's and rememberEnded's bounds, readvertiseExpired).  The turn
\* in which c itself ends is not read: no request is answered inside it.
RowsNeverRegress ==
    [][ \A c \in Cohort :
          LET was == ChipOf(c)  now == ChipOf(c)'
          IN  settling[c] = "no" /\ was \notin LiveChips \cup {"none"} /\ now # "none" =>
                 /\ now \in Later(was)
                 /\ was = "expired" /\ now = "failed" =>
                       c \in terminalKeys /\ terminal'[c] = NoRecord ]_listVars

\* "keeps a completed cohort reachable for exactly as long as the monitor retains
\* it - an honest, already-bounded window": a row whose Open control is shown opens
\* onto the cohort.  The drill-down reads the live entry, which a cohort nobody
\* joined never had and another bound may have evicted (operator-rows.ts:24-25,
\* buildDetail).
OpenReachesTheRecord ==
    TurnOver => \A row \in Rows :
        "open" \in RowOffers(row) => buildDetail(row.id).exists

\* "an actively-funding cohort is never the one evicted": cancelling a live cohort
\* whose address has received money takes the ceremony of rung 4 (rememberFunding,
\* cancelRung).
FundedCancelIsRung4 ==
    TurnOver => \A c \in watching :
        lastView[c] \in {"awaiting-confirmation", "funded", "dead-end"} =>
            cancelRung(buildDetail(c)) = 4
====
