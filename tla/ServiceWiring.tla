---- MODULE ServiceWiring ----
(***************************************************************************)
(* The money path of a broadcasting service (packages/service/src/         *)
(* index.ts, createService): the three places one cohort's beacon          *)
(* transaction passes through - the funding watch, the transaction data,   *)
(* the broadcast - the one-way kill switch each of them consults, and the  *)
(* bounded side tables the answer is computed from.                        *)
(*                                                                         *)
(* The library's runner is external; its events run the listeners          *)
(* registered for them, in order, within one action.  A funding watch      *)
(* (funding-watch.ts) is a loop around one awaited chain read: between the *)
(* request and its answer anything may happen.                             *)
(***************************************************************************)
EXTENDS BoundedMap, FiniteSets

CONSTANTS
    Cohort,       \* cohort ids
    MaxEntries,   \* MAX_PER_COHORT_ENTRIES (24 in the code)
    None          \* undefined

ASSUME CohortAssumption == IsFiniteSet(Cohort)
ASSUME EntriesAssumption == MaxEntries \in Nat \ {0}
ASSUME NoneAssumption == None \notin Cohort /\ None \notin Nat

VARIABLES
    stage,            \* runner: how far each cohort has come
    clock,            \* the wall clock, counted in advertises
    advertisedAt,     \* side table: cohort -> advertise stamp
    disabledAt,       \* broadcastDisabledAtMs; None while the switch is off
    fundingWatches,   \* side table: cohorts whose watch can still be stopped
    lastFundingView,  \* side table: cohorts with a recorded funding view
    watch,            \* the watch loops themselves
    built,            \* which builder made the cohort's transaction data
    broadcast,        \* what the broadcast handoff did with the cohort
    stopped,          \* service.stop() has run
    stamp             \* history: when each cohort was advertised, 0 if never

tables == <<advertisedAt, fundingWatches, lastFundingView>>
vars == <<stage, clock, tables, disabledAt, watch, built, broadcast, stopped,
          stamp>>

Underway == {"open", "keyed", "building", "signing"}
Ends == {"completed", "failed", "canceled", "window-expired", "stopped"}

\* idle: in the delay; reading: a chain read is in flight; aborted: stopped
\* while a read is in flight; done: the loop has returned.
Polling == {"idle", "reading"}

TypeOK ==
    /\ stage \in [Cohort -> {"fresh"} \cup Underway \cup Ends]
    /\ clock \in Nat
    /\ advertisedAt \in Seq([id : Cohort, at : Nat])
    /\ disabledAt \in Nat \cup {None}
    /\ fundingWatches \in Seq([id : Cohort])
    /\ lastFundingView \in Seq([id : Cohort])
    /\ \A table \in {advertisedAt, fundingWatches, lastFundingView} :
          Len(table) <= MaxEntries
    /\ watch \in [Cohort -> {"none", "aborted", "done"} \cup Polling]
    /\ built \in [Cohort -> {"nothing", "live", "fixture"}]
    /\ broadcast \in [Cohort -> {"none", "withheld", "published"}]
    /\ stopped \in BOOLEAN
    /\ stamp \in [Cohort -> Nat]

-----------------------------------------------------------------------------
(* The kill switch *)

cohortKeepsLiveWiring_NotAfter(c) ==   \* mutant: "<=" for "<"
    disabledAt # None =>
        /\ c \in Keys(advertisedAt)
        /\ Lookup(advertisedAt, c).at <= disabledAt

\* cohortUsesLivePath: with the switch engaged, only a cohort whose stamp
\* predates it; without a stamp, never.
cohortKeepsLiveWiring(c) ==
    disabledAt # None =>
        /\ c \in Keys(advertisedAt)
        /\ Lookup(advertisedAt, c).at < disabledAt

\* disableBroadcast: one-way, and the stamp is taken once.
DisableBroadcast ==
    /\ disabledAt = None
    /\ disabledAt' = clock + 1
    /\ UNCHANGED <<stage, clock, tables, watch, built, broadcast, stopped, stamp>>

-----------------------------------------------------------------------------
(* Releasing a cohort's side tables *)

\* A watch handle's stop(): the loop returns from its delay, or drops the
\* answer it is waiting for.
Aborted(w) == CASE w = "idle" -> "done" [] w = "reading" -> "aborted" [] OTHER -> w

ReleaseCohortTables_NoStop(c) ==   \* mutant: the handle is dropped, not stopped
    /\ fundingWatches' = Delete(fundingWatches, c)
    /\ lastFundingView' = Delete(lastFundingView, c)
    /\ advertisedAt' = Delete(advertisedAt, c)
    /\ UNCHANGED watch

\* releaseCohortTables.
ReleaseCohortTables(c) ==
    /\ watch' = IF c \in Keys(fundingWatches)
                THEN [watch EXCEPT ![c] = Aborted(@)] ELSE watch
    /\ fundingWatches' = Delete(fundingWatches, c)
    /\ lastFundingView' = Delete(lastFundingView, c)
    /\ advertisedAt' = Delete(advertisedAt, c)

-----------------------------------------------------------------------------
(* The cohort's way through the service *)

\* cohort-advertised: stamp the cohort.
Advertise(c) ==
    /\ stage[c] = "fresh"
    /\ stage' = [stage EXCEPT ![c] = "open"]
    /\ clock' = clock + 1
    /\ stamp' = [stamp EXCEPT ![c] = clock']
    /\ advertisedAt' = Remember(advertisedAt, [id |-> c, at |-> clock'], MaxEntries)
    /\ UNCHANGED <<disabledAt, fundingWatches, lastFundingView, watch, built,
                   broadcast, stopped>>

\* keygen-complete: start the funding watch, whose first read leaves at once,
\* unless the switch says the cohort will never be funded.  A stopped service
\* hears no participant, so no cohort of its gets this far.
KeygenComplete(c) ==
    /\ stage[c] = "open"
    /\ ~stopped
    /\ stage' = [stage EXCEPT ![c] = "keyed"]
    /\ IF cohortKeepsLiveWiring(c)
       THEN /\ watch' = [watch EXCEPT ![c] = "reading"]
            /\ fundingWatches' = Remember(fundingWatches, [id |-> c], MaxEntries)
       ELSE UNCHANGED <<watch, fundingWatches>>
    /\ UNCHANGED <<clock, advertisedAt, disabledAt, lastFundingView, built,
                   broadcast, stopped, stamp>>

\* onProvideTxData: the switch chooses the builder.  The fixture is built at
\* once, the live builder waits for funding.
ProvideTxData(c) ==
    /\ stage[c] = "keyed"
    /\ \/ /\ cohortKeepsLiveWiring(c)
          /\ built' = [built EXCEPT ![c] = "live"]
          /\ stage' = [stage EXCEPT ![c] = "building"]
       \/ /\ ~cohortKeepsLiveWiring(c)
          /\ built' = [built EXCEPT ![c] = "fixture"]
          /\ stage' = [stage EXCEPT ![c] = "signing"]
    /\ UNCHANGED <<clock, tables, disabledAt, watch, broadcast, stopped, stamp>>

\* waitForFunding found the cohort funded and the transaction was built.
TxDataReady(c) ==
    /\ stage[c] = "building"
    /\ stage' = [stage EXCEPT ![c] = "signing"]
    /\ UNCHANGED <<clock, tables, disabledAt, watch, built, broadcast, stopped,
                   stamp>>

SigningComplete_ReleaseFirst(c) ==   \* mutant: the listeners swap places
    /\ stage[c] = "signing"
    /\ stage' = [stage EXCEPT ![c] = "completed"]
    /\ ReleaseCohortTables(c)
    /\ broadcast' = [broadcast EXCEPT
           ![c] = IF disabledAt = None THEN "published" ELSE "withheld"]
    /\ UNCHANGED <<clock, disabledAt, built, stopped, stamp>>

\* signing-complete: the broadcast listener was registered first, so it reads
\* the cohort's stamp before the release listener deletes it.
SigningComplete(c) ==
    /\ stage[c] = "signing"
    /\ stage' = [stage EXCEPT ![c] = "completed"]
    /\ broadcast' = [broadcast EXCEPT
           ![c] = IF cohortKeepsLiveWiring(c) THEN "published" ELSE "withheld"]
    /\ ReleaseCohortTables(c)
    /\ UNCHANGED <<clock, disabledAt, built, stopped, stamp>>

\* cohort-failed: released only when the cohort still has a watch handle.
CohortFailed(c) ==
    /\ stage[c] \in Underway
    /\ stage' = [stage EXCEPT ![c] = "failed"]
    /\ IF c \in Keys(fundingWatches)
       THEN ReleaseCohortTables(c)
       ELSE UNCHANGED <<tables, watch>>
    /\ UNCHANGED <<clock, disabledAt, built, broadcast, stopped, stamp>>

\* The operator's cancel, through onCancel.
CancelCohort(c) ==
    /\ stage[c] \in Underway
    /\ stage' = [stage EXCEPT ![c] = "canceled"]
    /\ ReleaseCohortTables(c)
    /\ UNCHANGED <<clock, disabledAt, built, broadcast, stopped, stamp>>

\* The discovery window closes: runner.stopCohort is silent, no listener runs.
WindowExpires(c) ==
    /\ stage[c] \in Underway
    /\ stage' = [stage EXCEPT ![c] = "window-expired"]
    /\ UNCHANGED <<clock, tables, disabledAt, watch, built, broadcast, stopped,
                   stamp>>

-----------------------------------------------------------------------------
(* The funding watch *)

\* The delay is over: the next read leaves.
WatchTick(c) ==
    /\ watch[c] = "idle"
    /\ watch' = [watch EXCEPT ![c] = "reading"]
    /\ UNCHANGED <<stage, clock, tables, disabledAt, built, broadcast, stopped,
                   stamp>>

WatchAnswer_NoRecheck(c, funded) ==   \* mutant: no signal check after the await
    /\ watch[c] \in {"reading", "aborted"}
    /\ watch' = [watch EXCEPT ![c] =
           IF funded \/ watch[c] = "aborted" THEN "done" ELSE "idle"]
    /\ lastFundingView' = Remember(lastFundingView, [id |-> c], MaxEntries)
    /\ UNCHANGED <<stage, clock, advertisedAt, fundingWatches, disabledAt, built,
                   broadcast, stopped, stamp>>

\* The read answers (or throws): a stopped watch returns, a running one
\* records a view and retires once it has seen the funds.
WatchAnswer(c, funded) ==
    /\ \/ /\ watch[c] = "reading"
          /\ lastFundingView' = Remember(lastFundingView, [id |-> c], MaxEntries)
          /\ watch' = [watch EXCEPT ![c] = IF funded THEN "done" ELSE "idle"]
       \/ /\ watch[c] = "aborted"
          /\ watch' = [watch EXCEPT ![c] = "done"]
          /\ UNCHANGED lastFundingView
    /\ UNCHANGED <<stage, clock, advertisedAt, fundingWatches, disabledAt, built,
                   broadcast, stopped, stamp>>

-----------------------------------------------------------------------------
\* service.stop(): stop every watch that still has a handle, then the runner.
StopService ==
    /\ ~stopped
    /\ stopped' = TRUE
    /\ watch' = [c \in Cohort |->
                    IF c \in Keys(fundingWatches) THEN Aborted(watch[c])
                    ELSE watch[c]]
    /\ stage' = [c \in Cohort |->
                    IF stage[c] \in Underway THEN "stopped" ELSE stage[c]]
    /\ UNCHANGED <<clock, tables, disabledAt, built, broadcast, stamp>>

Init ==
    /\ stage = [c \in Cohort |-> "fresh"]
    /\ clock = 0
    /\ advertisedAt = <<>>
    /\ disabledAt = None
    /\ fundingWatches = <<>>
    /\ lastFundingView = <<>>
    /\ watch = [c \in Cohort |-> "none"]
    /\ built = [c \in Cohort |-> "nothing"]
    /\ broadcast = [c \in Cohort |-> "none"]
    /\ stopped = FALSE
    /\ stamp = [c \in Cohort |-> 0]

RunnerStep(c) ==
    \/ Advertise(c) \/ KeygenComplete(c) \/ ProvideTxData(c) \/ TxDataReady(c)
    \/ SigningComplete(c) \/ CohortFailed(c)

WatchStep(c) == WatchTick(c) \/ \E funded \in BOOLEAN : WatchAnswer(c, funded)

Next ==
    \/ \E c \in Cohort :
         RunnerStep(c) \/ WatchStep(c) \/ CancelCohort(c) \/ WindowExpires(c)
    \/ DisableBroadcast
    \/ StopService

Spec == Init /\ [][Next]_vars

-----------------------------------------------------------------------------
(* Properties *)

AdvertisedAfterSwitch(c) == disabledAt # None /\ stamp[c] >= disabledAt

\* The evidence that c's stamp has been pushed out of its table.
StampEvictable(c) ==
    Cardinality({d \in Cohort : stamp[d] > stamp[c]}) >= MaxEntries

\* The evidence that c's handle has been pushed out of its table.
HandleEvictable(c) ==
    Cardinality({d \in Cohort \ {c} : watch[d] # "none"}) >= MaxEntries

\* A cohort advertised after the switch engaged is never watched for funding,
\* never built live and never published, whatever was evicted, released or in
\* flight when the switch moved (cohortKeepsLiveWiring, "It fails CLOSED").
SwitchHolds ==
    \A c \in Cohort :
        AdvertisedAfterSwitch(c) =>
            /\ watch[c] = "none"
            /\ built[c] # "live"
            /\ broadcast[c] # "published"

\* Only a live-built transaction is ever published, and a live-built one is
\* withheld only when MaxEntries later adverts have pushed its stamp out
\* ("a cohort can never be built live and then silently not published, or the
\* reverse": true below the bound).
LegsAgree ==
    \A c \in Cohort :
        /\ broadcast[c] = "published" => built[c] = "live"
        /\ broadcast[c] = "withheld" /\ built[c] = "live" => StampEvictable(c)

\* A watch outlives the end of its cohort only in the ways no listener runs
\* for: a closed discovery window, a service that stopped, or a handle that
\* was pushed out of its table (releaseCohortTables, stop()).
WatchesEnd ==
    \A c \in Cohort :
        watch[c] \in Polling =>
            \/ HandleEvictable(c)
            \/ ~stopped /\ stage[c] \in Underway \cup {"window-expired"}

\* Once a cohort's tables are released nothing puts it back: a chain read that
\* answers after the release records no view (createFundingWatch's recheck of
\* the signal after the await).
ReleasedStaysReleased ==
    \A c \in Cohort :
        stage[c] \in {"completed", "canceled"} =>
            /\ c \notin Keys(advertisedAt) \cup Keys(fundingWatches)
            /\ c \in Keys(lastFundingView) => HandleEvictable(c)

\* "cohorts already in flight finish under the mode they started with": a
\* cohort advertised before the switch is never withheld (ADR 0017, decision
\* 4; cohortKeepsLiveWiring's comment).
InFlightKeepsMode ==
    \A c \in Cohort :
        broadcast[c] = "withheld" => AdvertisedAfterSwitch(c)
====
