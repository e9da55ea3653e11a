# A TLA+ verification of the btcr2-aggregation coordinator

`btcr2-aggregation` is a self-hostable coordinator for did:btcr2 aggregation: an
operator advertises *cohorts*, participants take their seats, everyone co-signs one
Bitcoin *beacon* transaction, and the service broadcasts it. The signing protocol itself
is the work of a published library (`@did-btcr2/aggregation`), whose runner emits events
and settles one promise per cohort. What this repository adds, and what these modules
are about, is everything around it: the operator's book of cohorts and the fates it
tells, the wait for money, the tables and switches that decide whether a transaction is
real, the gate and the settings behind it, the in-process test peers, the ledgers of what
was accepted, and the two browser stores that show all of this to people. This is where
the state of several actors meets, in callbacks and awaits whose orders no test
enumerates.

Sections: [inventory](#1-inventory), [what makes it hard](#2-what-makes-this-code-hard),
[modules](#3-the-modules-and-the-code), [runs](#4-the-runs-and-what-they-show),
[bounds and fairness](#5-bounds-fairness-and-environment), [proofs](#6-what-is-proved),
[disagreements](#7-where-code-and-text-disagree), [limits](#8-what-is-not-covered),
[plan](#9-plan).

Paths below are relative to the repository root; `service/` stands for
`packages/service/src/` and `web/` for `packages/web/src/`.

## 1. Inventory

### The coordinator (`packages/service`)

| Component | Source | State it keeps | Operations | Talks to | Modelled in |
|---|---|---|---|---|---|
| Operator cohort book | `operator-cohorts.ts`, `cohort-intent.ts`, `advert-republish.ts` | drafts; `advertised` map and its windows; terminal records; `dismissedCanceled`; window timers; intents; `advertSlotOwner` and the republisher's `stopCurrent` | create / edit / discard a draft, advertise, re-advertise, cancel, finalize, dismiss, settle (promise reaction), window timer, slot repair, `cohortFate` | runner (`advertiseCohort`, `stopCohort`, `triggerFallback`), transport's advert cell, settings (`paused`), the stop signal | OperatorCohorts |
| Service wiring | `index.ts` (`createService`) | `advertisedAt`, `fundingWatches`, `lastFundingView`, lapse tables, broadcast-disabled stamp | the runner listeners, `onProvideTxData`, release of the tables, the kill switch, `stop()` | every other part | ServiceWiring, and its part of FundingWait, BeaconPublication, OperatorList |
| Runtime settings | `runtime-settings.ts` | defaults, pause flag, kill switch, branding | seed, apply a patch, pause/resume, disable broadcast | book, wiring, routes | RuntimeSettings, OperatorSurface |
| Beacon broadcast and anchor state | `broadcast.ts`, `anchor-state.ts` | nothing between calls; the bounded anchor map | send with retries, resolve a duplicate, poll for confirmation; fold three frames | wiring, monitor, routes | BeaconPublication |
| Funding watch, live transaction data | `funding-watch.ts`, `tx.ts` | one loop per cohort, its abort controller | poll, report a view, retire, stop; wait for funding and build | chain client, wiring | FundingWait |
| Test peers | `test-peers.ts` | registry of batches per cohort, badge set of DIDs | spawn a batch, release a cohort, stop all | participant library over an in-process transport | TestPeers |
| Cohort monitor | `monitor.ts` | per-cohort entries, ended rows, funding views, activity rings | fold about fifteen events, note an operator's act, dismiss an ended row, project rows | runner, broadcaster, book, routes | CohortMonitor |
| Terms acceptance | `acceptance-ledger.ts`, `hono-adapter.ts`, `store.ts` | ledger by participant and cohort; one file per record | accept, replay, replace, overflow, retire | artifact store | AcceptanceLedger |
| Operator authentication | `operator-auth.ts` | sessions, one attempt window per client | log in, check, log out, expire | routes | OperatorAuth |
| HTTP routes | `hono-adapter.ts`, `static-site.ts` | none | parse, dispatch, refuse | all of the above | OperatorRoutes, OperatorSurface |
| Store, persistence, genesis capture | `store.ts`, `persist.ts`, `genesis-capture.ts` | content-addressed files or maps; a bounded staging cache | put, get, delete; harvest a finished cohort; stage and promote a genesis | wiring, resolution | `put` and `delete` in AcceptanceLedger |
| Roster gate | `roster.ts` | none (a set of keys in the caller) | decide one opt-in | runner | no |
| Resolution, IPFS | `resolve.ts`, `ipfs.ts` | none | drive the resolver; pin a document | chain, store | no |

### Around it

| Component | Source | State and operations | Modelled in |
|---|---|---|---|
| Participant package | `packages/participant/src/index.ts` | wraps the library's participant runner: start, join, answer, stop | its effects, in ParticipantRound |
| Browser participant store | `web/stores/participant.ts` | identity, accepted terms, the picked cohort, the runner, six polls each guarded by an epoch, the captured update, registration, publication | ParticipantRound |
| Browser operator store | `web/stores/operator.ts`, `web/lib/operator.ts` | who is signed in, the slice a session fills, one busy marker per control; every verb of the operator routes | OperatorConsole, OperatorRoutes |
| Operator list | `web/lib/operator-rows.ts`, `web/lib/lifecycle.ts`, two components | none: joins what two reads served into rows, chips and offered controls | OperatorList |
| Shared registry | `packages/shared/src` | encodings, networks, the terms text | `phases.ts`, in CohortPhases |
| Components, demo server, scripts | `web/`, `service/demo-server.ts`, `e2e` | rendering, start-up, test harnesses | no |

What makes each of them correct:

- *Book.* A cohort is in the map exactly while the library holds it; a fate is never
  attributed to a cause that did not happen; a participant who was told "canceled" keeps
  being told; the transport's one advert cell never serves a dead cohort, and never loses
  a live one to a repair.
- *Wiring.* The kill switch binds every later cohort at each of the three places it is
  consulted; one transaction is not built live and then withheld, nor the reverse; nothing
  that was released comes back; nothing polls for ever.
- *Funding.* The wait gives its own reason before the library's timer gives a generic one;
  "never arrived" is said only of money that did not; the display, the wait and the
  builder judge the same output; a stopped watch reports nothing.
- *Settings.* A patch applies whole or not at all and is told in the log; what the holder
  serves can be saved again and makes a cohort the service can keep its word about.
- *Authentication.* No address gets more tries than a window allows, however its requests
  overlap; one that was refused stays out for the window.
- *Test peers.* Every running peer can be reached by whoever has to stop it.
- *Acceptance.* The ledger's bound bounds the directory; what was acknowledged resolves.
- *Monitor.* A row tells what happened, whichever frame came last, dismissed or evicted
  meanwhile or not.
- *Broadcast.* One success per transaction, duplicates included; a verdict is never taken
  back by a late frame, and a stopped service says nothing more.
- *Operator list.* Each cohort has one row, the row tells its fate whichever book it was
  read from, the numbers above the list count the rows below it, and no dismissal,
  re-advertise, cancel or finalize that is shown is one the service refuses.
- *Browser stores.* An answer from an earlier session, round or poll changes nothing; no
  handle outlives its round; nothing spins for ever; only a click submits.

## 2. What makes this code hard

It is single-threaded JavaScript, so a handler is atomic up to its first `await`. The
difficulty is in what lies between two turns of the event loop:

- **One promise, five ends.** A cohort's completion rejects the same way for an
  operator's cancel, a closed discovery window, a library TTL, a protocol failure and a
  shutdown. The fate is recovered from a registry of declared *intents*, written before
  the stop and read in the promise reaction after it.
- **One advert cell.** The transport holds a single advert. The book mirrors who owns it
  and re-publishes an older cohort's advert when the owner goes.
- **Bounded tables, oldest first.** Terminal records, carried fates, advertise stamps,
  funding watches, funding views, acceptances: each forgets its oldest entry whatever the
  entry's subject is still doing.
- **Two books of one life.** The book and the monitor file a cohort's end by different
  rules and keep it for different times; the console joins them by id.
- **A switch read three times.** The watch, the builder and the broadcast each ask whether
  the cohort keeps its live wiring; the switch may move, and the evidence may be evicted,
  between any two.
- **A wait against three clocks.** The wait for money races its own deadline, a TTL armed
  at the advertise and a phase timer armed at signing, and whichever settles the one
  promise first chooses the reason everybody reads.
- **Reads that outlive their reader.** A chain read, a peer's `start()`, a file write and
  a deletion are in flight while their cohort, batch or process ends. In the browser, so
  is every poll while the participant leaves, rejoins or starts over: each poll carries an
  *epoch* that a teardown bumps, and an answer asked under an older one is dropped.
- **Sessions that end under their requests.** A session expires, is logged out elsewhere
  or dies with the process while requests are in flight; the console may be signed in
  again before their answers land.
- **Checks before an awaited body.** The login throttle and the gate are consulted before
  the request's body is read, and act after it.
- **Files that outlive the process.** The acceptance ledger does not survive a restart;
  its directory does.

`PROJECT.json` lists every such hazard at its line, with the property that watches it.

## 3. The modules and the code

```
CohortPhases <- OperatorCohorts <- MCOperatorCohorts
                     |
             refines CohortLedger

BoundedMap <- ServiceWiring    <- MCServiceWiring,    ServiceWiringProofs
    ^      <- AcceptanceLedger <- MCAcceptanceLedger, AcceptanceLedgerProofs
    |      <- AnchorState   <-\
    |                          BeaconPublication <- MCBeaconPublication, BeaconPublicationProofs
    |      <- CohortMonitor <-/
BoundedMapProofs <- the three proof modules above, OperatorCohortsProofs, FundingWaitProofs

OperatorCohorts + CohortMonitor + AnchorState <- OperatorList <- MCOperatorList,
                                                                 OperatorCohortsProofs

OperatorAuth + RuntimeSettings <- OperatorSurface <- MCOperatorSurface \
OperatorRoutes <- OperatorConsole <- MCOperatorConsole                  > OperatorSurfaceProofs

FundingWait      <- MCFundingWait,      FundingWaitProofs
ParticipantRound <- MCParticipantRound \
TestPeers        <- MCTestPeers         > ParticipantRoundProofs
```

### OperatorCohorts

The book, with `CohortPhases` for the phase sets of `shared/src/phases.ts`. One action
per exported operation and per callback:

| Code | Action |
|---|---|
| `createDraft`, `updateDraft`, `discardDraft` | `CreateDraft`, `UpdateDraft`, `DiscardDraft` |
| `advertiseDraft`, `readvertiseExpired` | `AdvertiseDraft`, `ReadvertiseExpired` (both through `Advertise`, `ArmWindowTimer`) |
| `cancelCohort` | `CancelCohort`: declare, disarm, stop, repair, in that order |
| the discovery-window timer | `WindowExpires` |
| `finalizeCohort` | `FinalizeCohort` |
| `settleCompletion`'s reaction | `SettleCompletion` (`LeaveBook`, `RememberTerminal`, `RepairAdvertSlot`) |
| `forgetTerminal` | `ForgetTerminal` (`CarryFate`) |
| `setPaused`, `service.stop()` | `SetPaused`, `StopService` |
| the runner's protocol progress, success, failure | `RunnerAdvance`, `RunnerComplete`, `RunnerFail` (external) |

*Turns.* A request, timer or event runs to its end, and the promise reactions it queued
run before the next macrotask: every such action is guarded by `TurnOver` (nothing is
settling), and `SettleCompletion` is the only step enabled in between. Settlements queued
by one handler (a shutdown) may be reacted to in any order.

*Maps.* A JavaScript `Map` iterates in insertion order. A cohort id is drawn once by the
library (a UUID) and each of these maps inserts it at most once, so the order of a map is
that of the history its keys were appended to: `adverts`, `endings`, `dismissals`. The
eviction is `Bounded`. `cause` is a history variable: what really happened to a cohort,
written by the end itself, never read by an action except that `"fresh"` stands for an id
not drawn yet.

*The library and the transport* are modelled from how the book relies on them:
`stopCohort` is silent and a no-op on a settled cohort; a stop closure empties the cell
only while the cell holds that very advert; filling the last seat (`keygen-complete`)
clears the runner's own advert but not one the republisher installed; `triggerFallback`
is legal only in the phases `isFinalizablePhase` names; `runner.stop()` rejects every live
completion; `transport.stop()` empties the cell. Requests are still possible after a stop,
because the routes are closed by the caller of `stop()`.

*Left out:* the data of a cohort configuration other than its discovery window; the
intent registry's own bound (an intent lives for less than a turn, so its map never holds
more than the cohorts one handler stops); projections for display, except `cohortFate`,
the one bit a stranger may read. What a draft may contain is RuntimeSettings' part, and
the reads behind the list are OperatorList's.

### CohortLedger

The abstract specification of the book: no event loop, no runner, no slot. A cohort is
opened once, closed once, and closing files its fate in the same step unless it completed;
a fate is kept until it is forgotten, reopened, or pushed out of a full book; a forgotten
canceled cohort is still *told* canceled, within the same capacity. `ImplementsLedger`
states that `OperatorCohorts` refines it, under the mapping `LedgerState`: a cohort is
live while it is in the `advertised` map, and the promise reaction is the step that closes
it.

### BoundedMap

The delete-then-set map with oldest-first eviction that the service writes out by hand in
several files. A map is the sequence of its entries. `Remember` is `rememberBounded`.

### ServiceWiring

The money path through `createService` of a *broadcasting* service. `stage` is how far the
runner has taken a cohort; the actions are the listeners, in their order of registration:
`Advertise` (stamp), `KeygenComplete` (start the watch, if the switch allows),
`ProvideTxData` (choose the builder), `TxDataReady`, `SigningComplete` (broadcast gate,
*then* release), `CohortFailed` (release only when a watch handle is left), `CancelCohort`
(the `onCancel` hook), `WindowExpires` (silent), `DisableBroadcast`, `StopService`.
`watch` holds the loops of `funding-watch.ts`: `reading` while a chain read is in flight,
`aborted` when stopped during one. `WatchAnswer` is the code after that await.

*Abstracted:* the clock is counted in advertises, the only instants the switch's stamp is
compared with; a chain read answers funded or not; deadlines and lapses are FundingWait's;
persistence of results and the monitor's notes are left out. A live builder whose cohort
was canceled stays in its wait: nothing reads it again.

### FundingWait

One cohort's wait for its money, in time. The beacon address is a chain of confirmed
outputs and a mempool; `boot` is what was configured (TTL, service window, draft window,
live path or not), any combination of set and unset.

| Code | Action |
|---|---|
| `keygen-complete` listener: start the display watch, disclose a truncated window | `KeygenComplete` |
| one turn of `createFundingWatch`'s loop; its `delay` | `WatchAnswer`, `WatchWake` |
| `makeProvideTxData`: fixture, single look, or the wait | `ProvideFixture`, `ProvideSingleShot`, `ProvideAfterWait` |
| `waitForFunding` after a read; at the top of the loop | `WaitAnswer`, `WaitWake` |
| `buildAggregationBeaconTx` reading for itself | `Build` |
| `signing-complete`, then the network | `SigningComplete`, `Publish` |
| the library's cohort TTL and phase timer | `TtlFires`, `PhaseTimerFires` (external) |
| `onCancel`, `service.stop()` | `CancelCohort`, `Stop` |
| payments, blocks, `Date.now()` | `Pay`, `Confirm`, `Tick` (external) |

`classifyFunding`, `computeFundingDeadline` and the truncation are operators of the same
names. Time is counted in units from the advertise; a chain read is served at the moment
it is answered, the wait's reads are answered within `ReadMax`, its sleeps last `Poll`
unless `stop()` cuts them short. The wait polls on after its cohort failed or was
canceled, as in the code: nothing cancels it, and nothing listens any more.

*Abstracted:* the single look is one step, since nothing but its answer is read after it;
amounts are the few values the predicate tells apart; a payment stays unless the beacon
transaction spends it.

### TestPeers

The registry and the asynchronous spawn of `test-peers.ts`. Peers are counted, not named:
`spawn[r].up` those a batch under construction has started, `handles[c]` those of
registered batches, `running[c]` those whose subscriptions are open. Every `await` of a
`start()` is a step boundary (`PeerStarts`, `PeerFails`); `SpawnReturns` is what follows
the loop. How long a `start()` takes is up to the participant library, so it may span any
other handler. `Complete`, `Cancel`, `CohortFails` and `WindowExpires` carry exactly the release
`index.ts` gives each end; whether `CohortFails` finds a watch handle depends on the mode of the
service, so its release is a choice once the roster is full. The badge set of DIDs, which
only labels rows, is left out.

### AcceptanceLedger

`POST /v1/terms/acceptance`: `Post` is the handler up to the awaited write, `PutLands` /
`PutFails` the outcome of the write, `Reconcile` the run of code after it (the ledger's
`remember` has no await), `DeleteLands` / `DeleteFails` one awaited retirement each,
`Restart` a process that comes back on the same directory with an empty ledger. The file
system is external and is modelled by what a `writeFile` does: opening empties the file
that is there, the bytes land later, and an unlink leaves a writer writing to nothing
(`linked`). A body refused before the write leaves no trace and is left out. Each request
is one post; a client that retries is another request with the same record.

The memory store is the special case in which no request runs between a `put` and its
resolution; the races below need the file store.

### AnchorState, CohortMonitor, BeaconPublication

`AnchorState` and `CohortMonitor` are folds: the bounded maps of `anchor-state.ts` and
`monitor.ts`, one operator per listener or method, and the projections they answer
(`read`, `summary`, `publicFunding`). `BeaconPublication` composes them with what writes
to them: the display watch, the broadcast handler, the runner's listeners in the order
`createService` registers them, the operator, and the network.

| Code | Action |
|---|---|
| `keygen-complete` listeners of monitor and `index.ts` | `KeygenComplete` |
| the other member, round and operator notes | `CohortEvent` (only the insertion order of the entry can matter) |
| `fallback-started` | `FallbackStarted` |
| `signing-complete`: broadcaster up to its first await, monitor, release | `SigningComplete` |
| `cohort-failed`: monitor, then lapse verdict and release | `CohortFailed` |
| `onCancel`; the window timer; `dismissEnded`; `stop()` | `CancelCohort`; `WindowExpires`; `Dismiss`; `Stop` |
| one turn of `createFundingWatch`'s loop | `WatchPoll` |
| `sendWithRetry` | `SendAccepted`, `SendRefused`, `SendLost` (what an awaited send can come back as), `SendAgain` (after the backoff) |
| the loop of `broadcastAndConfirm` | `ConfirmationRead`, `PollAgain` |
| payments, late requests, blocks | `Pay`, `LateArrival`, `Mine` (external) |

`handler[c].step` names the await the handler of a cohort is suspended in, so a stop, a
dismissal or an eviction falls between any two. A duplicate rejection and an acceptance
are one action: the code makes both a success, and both mean the node has the transaction.
`SendLost` leaves open whether the request arrived: `LateArrival` delivers it later, or
never.

*Abstracted:* the kill switch is one verdict per cohort, fixed at the start, and the side
tables of `index.ts` do not overflow (ServiceWiring is about both); a poll of the display
watch is one step (its await is ServiceWiring's and FundingWait's); the id of a signed
transaction is always known; an address receives one output; nothing is reorganised away;
deadlines may pass at any pause. Members, rounds, co-sign counts and activity rings, which
only display, are left out. `lost`, `acked` and `gone` are history variables.

### OperatorList

The composition of what a console joins: the book (`OperatorCohorts`), the monitor's fold
(`CohortMonitor`) and the anchor fold, driven by one life of each cohort, with the
listeners of `createService` in between: `Advance` is `keygen-complete` and what follows,
`Complete` runs broadcaster, monitor and release in their order, `Fail` files the lapse
verdict, and the frames of the broadcaster reach the anchor state before the monitor. The
reads are operators named as in the source (`directory`, `openCount`, `status`,
`listCohorts`, `serviceMetrics`, `buildDetail`), and so are the joins
(`groupRenderRows`, `chipForCohort`, `groupForChip`), the cancel rungs and the finalize
and dismiss rules of `lib/lifecycle.ts`. A row is `[id, state, chip, ...]`; what a page
offers on it is `RowOffers` and `DetailOffers`, and what the service does with the click
is the book's and the monitor's own action. Every read is fresh, but a request is not
confined to what a fresh page offers: a click on a stale row is one of them.

### RuntimeSettings, OperatorAuth, OperatorSurface

`RuntimeSettings` holds no state: it is the pure part of `runtime-settings.ts` - what a
boot seeds from an environment that may be absent, malformed, too long or beyond the
ceiling, and what a patch does to the set - with the two readers of its values, the
create form's defaults in `operator-cohorts.ts` and the console's form in whole minutes
(`UntouchedForm` is `formFromSnapshot` followed by `settingsPatch`).

`OperatorAuth` holds the sessions with their lazy expiry, the cookie each browser keeps
(which the browser drops by itself when its age in whole seconds is over) and the attempt
windows. A login is two steps, `LoginArrives` (the throttle's check) and `LoginFails` /
`LoginSucceeds` / `LoginMalformed` (after the awaited body).

`OperatorSurface` extends both with the gated controls:

| Code | Action |
|---|---|
| a request the gate refuses | `Denied` |
| the pause, resume and broadcast-disable routes | `Pause`, `Resume`, `DisableBroadcast` |
| `DELETE` of a draft | `DiscardDraft` |
| a route with a body, up to its `await` | `Arrives` |
| the rest of `PUT settings`, `POST` and `PATCH` of a draft | `PutSettings`, `CreateDraft`, `UpdateDraft` |
| a process that dies and boots again with the same environment | `Restart` |

`log` is the operator log of `monitor.ts`: a ring that folds a repeat into one line
(`Note`) and takes one line for each field a patch moved (`NoteChanges`).

*Left out:* the length of a password and its constant-time comparison; every setting's
wording; the advertise and cancel routes, which are the book's.

### OperatorRoutes, OperatorConsole

`OperatorRoutes` tabulates, per route of `hono-adapter.ts`, the statuses it can answer
with behind its middlewares, and per function of `web/lib/operator.ts` what the client
makes of a status and of a body that has, or lacks, what it looks for.

`OperatorConsole` is the store over them. `auth`, `sessionRound` and `liveSessionRound`
are the store's; `slice` is what `gatedSliceReset` clears (what was served, busy markers,
errors, the view). A verb is two actions: it asks (`Ask`: its marker goes up, the request
leaves with the round it was asked in) and it lands (`Lands`: a refusal first, then the
round, then the write, then what follows a success, usually a read of the list). `Answer`
is the service, from the two tables; any answer may also be lost to a timeout. Sessions
end at any time (`SessionEnds`), the process may come back without a password (`Reboot`),
the console may be mounted again (`Probe`).

`holder`, `writers` and `crossed` are history variables: the session the console stands
for, the sessions whose answers wrote the slice since its reset, and whether a sign-in
was ever answered while a session was live.

*Left out:* the four-second confirmations; drafts of a form; wording.

### ParticipantRound

The participant's tab. `tab`, `round` and `outcome` are the store's reactive state (an
identity with the terms it accepted; the picked cohort and how far the join came; what is
reset by `INITIAL_OUTCOME`), `mod` the handles it keeps at module scope: the runner, the
open submit gate, the captured update, the IPFS node, which polls are on, the counters.
`reads` are the requests in flight. An epoch is not a number here: bumping it makes the
reads asked under it not `fresh` (`Outdated`), and a continuation that compares epochs
drops them (`Dropped`).

| Code | Action |
|---|---|
| `adopt` (generate, import), `leave`, `startOver` | `Adopt`, `Leave`, `StartOver` |
| the identity step's "join", `acceptTerms`, `join` | `ConfirmJoin`, `ConfirmTerms`, `TermsRecorded`, `TermsRefused` |
| `start()` answering | `Started`, `StartFails` |
| runner events | `CohortJoined`, `CohortReady`, `GateOpens`, `UpdateDeclined`, `CohortComplete`, `CohortFailed` |
| `submitUpdate` | `SubmitUpdate` |
| a poll's tick | `DirectoryTick`, `PostSeatTick`, `FundingTick`, `AnchorTick`, `LagTick` |
| what it lands as | `DirectoryAnswered`, `PostSeatAnswered`, `FateAnswered`, `FundingAnswered`, `AnchorAnswered`, `PollFails`, `Lost`, `Dropped` |
| the grace timer | `GraceExpires` |
| `resolve`, `register`, `publishIpfs` and their awaits | `Resolve` / `ResolveAnswered`, `Register` / `UtxosAnswered` / `BroadcastAnswered`, `PublishIpfs` / `NodeBooted` / `PublishEnds` |
| the public directory | `WorldMoves` (external) |

Each `clear...` of the code is an operator on `mod`, and each teardown path applies
exactly those the code calls. A stopped runner is silent. `Stage` is `deriveStage`.
Outcomes carry the identity or the cohort they were read about, which the program does
not keep: that is what `PolledFactsAreOfThisRound` compares.

*Left out:* step marks, the log and sentences; the wallet round trip
(`web/stores/participant.ts:2497-2609`) and a participant's own chain endpoint
(`2637-2678`): the acts after a completed round already make up nine tenths of the
states, and each of the two multiplies them.

## 4. The runs and what they show

| Run | Instance | States | Shows |
|---|---|---|---|
| `oc_safety` | 3 cohorts, 1 draft slot, capacity 2 | 385 000 | `FateHonest`: a record or a public answer never names a cause other than the real one. `BookMatchesSession`: between turns the map is the session and no intent is pending. `SlotMirrored` and `RepairNeverOverLiveAdvert`: the repair does neither too little (an empty cell while a cohort is open and no owner is named) nor too much (over a live cohort's advert). `FateRetraction`: an answer is withdrawn only by a re-advertise or by a full map. `ImplementsLedger`: the refinement. |
| `oc_liveness` | 2 cohorts, capacity 1, fair | | `AdvertisedEventuallySettles`: whatever the operator does, every advertised cohort leaves the map. |
| `wiring_safety` | 3 cohorts, tables of 2 | 1 830 000 | `SwitchHolds`: nothing advertised after the switch is watched, built live or published. `LegsAgree`: only live-built transactions are published, and one is withheld only when later adverts pushed its stamp out. `WatchesEnd`, `ReleasedStaysReleased`: a watch outlives its cohort only where no listener runs, and a late read resurrects nothing. |
| `funding_safety` | 1 cohort; window 2, TTL 5, phase timer 3, slack 2, poll 1, read 1, 6 units of time | 8 740 000 | `WaitOutrunsTheTtl`: the wait is over before the TTL can fire, however late it began. `NeverArrivedIsHonest`: it is said only of an address that was not funded one poll before the window closed. `OneConvention`: a dead end stays one and is never shown of a cohort that is being paid for, and what the builder picks meets the ask. |
| `monitor_safety` | 2 cohorts, 1 retained record per map, 2 send attempts | 1 125 000 | `AnchorHonest`: the anonymous anchor read says "broadcast" or "confirmed" only of what the network has, and "failed" never of what the node acknowledged. `VerdictsStand`: a confirmed or failed answer never changes. `RowsHonest`: each console row is its cohort's own fate. `FoldsAgree`: the anchor map and the monitor agree on what both retain. `AwaitingExplained`: the public funding read claims a wait only while there is one, or for a reason listed. `QuietAfterStop`: no answer in flight outlives a stop. |
| `list_safety` | 2 cohorts, every map of 1 | 490 000 | `RowsTellTheFate`: one row per cohort, its chip true, its group right, and none missing that a book accounts for. `CountsHaveRows`: the metrics count the rows. `OffersAreHonoured`: no dismissal, re-advertise, cancel or finalize of a fresh page is refused, and every live cohort can be cancelled from its row. `RowsNeverRegress`: a finished row never reads live again and never takes back a verdict. |
| `peers_safety` | 2 cohorts of 2 seats, 3 spawns | 200 000 | `EveryPeerIsHeld`: on a running service each peer is held by a batch or by the spawn building one. `EndsReachTheirPeers`: an end reaches every peer it could know of. |
| `acceptance_safety` | 4 records of 3 keys, 4 posts, ledger of 2, 1 restart | 111 000 | `FilesAccounted`: no file is orphaned except by a fault. `ReplaysAreHarmless`: overlapping replays of one record never unpublish it. |
| `surface_safety` | 1 browser, 2 requests in flight, 2 attempts, 1 session, 1 restart, 4 environments, 2 patches | 2 420 000 | `AttemptsBounded`: a window counts no more than its limit and the requests beside the last one. `RefusalsHold`: a refused address stays out for that window. `SettingsServable`: an untouched form is accepted and changes nothing, the defaults make a cohort, no draft promises a window the service would overrule. `WholePatchesLogged`: settings move by whole patches, and every change is the last thing in the log. |
| `console_safety` | 2 cohorts, 2 requests in flight, 2 acts, 2 sign-ins, 2 mounts | 3 540 000 | `SliceOwned`: what a session shows was written by its own answers. `NoDeadSpinner`: behind every busy control there is a request of this session. `DetailIsOfTheOpenCohort`. `RefusalEndsItsOwnSession`: a late refusal signs nobody else out. |
| `participant_safety` | 2 cohorts, 1 identity, 2 joins, 2 reads in flight, 1 later act | 1 930 000 | `HandlesFollowTheRound`: runner, polls, grace timer and gate exist exactly when the round on screen calls for them. `VerdictsAreReal`: "filled" and "gone" are said of cohorts that are. `PolledFactsAreOfThisRound`: what is shown was read about this cohort and this identity. `GateSettledOnlyByClick`. |
| `participant_terms` | the same, 2 identities | *violation* | `JoinedHaveAccepted`, section 7. |

Each property is paired, in `PROJECT.json`, with a mutation of the code under which the
same run finds it violated. The mutated operators stand in the modules next to the ones
they change, marked as mutants or slips.

Type invariants, and three invariants of the first runs that are now theorems
(`TimersGuardLiveCohorts`, `TornExplained`, and `SequentialAgreement`: without overlap,
ledger and directory are equal), are not in the configurations. `TypeOK` of FundingWait, which no theorem states, holds in the instance above
when it is put on the `INVARIANTS` line: what is left at the address once the beacon
transaction spent from it is a `SelectSeq`, and its type is an induction over the sequence.

## 5. Bounds, fairness and environment

*Bounds.* The caps of 24 and 200 become 1 or 2 and the cohorts outnumber them, so every
table overflows. Three cohorts are what the cross-cohort properties of the book need: an
owner of the slot, its successor and a bystander; two carried fates and one more. One
draft slot is enough because drafts do not interact and the slot is reused; two windows
are the two cases of `armWindowTimer` (shorter than the TTL, not shorter). The phase graph
of the instance has one phase of each kind the code tells apart: joinable, filled but
still "open", waiting, signing, falling back; the proofs hold for any graph that never
returns to `Advertised` and never reopens. Three spawns are the least in which two overlap
on one cohort while a third runs elsewhere. Four posts let a replay, a replacement and an
overflow overlap; a second restart adds nothing, since the first one already empties the
ledger and makes the directory `inherited`. Nothing in a model grows without bound: cohort
ids and requests are each used once, and every counter has a bound that is named with the
constants.

In `monitor_safety` and `list_safety` every map holds one record and there are two
cohorts, so each fold can evict the other cohort's record at any time: with respect to one
cohort that is all a full table of 24 can do. Two attempts are the first send and a retry;
the third would meet the same states as the second.

In `funding_safety` the window (2), the slack (2) and the TTL (5) are such that a wait
begun at the advertise keeps its window, one begun two units later is truncated, and one
begun three units later has none; the phase timer (3) falls between window and TTL; the
slack is exactly one read and one sleep, the least the code's assumption allows. Each of
window, override and TTL is also absent. Time ends one unit after the TTL. Three payments
are dust, too little and enough.

In `surface_safety` a minute is two ticks, so a window may be no whole number of minutes,
the four environments seed values the holder takes, clamps, floors, drops or replaces,
and one patch is acceptable under some of them and refused for its last field under
others. One address is enough for the throttle, whose windows never meet; two slots let
two logins, or a save and a login, overlap.

In `console_safety` two requests in flight are a late answer and the session it meets; two
sign-ins are two sessions; two mounts are a probe and the one that crosses it. What an
operator asks for differs only in the marker it raises, so two acts are two verbs in any
order, each followed by the read it causes. In `participant_safety` two joins are the round
whose answers are late and the round they meet; a threshold of two stands for "more than
one"; with one identity `PolledFactsAreOfThisRound` is about cohorts, and what it says
about identities rests on its proof, which is for any number of them.

*Symmetry* is taken over cohorts and over requests in the safety runs whose constants
allow it: no definition distinguishes two of them. The liveness run uses none.

*Fairness* is stated once, in `FairSpec` of OperatorCohorts: the event loop drains its
promise reactions (`WF` of `SettleStep`), and the library arms a TTL for every cohort it
advertises, so a cohort that does nothing else fails (`WF` of `RunnerFail(c)`). Operators,
participants and window timers owe nothing. That a busy control comes to rest is stated
as the invariant `NoDeadSpinner` instead of as liveness: there is always a request whose
answer, or timeout, clears it.

*Deadlock* is checked for the book and for the list, where a paused or stopped service can
always still be resumed or edited. It is not for the others: when every cohort has ended,
every spawn has returned, every request was answered or every counter is used up, they
really stop.

## 6. What is proved

Eight modules hold proofs, checked by TLAPS for every value of the constants allowed by
the named assumptions (`CapAssumption`, `WindowAssumption`, `PhaseAssumption`,
`NoneAssumption`; `CohortAssumption`, `EntriesAssumption`; `KeyAssumption`,
`BoundAssumption`; `TerminalAssumption`, `MonitorAssumption`, `AttemptsAssumption`;
`MoneyAssumption`, `TimeAssumption`, `SlackAssumption`; `RoundAssumption`;
`AuthAssumption`, `ShapeAssumption`, `SurfaceAssumption` and the four of RuntimeSettings;
`WatchAssumption`, `FallbackAssumption`, `IdAssumption`; `ConsoleAssumption`,
`NilAssumption`; `CapacityAssumption`, `NoCohortAssumption`). TLC evaluates each of them on
the run of its module. Four say more than that a bound is a number or a marker is no value.
`FallbackAssumption` says that no protocol step leaves `FallbackRequested`: a cohort that
fell back sits there until it ends (`web/lib/lifecycle.ts:107-109`). `IdAssumption` says that
a draft and a cohort never share an id, which are both drawn by `randomUUID`. `MoneyAssumption` says that the marker of a fixture plan is not the name of a
payment. `ShapeAssumption` says that the options of a boot and the bodies of a request
are of their declared TypeScript types: a text is absent or a text of some length, a
number is absent, an integer or something the code refuses. The route casts its body
without a check of its own (`hono-adapter.ts:941`), so a body whose text is not a string
is outside what is proved.

**OperatorCohortsProofs.** None of the book's invariants is inductive alone: that a fate
is honest depends on intents, which depend on who is settling, which depends on the
session. `IInv` adds what ties them:

- `SessionInv`: a cohort is in the session iff its history says live, and a settling
  cohort has the history of an end of that kind;
- `AdvertisedInv`: the map holds a cohort until its reaction has run, together with the
  window it was advertised with;
- `IntentInv`: an intent lives exactly from the stop it explains to the reaction that
  reads it, and names that end;
- `TimerInv`, `RecordInv`: what timers guard and what a record may say;
- `SlotInv`: the cell is empty or holds an advert of the mirrored owner, who has left the
  session only while its reaction is pending.

One lemma per action, then `Inductive`, and from it `TypeCorrect`, `FatesAreHonest`,
`BookIsSession`, `TimersHaveCohorts`, `MirrorIsSafe` and, as an action property,
`RepairIsSafe`.

The answers and the refinement count. `BookInv` adds to `IInv` that the two maps of
answers hold only what their histories name, in the order of histories that name nobody
twice (`HistoryInv`), and never more than `MaxTerminal` (`CapacityInv`). A step is of one
of four kinds for these maps - it does not touch them (`Unseen`, one lemma for twenty-odd
actions), starts a cohort over, files an end, or forgets a canceled row - and each kind has
its account of what was evicted and why the map was full. From it follow `AnswersAreKept`
(nobody's answer is taken back but by a re-advertise of that cohort or by an overflow) and
`BookImplementsLedger`: under the mapping `LedgerState` every step of the book is a step of
`CohortLedger` or a stutter. `LedgerState` is an ordered chain of conditions, not a CASE:
the conditions overlap, and what a CASE picks then is not determined.

The second half of the module is about OperatorList, which joins the book with the monitor
and the broadcaster. Every step of the list is one of the book's or leaves it alone
(`ListStepsBook`), so the composition runs the book as specified (`ListRunsTheBook`) and
`BookInv` holds of it as it stands. What the rows add needs `ListInv`:

- `MapsInv`, `WatchInv`: each map within its bound, one ended record per cohort;
- `PathInv`: a cohort that fell back is in `FallbackRequested` until it ends, and only a
  completed one has a transaction;
- `MarksInv`: a fallback mark is found only on a cohort that fell back, an anchor frame only
  of a transaction;
- `EndedInv`: what each record says of its cohort (`RecordSays`), and that every end the
  monitor hears of leaves a record until it is given up.

The last is the hard one: a record is written by one listener and overtaken by the frames
of the broadcaster, so it is inductive only with the account of which steps must file a
record (`EndedSteps`) and which leave one alone (`RecordStays`). From `ListInv` the page is
computed: the chip of a cohort, case by case over the two books (`ChipCases`), and that
joining two reads by id gives exactly one row for each cohort either shows (`RowsAre`).
Proved: `RowsAreTrue`, `OffersAreGranted`, `RowsKeepTheirWord`, and `CountsAreRows`, where
finitely many cohorts are advertised at a time (`FiniteInvariant`) although nothing bounds
how many there are, and the metrics and the rows are counted by a bijection (`CountRows`).

**BoundedMapProofs.** What deleting and remembering do to keys, order, length and the
entries of the others, when a full map evicts, that a map without repeated keys is as long
as its keys are many, and that a nonempty set of numbers has a least (`LeastIndex`). These
are the lemmas the others rest on.

**ServiceWiringProofs.** `Inv` strengthens the switch properties by where the evidence
lives: `StampInv` (an entry of the table is the history's stamp, and the table is ordered
by it), `SwitchInv`, `EvictInv` (a missing stamp of a live cohort is explained by
`MaxEntries` later adverts), `BuilderInv` (a builder has run exactly from the building
stage on). From it follow `WiringTypes` (every table within its bound), `SwitchIsFinal`
and `LegsAlwaysAgree`: below the bound, the switch can never split one transaction.

The funding watches have an invariant of their own (`WatchInv`): a handle belongs to a
watch that was started, and a watch that still polls can still be stopped unless
`MaxEntries` other watches pushed its handle out (`HandleInv`). It is what ties a read in
flight to the release it may outlive. From it follow `WatchesAlwaysEnd` and
`ReleaseIsFinal`.

**AcceptanceLedgerProofs.** `Inv` is `TypeOK`, the ledger's own shape (`LedgerInv`: one
entry per key, each entry's record of that key), `FilesAccounted`, and what a request in
flight knows (`DropInv`, `LinkedInv`, `TornInv`). `AloneInv` describes the one request in
flight of a run without overlap, stage by stage. Proved: `AcceptanceTypes`,
`NothingOrphaned`, `TornFilesExplained`, `SequentialRequestsAgree`. `ReplayInv` is about
overlapping requests: while the ledger has room for every key, a record without a rival is
in nobody's list of files to retire, so its writers keep their file and its replays find it
readable or being rewritten. `ReplaysDoNoHarm` follows.

**BeaconPublicationProofs.** `Inv` is `TypeOK`, `HandlerInv` (which stages a handler may
run in, and that one that waits for a confirmation has an acknowledged transaction),
`FramesInv` (an anchor entry says what its cohort's handler has emitted so far; one entry
per cohort) and `StopInv` (a stopped service watches nothing). That a verdict stands needs
all of it: the handler that gave the verdict is `done`, and no other step files a frame.
The rows need `RowsInv` on top: each record is true of its cohort, and a fallback mark is
found only on cohorts that fell back, which has to be followed through evictions and
re-insertions of the entries. Proved: `PublicationTypes`, `AnchorsAreHonest`,
`VerdictsAlwaysStand`, `StopIsQuiet`, `RowsAreHonest`.

Two more relate maps entry by entry. `AgreeInv` compares the anchor answer with the row,
cohort by cohort: a frame renews both or neither, and a cohort no frame renewed keeps what
it had or loses it to an eviction (`Unrenewed`), so the two folds agree wherever both still
hold the cohort (`FoldsAlwaysAgree`). `ViewsInv` says what the monitor's funding view is
worth: while the cohort is under way it is its watch's last view or says funded, and after
a failure it awaits nothing (`AwaitingAlwaysExplained`).

**FundingWaitProofs.** That the wait beats the TTL is arithmetic over its last two steps.
`DeadlineIsClamped` states what `computeFundingDeadline` promises: under a TTL the deadline
is a number, and unless it is zero it ends the slack before the TTL. `TimeInv` carries it
along: a wait is never overdue (`NeverOverdue`), its last read begins inside the window and
its last sleep follows that read (`InsideTheClamp`), so `SlackAssumption` - one read and
one sleep fit into the slack - is all that is needed. Proved: `TimeInvariant`,
`TheWaitBeatsTheTtl`, for any windows, TTLs, payments and poll intervals.

What the loops say of the money rests on one fact about the predicate: the output it
selects is the deepest that could be spent, so an address that only gains outputs never
changes a verdict of funded or dead end (`DeepestSelected`, `DeepestStays`, `SettledStays`).
`AddressInv` carries it: one wait, one verdict, one plan (`WaitInv`); until the beacon
transaction spends from the address, every reader that settled is still right (`ChainInv`);
and what is built meets the ask (`PlanInv`). From it follows `OneConventionHolds`.
`SilenceInv` follows the instant a sleep began: if the read before it was answered, the
address was not funded then. From it follows `NeverArrivedHolds`.

**OperatorSurfaceProofs.** `AuthInv` is the types the throttle needs, `AttemptsBounded`
and `RefusalsBacked`: while a refusal lasts, the window it was given for is still the
address's, and full. Only the logins, the clock and a restart touch either; that everything else - the settings,
the drafts, the controls - leaves them alone is one lemma (`SurfaceSteps`). Proved:
`AuthInvariant`, `ThrottleBounds`, and `RefusedStayOut` for any number of browsers,
addresses and requests in flight.

The settings rest on `Held`: what the holder has, it would accept. Every boot seeds such
settings whatever the environment holds (`SeededHeld`: a floor to whole minutes is whole
minutes, at least one and no longer, and the ceiling is itself such a floor), an accepted
patch leaves such settings (`AppliedHeld`), and the console's form sends them back
unchanged (`HeldSaves`). `SettingsInv` is that with the bodies in flight and the windows of
the drafts; `SettingsAlwaysServable` follows, for any options, patches and drafts. That a
save is the last line of the log (`PatchesWholeAndLogged`) goes through the loop over the
seven fields, unrolled (`ChangesUnrolled`).

The console's half of a session is in the same module. `ConsoleInv` says that the store and
the requests in flight tell one story:

- `LiveInv`: a signed-in console has a live round, and the browser's cookie is the session
  it stands for; without one the slice is as it was reset;
- `RoundInv`: a request asked in the current round was sent with the session that holds it;
- `IdInv`: the id a pending sign-in will be given is nobody's yet, and a request that was
  refused was sent with an id no longer honoured, for sessions are never revived;
- `SpinnerInv`: behind each spinner there is the request that ends it, *of this round*. The
  property asks less of a probe and is not inductive: the answer to a probe of an earlier
  round is dropped, and would leave "checking" on the screen.

Proved: `ConsoleInvariant`, and from it `SessionsOwnTheSlice`, `SpinnersHaveRequests`,
`DetailsBelong` and `RefusalsAreOwn`, for any number of cohorts, requests in flight,
sign-ins and mounts. The two halves share no variable; the settings form of the first is the
console's, and the 401 the second reasons from is the gate's.

**ParticipantRoundProofs.** `RoundInv` is the types, what a read in flight may be relied on
for (`ReadsSound`: a fresh answer was asked in this round, and a fresh snapshot is no
further along than the directory), what ties the picked cohort to the directory
(`Picked`), and the three invariants themselves. The actions fall into
classes that keep it for one reason each: those that move nothing (`QuietKeeps`), that
stay in the round (`SameRound`), that empty it (`VacatedKeeps`), that fail it
(`FailedKeeps`); joining, the two events that move the round on, and the late `start()`
have lemmas of their own. Proved: `RoundInvariant`, `HandlesAreOfTheRound`,
`VerdictsHold`, `FactsAreOfThisRound`, and `OnlyTheClickSettles` for the submit gate.

A participant that the operator spawns is the subject of the module's last section, about
TestPeers. The peers a batch under construction has started are a set of pairs (`Starting`),
so `EveryPeerIsHeld` compares cardinalities, and a `start()` that answers, a batch that
registers and a release each move one set by what they move the counts. Nothing bounds the
requests: that only finitely many peers are starting is part of the invariant
(`PeersFinite`), because they start one at a time. An end is the delicate step when it comes
after the stop, where `EveryPeerIsHeld` says nothing any more, and peers whose `start()`
answered late do run. It is safe for another reason: a cohort still open then was opened
after the stop, so no peer and no spawn was ever for it (`UntouchedInv`), and the spawns
still in flight have all had their `stopAll` (`StopInv`). Proved: `PeersInvariant`,
`PeersKeepTypes`, `PeersStayHeld` and `EndsReach`.

*Only model-checked.* Every invariant and every action property of a passing run is a
theorem. What remains with TLC is the liveness property `AdvertisedEventuallySettles`, since
liveness under fairness is out of this prover's reach (as are `ENABLED` and induction over
data), the type invariant of FundingWait (section 4), and the violations of section 7, which
are counterexamples.


## 7. Where code and text disagree

One disagreement is a run of the project: `participant_terms` (`JoinedHaveAccepted`). The
join gate in `web/stores/participant.ts:1653` compares the accepted *cohort* with the one
being joined, and a change of identity leaves the acceptance standing. Accept as A, join,
leave, use identity B, join the same cohort: the runner connects as B, of whom no
acceptance is on record. The comments at 1647-1651 and 173-177 say that nobody is seated
without one, and that the comparison alone makes it so.

The others have a configuration beside the modules and are not listed in `PROJECT.json`.
`tlc -config <name>.cfg MC<Module>.tla` ends each of them with a violation of the property
named:

| Configuration, property | Code | What happens |
|---|---|---|
| `OperatorCohorts_dismissal`, `DismissalKeepsAnswer` | `service/operator-cohorts.ts:1456` | The carry of dismissed fates is bounded by its own count. With a capacity of two: cancel A, cancel B, dismiss B, dismiss A, cancel C, dismiss C. B's answer is gone, although its record would still be among the newest two had nobody dismissed anything, which is what the comment at 751-756 promises. |
| `OperatorCohorts_repair`, `RepairServesJoinable` | `service/operator-cohorts.ts:959` | The repair takes the newest cohort in an *open* phase, and two of those phases have locked their members. Advertise A, B, C; B fills; cancel C: the cell gets B's advert, and A, still joinable, has none. The comment says "still joinable". |
| `ServiceWiring_inflight`, `InFlightKeepsMode` | `service/index.ts:1080` | The advertise stamp is set once and evicted by age. Once enough later cohorts are advertised, a cohort in flight loses it, and a switch engaged afterwards withholds a transaction that was built live; the comment at 605-614 rules this out. |
| `TestPeers_settle`, `PeersEndWithCohort` | `service/test-peers.ts:311` | A closed window, a failure without a watch handle, and a batch registered after its cohort was released all leave peers running; the module comment says every peer is stopped when its cohort settles. |
| `TestPeers_stop`, `PeersEndWithService` | `service/test-peers.ts:193` | A peer whose `start()` resolves after the abort is pushed, and the `stopAll` meant for it returns at once because the abort already ran it. |
| `AcceptanceLedger_race`, `LedgerMatchesStore` | `service/hono-adapter.ts:400` | A replay of A overlaps a post of B for the same key; each hands the other's record back to be retired, both deletions land, and the ledger names a record with no file. |
| `OperatorConsole_overlap`, `SignedOutHoldsNothing` | `web/stores/operator.ts:1156-1164` | Two sign-ins overlap: the first succeeds and its session fills the slice, the second is refused and clears the live round without a reset. The comment above the branch calls it "reachable only from the login screen, where nothing is live", and 418-420 leaves the clearing to the shared reset. |
| `ParticipantRound_stage`, `StageFollowsTheRound` | `web/stores/participant.ts:2620` | `resolve` asks no epoch after its await. Resolve, leave, join another cohort: the late answer marks a round that is still joining as resolved. |
| `OperatorList_reach`, `OpenReachesTheRecord` | `web/lib/operator-rows.ts:23-25` | An ended row is kept "reachable for exactly as long as the monitor retains it", but opening one asks for its detail, which is served only while the live entry is retained too; the two maps evict separately. |
| `OperatorList_rung`, `FundedCancelIsRung4` | `service/monitor.ts:1014-1018` | An actively funding cohort is "never the one evicted", since each report renews its place. The watch that saw the money confirmed retires and reports no more, so other cohorts' reports push its view out, and a cohort with funds at its address is offered the cancel of an unfunded one. |

Three more need no configuration of their own. Put the property on the `INVARIANTS` line
of `FundingWait_safety.cfg`:

- `UnobservedMeansARead`: "could not observe the chain" is said only after a read. When the
  TTL left is not longer than the slack, the deadline is zero and the wait gives that
  reason without having polled. `service/funding-watch.ts:146-150` repairs one way into
  this verdict "so no caller can reproduce that false verdict"; this is another.
- `WaitOutrunsThePhaseTimer`: the boot check of `service/demo-server.ts:363-371` asks that
  the phase timeout exceed the funding window. A timeout one unit longer passes, and leaves
  no room for the last poll, which may begin inside the window and end after the timer.
- `DisclosureMatches`: the window an operator is shown is computed at `keygen-complete`, the
  one that is waited out when the runner asks for its data. `service/index.ts:1184-1185`
  takes the two for simultaneous; with time between them, the shown one is later.

Smaller observations have no property of their own. The first four are exceptions written
into properties of BeaconPublication, which TLC finds violated as soon as the exception is
taken out:

- `service/broadcast.ts:349`: when the signed transaction does not extract, the failed
  frame is folded synchronously, *before* the monitor's own `signing-complete` listener
  files the co-signed record. The row ends co-signed, while the anchor read says failed
  (`FoldsAgree`, `handler[c].attempt = 0`).
- `service/monitor.ts:1329`: a confirmation that arrives after the row was dismissed, or
  evicted by the cap, files the cohort anew, and without the path its record named: a
  k-of-n cohort reads as plainly anchored (`RowsHonest`, `c \in gone`).
- `service/broadcast.ts:219`: when every answer to a send is lost and the last attempt
  fails, the cohort is called failed although the node may have the transaction, which may
  yet confirm (`AnchorHonest`, `c \in lost`).
- `service/monitor.ts:1595`: a canceled cohort awaits nothing because its record says so;
  once the record is evicted from the terminal map and the view is not, the funding read
  says it waits again (`AwaitingExplained`, `c \in gone`). The same read still says so of
  a cohort whose window closed, and of one that completed before the display watch polled
  the funds its builder had seen.
- `service/index.ts:1237-1244`: the verdict of a failure is a lapse whenever the *display*
  watch had not yet polled the funds, whatever the cohort failed of; and which lapse
  follows that watch's last read, where the comment says it mirrors the wait's own.
- `service/tx.ts`: the signal that ends the wait is the service's, not the cohort's; the wait
  goes on polling, up to its deadline, after its cohort failed or was cancelled.
- `web/stores/participant.ts:1957-1961`: a `start()` that is rejected late fails whichever
  round is on screen, not the one it was called for. `register` (2378-2495) and
  `exportPsbt` (2514-2565) set their answer without asking whose round it is, too.
- `web/stores/participant.ts:2084-2096`: an answer of the participant's own endpoint is
  dropped when the anchor poll was cleared meanwhile by the poll's own last answer; and
  `endpointTxConfirmed` is not among the facts a new round starts without.
- `web/lib/esplora.ts:216-219`: verdicts about an endpoint are cached for the life of the
  page, and nothing in the application calls the function that clears them.
- `web/components/operator/CohortDetail.tsx:477` says that a cohort "anchored via the k-of-n
  fallback path" from the moment the fallback starts, before anything was broadcast.
- A failed cohort is a row labelled "Expired" among the ended ones while the metrics count
  it as failed, and once it was advertised again and failed again its row loses the Dismiss
  control, because the two books then differ about it.
- `service/anchor-state.ts`: the failed frame drops the transaction id, so the reading of
  it in `cancelAvailability` (`web/lib/lifecycle.ts:43`) never applies.

None of this contradicts a passing property: the weaker statement that does hold is
checked or proved beside each disagreement (`FateRetraction`; `RepairNeverOverLiveAdvert`;
`LegsAgree`; `EndsReachTheirPeers`; `FilesAccounted` with `ReplaysAreHarmless` and the
proved `SequentialAgreement`; `SliceOwned` and `NoDeadSpinner`, with the overlap of two sign-ins
named in them; `HandlesFollowTheRound`; `RowsTellTheFate` and `OffersAreHonoured`;
`NeverArrivedIsHonest` and `WaitOutrunsTheTtl`).

## 8. What is not covered

- The aggregation library: its protocol, signatures and session are external and enter
  only as the events this code receives.
- Encodings, keys, transactions and chain data: no property here depends on their content.
- Rendering, process start-up, harnesses.
- Whole components: the beacon address and the offline chain, the roster gate, resolution
  and IPFS pinning, the shared registry with identities and terms, the web components and
  the demo server. They keep no state between calls, or none that another part reads;
  `PROJECT.json` gives the reason for each.
- Parts of components: option parsing and the mounting of routes in `createService`; the
  monitor's members, rounds, co-sign counts and activity rings; event streams, public
  directory reads and the static site among the routes; resolution namespaces, harvesting
  and genesis staging beside the store; the seams of the participant package's own tests;
  the wallet round trip, the chain endpoint, the step marks and the log of the participant
  store.
- One composition of everything. `OperatorList` composes the book, the monitor and the
  anchor map over one life of a cohort. `ServiceWiring`, `TestPeers`, `FundingWait` and
  `BeaconPublication` each carry the part of that life they depend on; that these parts
  agree is argued by the source lines they share, not by a refinement.

## 9. Plan

Done, in the order of importance: the book and its ledger, the wiring, the test peers, the
acceptance route, publication with its two folds, the funding wait, the settings behind
their login, the operator routes and the console, a participant's round, and the list that
joins the two books.

Next modules, in order:

1. The monitor's member rounds and co-sign counts against late and repeated events.
2. The genesis staging cache against a resolution that promotes and one that evicts.
3. The roster decision, as an operator over bounded inputs.
4. The participant package's session around the library runner.
5. The participant's wallet round trip, in a module of its own over a completed round.

Next theorems: that ServiceWiring, FundingWait and BeaconPublication are each a view of the
life that OperatorList composes, as refinements; and the action properties of those new
modules, each with the invariant of its own maps.
