---------------------------- MODULE ParticipantRound ----------------------------
(***************************************************************************)
(* The browser's participant store (stores/participant.ts): one tab picks   *)
(* a cohort from the public directory, joins it with one identity, submits  *)
(* its update on a click, follows the round to its anchor, resolves,        *)
(* registers and publishes, and may then start over with another identity.  *)
(*                                                                         *)
(* `tab`, `round` and `outcome` are the reactive state, `mod` the handles   *)
(* the store keeps at module scope.  A poll is on or off.  A read is in     *)
(* flight until it is answered or lost, and one asked before its epoch was  *)
(* bumped is no longer fresh.  A stopped runner is silent.  Step marks, log *)
(* lines and sentences are left out.  An outcome carries the DID or the     *)
(* cohort it was read about, which the program does not keep.               *)
(***************************************************************************)
EXTENDS Naturals, FiniteSets

CONSTANTS
    Did, Cohort,
    TermsSet,        \* the operator set participation terms
    Mainnet,         \* the service anchors on bitcoin mainnet
    Unreachable,     \* UNREACHABLE_THRESHOLD
    GoneReads,       \* POST_SEAT_GONE_CONFIRMATIONS
    LagAttempts,     \* RESOLVE_LAG_MAX_ATTEMPTS
    MaxJoins,        \* bound: runners the tab creates
    MaxReads,        \* bound: reads in flight at one time
    MaxDesk,         \* bound: register and publish acts
    None

ASSUME RoundAssumption ==
    /\ TermsSet \in BOOLEAN /\ Mainnet \in BOOLEAN
    /\ {Unreachable, GoneReads, LagAttempts} \subseteq Nat \ {0}
    /\ {MaxJoins, MaxReads, MaxDesk} \subseteq Nat
    /\ None \notin Did \cup Cohort \cup {"other", "closed", "dark"}   \* nor is it a reason

VARIABLES
    world,      \* cohort -> what the public directory says of it
    recorded,   \* the acceptances the service holds
    tab,        \* status, identity and the accepted terms
    round,      \* the picked cohort and how far the join has come
    outcome,    \* INITIAL_OUTCOME and what was written over it
    mod,        \* module-scope handles: runner, gate, captured update, polls, counters
    reads,      \* what is in flight
    joined,     \* runners created so far
    settled,    \* history: runners whose submit gate was resolved
    acts        \* register and publish acts so far

counts == <<joined, acts>>
vars == <<world, recorded, tab, round, outcome, mod, reads, settled, counts>>

-----------------------------------------------------------------------------
(* The shapes of the state: ParticipantState and the module-scope handles *)

Listing == {"unlisted", "Advertised", "locked", "gone"}
AnchorStates == {"off", "none", "broadcast", "confirmed", "failed"}
Polls == {"directory", "grace", "postSeat", "funding", "anchor", "lag"}
Statuses ==
    {"idle", "resolving", "resolved", "failed", "checking", "awaiting-funds",
     "broadcasting", "registered", "publishing", "published"}
Kinds ==
    {"terms", "start", "directory", "postSeat", "fate", "funding", "anchor", "resolve",
     "utxos", "broadcast", "ipfs"}
Who == Did \cup Nat \cup {None}
Where == Cohort \cup {None}

TabType ==
    [status : {"no-identity", "ready", "connecting", "live", "complete", "failed"},
     identity : Did \cup {None}, accepted : Where, accepting : BOOLEAN]
RoundType ==
    [picked : Where, optedIn : BOOLEAN, seated : BOOLEAN, joinClosed : BOOLEAN,
     awaitingSeats : Where, pendingSubmit : BOOLEAN,
     error : {None, "other", "closed", "dark"}]
OutcomeType ==
    [anchor : {None} \cup [cohort : Where, state : AnchorStates], unreachable : BOOLEAN,
     awaitingFunding : Where, canceled : Where, included : BOOLEAN,
     resolved : [status : Statuses, did : Who, reflected : BOOLEAN],
     reg : [status : Statuses, did : Who],
     ipfs : [status : Statuses, did : Who]]
ModType ==
    [live : Nat, gate : Nat, submitted : BOOLEAN, captured : Did \cup {None}, node : Who,
     polls : SUBSET Polls, goneStreak : Nat, postSeatFailures : Nat, anchorFailures : Nat,
     lag : Nat, autoResolved : BOOLEAN]
ReadType ==
    [kind : Kinds, fresh : BOOLEAN, did : Who, cohort : Where,
     rows : {None, "boot", "pin"} \cup [Cohort -> Listing]]

-----------------------------------------------------------------------------
NoRound ==
    [picked |-> None, optedIn |-> FALSE, seated |-> FALSE, joinClosed |-> FALSE,
     awaitingSeats |-> None, pendingSubmit |-> FALSE, error |-> None]

\* INITIAL_OUTCOME
InitialOutcome ==
    [anchor |-> None, unreachable |-> FALSE, awaitingFunding |-> None, canceled |-> None,
     included |-> FALSE,
     resolved |-> [status |-> "idle", did |-> None, reflected |-> FALSE],
     reg |-> [status |-> "idle", did |-> None],
     ipfs |-> [status |-> "idle", did |-> None]]

Init ==
    /\ world = [c \in Cohort |-> "unlisted"]
    /\ recorded = {}
    /\ tab = [status |-> "no-identity", identity |-> None, accepted |-> None,
              accepting |-> FALSE]
    /\ round = NoRound
    /\ outcome = InitialOutcome
    /\ mod = [live |-> 0, gate |-> 0, submitted |-> FALSE, captured |-> None, node |-> None,
              polls |-> {}, goneStreak |-> 0, postSeatFailures |-> 0, anchorFailures |-> 0,
              lag |-> 0, autoResolved |-> FALSE]
    /\ reads = {}
    /\ joined = 0 /\ settled = {} /\ acts = 0

Awaiting == tab.status \in {"connecting", "live"}

-----------------------------------------------------------------------------
(* Reads in flight and the epochs that let them land *)

Read(kind, did, cohort, rows) ==
    [kind |-> kind, fresh |-> TRUE, did |-> did, cohort |-> cohort, rows |-> rows]

\* A bumped epoch: what was asked under the old one is dropped when it lands.
Outdated(asked, kinds) ==
    {IF r.kind \in kinds THEN [r EXCEPT !.fresh = FALSE] ELSE r : r \in asked}

Room(n) == Cardinality(reads) + n <= MaxReads

Landed(r) == r \in reads /\ reads' = reads \ {r}

-----------------------------------------------------------------------------
(* Teardown: what each clear does to the module's handles and to the reads *)

ClearDirectoryPoll(m) == [m EXCEPT !.polls = @ \ {"directory"}]
ClearJoinGrace(m) == [m EXCEPT !.polls = @ \ {"grace"}]
ClearPostSeatPoll(m) ==
    [m EXCEPT !.polls = @ \ {"postSeat"}, !.postSeatFailures = 0, !.goneStreak = 0]
ClearFundingPoll(m) == [m EXCEPT !.polls = @ \ {"funding"}]
ClearAnchorPoll(m) == [m EXCEPT !.polls = @ \ {"anchor"}, !.anchorFailures = 0]
ClearLagRetry(m) == [m EXCEPT !.polls = @ \ {"lag"}]

\* teardownLive; the open gate is dropped and never settled.
TeardownLive(m) ==
    ClearFundingPoll(ClearAnchorPoll(ClearLagRetry(ClearPostSeatPoll(ClearJoinGrace(
        [m EXCEPT !.live = 0, !.gate = 0, !.submitted = FALSE])))))

\* teardownIpfs and clearCaptured
TeardownArtifacts(m) == [m EXCEPT !.node = None, !.captured = None]

EndRound(m) == TeardownLive(ClearDirectoryPoll(m))

RoundReads_AnchorKept == {"directory", "postSeat", "funding"}   \* mutant: no anchorEpoch bump

\* What a teardown outdates: directoryEpoch, postSeatEpoch, fundingEpoch, anchorEpoch.
RoundReads == {"directory", "postSeat", "funding", "anchor"}

\* fail: the outcome slice stays, for the page that tells what happened.
Fail(reason, asked) ==
    /\ tab' = [tab EXCEPT !.status = "failed"]
    /\ round' = [round EXCEPT !.awaitingSeats = None, !.pendingSubmit = FALSE,
                              !.joinClosed = @ \/ reason = "closed",
                              !.error = reason]
    /\ outcome' = [outcome EXCEPT !.unreachable = FALSE]
    /\ mod' = EndRound(mod)
    /\ reads' = Outdated(asked, RoundReads)

-----------------------------------------------------------------------------
(* The service, as the tab sees it *)

\* A cohort is advertised; the picked one locks when it fills, and leaves the
\* directory when it completes, is canceled or ends.  What a cohort that nobody here
\* has picked goes on to do is left out.
WorldMoves ==
    /\ \E c \in Cohort :
          \/ world[c] = "unlisted" /\ world' = [world EXCEPT ![c] = "Advertised"]
          \/ c = round.picked /\ world[c] = "Advertised" /\ world' = [world EXCEPT ![c] = "locked"]
          \/ c = round.picked /\ world[c] \in {"Advertised", "locked"}
             /\ world' = [world EXCEPT ![c] = "gone"]
    /\ UNCHANGED <<recorded, tab, round, outcome, mod, reads, settled, counts>>

-----------------------------------------------------------------------------
(* Identity and terms *)

\* adopt, by generate or importSecret: offered while no join is in flight.
Adopt(d) ==
    /\ tab.status \in {"no-identity", "ready"} /\ ~tab.accepting
    /\ tab' = [tab EXCEPT !.identity = d, !.status = "ready"]
    /\ round' = NoRound
    /\ outcome' = InitialOutcome
    /\ mod' = TeardownArtifacts(mod)
    /\ reads' = Outdated(reads, {"ipfs"})
    /\ UNCHANGED <<world, recorded, settled, counts>>

\* termsAcceptedFor
TermsAcceptedFor(c) == tab.accepted = c

\* join, past its gates: what is left of another round goes, the runner starts.
Join(c, asked) ==
    /\ joined < MaxJoins
    /\ joined' = joined + 1
    /\ round' = [NoRound EXCEPT !.picked = c]
    /\ outcome' = InitialOutcome
    /\ mod' = [TeardownArtifacts(EndRound(mod)) EXCEPT !.live = joined']
    /\ reads' = Outdated(asked, RoundReads \cup {"ipfs"}) \cup {Read("start", joined', c, None)}

CanConfirm(c) ==
    /\ tab.status = "ready" /\ ~tab.accepting
    /\ world[c] = "Advertised"

\* doJoin on terms that are recorded for the row, or on a service that has none.
ConfirmJoin(c) ==
    /\ CanConfirm(c) /\ (TermsSet => TermsAcceptedFor(c)) /\ Room(1)
    /\ Join(c, reads)
    /\ tab' = [tab EXCEPT !.status = "connecting"]
    /\ UNCHANGED <<world, recorded, settled, acts>>

\* doJoin otherwise: acceptTerms signs for this identity and posts.
ConfirmTerms(c) ==
    /\ CanConfirm(c) /\ TermsSet /\ ~TermsAcceptedFor(c) /\ Room(1)
    /\ joined < MaxJoins
    /\ tab' = [tab EXCEPT !.accepting = TRUE]
    /\ reads' = reads \cup {Read("terms", tab.identity, c, None)}
    /\ UNCHANGED <<world, recorded, round, outcome, mod, settled, counts>>

\* The acceptance is recorded and answered, and the join goes on.
TermsRecorded(r) ==
    /\ r.kind = "terms" /\ r \in reads
    /\ recorded' = recorded \cup {<<r.did, r.cohort>>}
    /\ Join(r.cohort, reads \ {r})
    /\ tab' = [tab EXCEPT !.accepting = FALSE, !.accepted = r.cohort,
                          !.status = "connecting"]
    /\ UNCHANGED <<world, settled, acts>>

\* The post is refused, or recorded with its answer lost: the join stops.
TermsRefused(r) ==
    /\ r.kind = "terms" /\ Landed(r)
    /\ recorded' \in {recorded, recorded \cup {<<r.did, r.cohort>>}}
    /\ tab' = [tab EXCEPT !.accepting = FALSE]
    /\ UNCHANGED <<world, round, outcome, mod, settled, counts>>

-----------------------------------------------------------------------------
(* The runner *)

Started_NoRecheck(r) ==   \* mutant: the poll is installed whatever happened meanwhile
    /\ r.kind = "start" /\ Landed(r)
    /\ mod' = [mod EXCEPT !.polls = @ \cup {"directory"}]
    /\ UNCHANGED <<world, recorded, tab, round, outcome, settled, counts>>

\* join after start(): the runner may have run its whole round already.
Started(r) ==
    /\ r.kind = "start" /\ Landed(r)
    /\ mod' = IF mod.live # r.did \/ round.seated \/ tab.status \in {"complete", "failed"}
                THEN mod
                ELSE [mod EXCEPT !.polls = @ \cup {"directory"}]
    /\ UNCHANGED <<world, recorded, tab, round, outcome, settled, counts>>

\* start() rejects: fail, whichever round the tab is in by then.
StartFails(r) ==
    /\ r.kind = "start" /\ r \in reads
    /\ Fail("other", reads \ {r})
    /\ UNCHANGED <<world, recorded, settled, counts>>

\* cohort-joined: the opt-in was sent.
CohortJoined ==
    /\ mod.live # 0 /\ ~round.optedIn
    /\ tab' = [tab EXCEPT !.status = "live"]
    /\ round' = [round EXCEPT !.optedIn = TRUE]
    /\ UNCHANGED <<world, recorded, outcome, mod, reads, settled, counts>>

\* cohort-ready: the seat.  It may arrive after the cohort has ended.
CohortReady ==
    /\ mod.live # 0 /\ round.optedIn /\ ~round.seated
    /\ world[round.picked] \in {"locked", "gone"}
    /\ Room(1)
    /\ round' = [round EXCEPT !.seated = TRUE, !.awaitingSeats = None]
    /\ mod' = [ClearFundingPoll(ClearPostSeatPoll(ClearJoinGrace(ClearDirectoryPoll(mod))))
                 EXCEPT !.polls = @ \cup {"postSeat", "funding"}]
    /\ reads' = Outdated(reads, {"directory", "postSeat", "funding"})
                  \cup {Read("funding", None, round.picked, None)}
    /\ UNCHANGED <<world, recorded, tab, outcome, settled, counts>>

\* onSubmitGate: the update is built, and waits for the click.
GateOpens ==
    /\ mod.live # 0 /\ round.seated /\ mod.gate = 0 /\ ~mod.submitted
    /\ mod' = [mod EXCEPT !.gate = mod.live]
    /\ round' = [round EXCEPT !.pendingSubmit = TRUE]
    /\ UNCHANGED <<world, recorded, tab, outcome, reads, settled, counts>>

\* submitUpdate
SubmitUpdate ==
    /\ round.pendingSubmit
    /\ round' = [round EXCEPT !.pendingSubmit = FALSE]
    /\ mod' = [mod EXCEPT !.gate = 0, !.submitted = mod.gate # 0]
    /\ settled' = IF mod.gate = 0 THEN settled ELSE settled \cup {mod.gate}
    /\ UNCHANGED <<world, recorded, tab, outcome, reads, counts>>

\* A baked identity that does not fit the cohort declines before any gate.
UpdateDeclined ==
    /\ mod.live # 0 /\ round.seated /\ mod.gate = 0 /\ ~mod.submitted
    /\ mod' = [mod EXCEPT !.submitted = TRUE]
    /\ UNCHANGED <<world, recorded, tab, round, outcome, reads, settled, counts>>

\* trackAnchor: a new poll and its first read.
TrackAnchor(m, asked) ==
    /\ mod' = [ClearLagRetry(ClearAnchorPoll(m)) EXCEPT
                 !.autoResolved = FALSE, !.polls = @ \cup {"anchor"}]
    /\ reads' = Outdated(asked, {"anchor"}) \cup {Read("anchor", None, round.picked, None)}

\* cohort-complete: the update is captured before the runner goes.
CohortComplete ==
    /\ mod.live # 0 /\ round.seated /\ mod.submitted
    /\ world[round.picked] \in {"locked", "gone"}
    /\ Room(1)
    /\ \E included \in BOOLEAN :
          /\ included => mod.live \in settled
          /\ outcome' = [outcome EXCEPT !.included = included]
          /\ TrackAnchor([EndRound(mod) EXCEPT
                            !.captured = IF included THEN tab.identity ELSE @],
                         Outdated(reads, RoundReads))
    /\ tab' = [tab EXCEPT !.status = "complete"]
    /\ round' = [round EXCEPT !.awaitingSeats = None, !.pendingSubmit = FALSE]
    /\ UNCHANGED <<world, recorded, settled, counts>>

CohortFailed_Settles ==   \* mutant: the teardown resolves the open gate
    /\ mod.live # 0 /\ Awaiting
    /\ Fail("other", reads)
    /\ settled' = settled \cup ({mod.gate} \ {0})
    /\ UNCHANGED <<world, recorded, counts>>

\* cohort-failed, or a runner error while the round is under way.
CohortFailed ==
    /\ mod.live # 0 /\ Awaiting
    /\ Fail("other", reads)
    /\ UNCHANGED <<world, recorded, settled, counts>>

-----------------------------------------------------------------------------
(* Polls: a tick asks, and what lands is judged by its epoch *)

Tick(poll, r) ==
    /\ poll \in mod.polls /\ Room(1)
    /\ reads' = reads \cup {r}
    /\ UNCHANGED <<world, recorded, tab, round, outcome, mod, settled, counts>>

DirectoryTick == Tick("directory", Read("directory", None, None, world))
PostSeatTick == Tick("postSeat", Read("postSeat", None, None, world))
FundingTick == Tick("funding", Read("funding", None, round.picked, None))
AnchorTick == Tick("anchor", Read("anchor", None, round.picked, None))

\* A read that fails is no evidence: an unreachable directory is not a closed cohort.
Lost(r) ==
    /\ r.kind \in {"directory", "funding", "fate"} /\ Landed(r)
    /\ UNCHANGED <<world, recorded, tab, round, outcome, mod, settled, counts>>

\* What was asked under another epoch is dropped.
Dropped(r) ==
    /\ ~r.fresh /\ Landed(r)
    /\ UNCHANGED <<world, recorded, tab, round, outcome, mod, settled, counts>>

Listed(rows, c) == rows[c] \in {"Advertised", "locked"}

\* pickedCohortClosed and postSeatCohortGone
PickedCohortClosed(rows, c) == rows[c] # "Advertised"
PostSeatCohortGone(rows, c) == ~Listed(rows, c)

AwaitingSeat == Awaiting /\ ~round.seated /\ round.picked # None

Seats(rows) == IF Listed(rows, round.picked) THEN round.picked ELSE None

\* handleDirectorySnapshot, by what the snapshot says of the picked cohort.
SnapshotIgnored(r) ==
    /\ ~AwaitingSeat
    /\ Landed(r)
    /\ UNCHANGED <<tab, round, outcome, mod>>

StillOpen(r) ==
    /\ AwaitingSeat /\ ~PickedCohortClosed(r.rows, round.picked)
    /\ Landed(r)
    /\ round' = [round EXCEPT !.awaitingSeats = Seats(r.rows)]
    /\ mod' = ClearJoinGrace(mod)
    /\ UNCHANGED <<tab, outcome>>

ClosedBeforeOptIn(r) ==
    /\ AwaitingSeat /\ PickedCohortClosed(r.rows, round.picked) /\ ~round.optedIn
    /\ Fail("closed", reads \ {r})

\* Filled with this tab in it or without: the grace window decides.
ClosedAfterOptIn(r) ==
    /\ AwaitingSeat /\ PickedCohortClosed(r.rows, round.picked) /\ round.optedIn
    /\ Landed(r)
    /\ round' = [round EXCEPT !.awaitingSeats = Seats(r.rows)]
    /\ mod' = [mod EXCEPT !.polls = @ \cup {"grace"}]
    /\ UNCHANGED <<tab, outcome>>

HandleDirectorySnapshot(r) ==
    \/ SnapshotIgnored(r) \/ StillOpen(r) \/ ClosedBeforeOptIn(r) \/ ClosedAfterOptIn(r)

DirectoryAnswered_AnyEpoch(r) ==   \* mutant: the snapshot of another round counts
    /\ r.kind = "directory" /\ r \in reads
    /\ HandleDirectorySnapshot(r)
    /\ UNCHANGED <<world, recorded, settled, counts>>

DirectoryAnswered(r) ==
    /\ r.kind = "directory" /\ r.fresh /\ r \in reads
    /\ HandleDirectorySnapshot(r)
    /\ UNCHANGED <<world, recorded, settled, counts>>

\* The 90 s backstop of an ambiguous departure.
GraceExpires ==
    /\ "grace" \in mod.polls /\ AwaitingSeat
    /\ Fail("closed", reads)
    /\ UNCHANGED <<world, recorded, settled, counts>>

Watching == round.seated /\ round.picked # None /\ tab.status = "live"

SeatedCohortListed(r) ==
    /\ Watching => ~PostSeatCohortGone(r.rows, round.picked)
    /\ Landed(r)
    /\ mod' = [mod EXCEPT !.postSeatFailures = 0, !.goneStreak = IF Watching THEN 0 ELSE @]
    /\ outcome' = IF Watching THEN [outcome EXCEPT !.unreachable = FALSE] ELSE outcome
    /\ UNCHANGED <<tab, round>>

SeatedCohortMissing(r) ==
    /\ Watching /\ PostSeatCohortGone(r.rows, round.picked)
    /\ mod.goneStreak + 1 < GoneReads
    /\ Landed(r)
    /\ mod' = [mod EXCEPT !.postSeatFailures = 0, !.goneStreak = @ + 1]
    /\ UNCHANGED <<tab, round, outcome>>

\* The streak is complete: fail, then ask once whether the operator canceled it.
SeatedCohortGone(r) ==
    /\ Watching /\ PostSeatCohortGone(r.rows, round.picked)
    /\ mod.goneStreak + 1 >= GoneReads
    /\ Fail("dark", (reads \ {r}) \cup {Read("fate", None, round.picked, None)})

\* handlePostSeatSnapshot
PostSeatAnswered(r) ==
    /\ r.kind = "postSeat" /\ r.fresh /\ r \in reads
    /\ SeatedCohortListed(r) \/ SeatedCohortMissing(r) \/ SeatedCohortGone(r)
    /\ UNCHANGED <<world, recorded, settled, counts>>

\* Failures in a row raise the unreachable signal and never end a round.
CountFailure(r, counter) ==
    LET n == IF mod[counter] < Unreachable THEN mod[counter] + 1 ELSE Unreachable
    IN  /\ r.fresh /\ Landed(r)
        /\ mod' = [mod EXCEPT ![counter] = n]
        /\ outcome' = [outcome EXCEPT !.unreachable = @ \/ n = Unreachable]
        /\ UNCHANGED <<world, recorded, tab, round, settled, counts>>

PollFails(r) ==
    \/ r.kind = "postSeat" /\ CountFailure(r, "postSeatFailures")
    \/ r.kind = "anchor" /\ CountFailure(r, "anchorFailures")

\* The operator's cancel: an answer for the cohort of the failed round on screen.
FateAnswered(r) ==
    /\ r.kind = "fate" /\ Landed(r)
    /\ outcome' = IF round.picked = r.cohort /\ tab.status = "failed"
                    THEN [outcome EXCEPT !.canceled = r.cohort] ELSE outcome
    /\ UNCHANGED <<world, recorded, tab, round, mod, settled, counts>>

FundingAnswered(r) ==
    /\ r.kind = "funding" /\ r.fresh /\ Landed(r)
    /\ \E awaiting \in {r.cohort, None} :
          outcome' = [outcome EXCEPT !.awaitingFunding = awaiting]
    /\ UNCHANGED <<world, recorded, tab, round, mod, settled, counts>>

\* shouldAutoResolve; it is also what freezes the poll.
Settles(state) == state \in {"off", "confirmed", "failed"}

Resolving(o) == [o EXCEPT !.resolved.status = "resolving"]

\* trackAnchor's tick: the answer, at most one resolve, and the freeze.
AnchorAnswered(r) ==
    /\ r.kind = "anchor" /\ r.fresh /\ r \in reads
    /\ \E s \in AnchorStates :
          LET told == [outcome EXCEPT !.anchor = [cohort |-> r.cohort, state |-> s],
                                      !.unreachable = FALSE]
              resolves == Settles(s) /\ ~mod.autoResolved /\ tab.identity # None
              asked == (reads \ {r}) \cup
                         (IF resolves THEN {Read("resolve", tab.identity, None, None)} ELSE {})
              retried == [mod EXCEPT !.anchorFailures = 0,
                            !.autoResolved = @ \/ Settles(s),
                            !.polls = IF resolves /\ s # "off" THEN @ \cup {"lag"} ELSE @,
                            !.lag = IF resolves /\ s # "off" THEN 0 ELSE @]
          IN  /\ outcome' = IF resolves THEN Resolving(told) ELSE told
              /\ mod' = IF Settles(s) THEN ClearAnchorPoll(retried) ELSE retried
              /\ reads' = IF Settles(s) THEN Outdated(asked, {"anchor"}) ELSE asked
    /\ UNCHANGED <<world, recorded, tab, round, settled, counts>>

\* startResolveLagRetry's interval
LagTick ==
    /\ "lag" \in mod.polls /\ Room(1)
    /\ IF outcome.resolved.reflected \/ mod.lag + 1 >= LagAttempts
         THEN mod' = ClearLagRetry(mod) /\ UNCHANGED <<outcome, reads>>
         ELSE /\ mod' = [mod EXCEPT !.lag = @ + 1]
              /\ outcome' = Resolving(outcome)
              /\ reads' = reads \cup {Read("resolve", tab.identity, None, None)}
    /\ UNCHANGED <<world, recorded, tab, round, settled, counts>>

\* resolve, from the completion page.
Resolve ==
    /\ tab.status = "complete" /\ tab.identity # None /\ Room(1)
    /\ outcome' = Resolving(outcome)
    /\ reads' = reads \cup {Read("resolve", tab.identity, None, None)}
    /\ UNCHANGED <<world, recorded, tab, round, mod, settled, counts>>

\* The answer carries no token: it is written whichever round it lands in.
ResolveAnswered(r) ==
    /\ r.kind = "resolve" /\ Landed(r)
    /\ \/ \E reflected \in BOOLEAN :
             outcome' = [outcome EXCEPT !.resolved =
                           [status |-> "resolved", did |-> r.did, reflected |-> reflected]]
       \/ outcome' = [outcome EXCEPT !.resolved.status = "failed"]
    /\ UNCHANGED <<world, recorded, tab, round, mod, settled, counts>>

-----------------------------------------------------------------------------
(* The completion page: registration and IPFS.  The wallet round trip is left out. *)

DeskAct == acts < MaxDesk /\ acts' = acts + 1

Registering == outcome.reg.status \in {"checking", "broadcasting"}

\* register: on mainnet without the acknowledgment it stops before any read.
Register ==
    /\ tab.status = "complete" /\ ~Registering /\ DeskAct
    /\ \E acknowledged \in BOOLEAN :
          IF Mainnet /\ ~acknowledged
            THEN /\ outcome' = [outcome EXCEPT !.reg = [status |-> "failed", did |-> tab.identity]]
                 /\ UNCHANGED reads
            ELSE /\ mod.captured # None /\ mod.captured = tab.identity
                 /\ outcome.included /\ Room(1)
                 /\ outcome' = [outcome EXCEPT !.reg = [status |-> "checking", did |-> tab.identity]]
                 /\ reads' = reads \cup {Read("utxos", tab.identity, None, None)}
    /\ UNCHANGED <<world, recorded, tab, round, mod, settled, joined>>

\* The funding read: no answer, no funds, or a coin.  The captured update is read
\* now, not when register was called.
UtxosAnswered(r) ==
    /\ r.kind = "utxos" /\ r \in reads
    /\ \/ \E s \in {"failed", "awaiting-funds"} :
             /\ outcome' = [outcome EXCEPT !.reg = [status |-> s, did |-> r.did]]
             /\ reads' = reads \ {r}
       \/ LET ready == mod.captured # None
          IN  /\ outcome' = [outcome EXCEPT !.reg =
                    [status |-> IF ready THEN "broadcasting" ELSE "failed", did |-> r.did]]
              /\ reads' = (reads \ {r}) \cup
                    (IF ready THEN {Read("broadcast", r.did, None, None)} ELSE {})
    /\ UNCHANGED <<world, recorded, tab, round, mod, settled, counts>>

BroadcastAnswered(r) ==
    /\ r.kind = "broadcast" /\ Landed(r)
    /\ \E s \in {"registered", "failed"} :
          outcome' = [outcome EXCEPT !.reg = [status |-> s, did |-> r.did]]
    /\ UNCHANGED <<world, recorded, tab, round, mod, settled, counts>>

\* publishIpfs: probe the service, boot a node, hand over the blocks, ask for pins.
PublishIpfs ==
    /\ tab.status = "complete" /\ outcome.ipfs.status # "publishing"
    /\ outcome.included /\ mod.captured # None
    /\ DeskAct /\ Room(1)
    /\ outcome' = [outcome EXCEPT !.ipfs = [status |-> "publishing", did |-> tab.identity]]
    /\ reads' = reads \cup {Read("ipfs", tab.identity, None, "boot")}
    /\ UNCHANGED <<world, recorded, tab, round, mod, settled, joined>>

\* A node that finishes booting after its round is stopped: Dropped.
NodeBooted(r) ==
    /\ r.kind = "ipfs" /\ r.rows = "boot" /\ r.fresh /\ r \in reads
    /\ mod' = [mod EXCEPT !.node = IF @ = None THEN r.did ELSE @]
    /\ reads' = (reads \ {r}) \cup {[r EXCEPT !.rows = "pin"]}
    /\ UNCHANGED <<world, recorded, tab, round, outcome, settled, counts>>

PublishEnds(r) ==
    /\ r.kind = "ipfs" /\ r.fresh /\ Landed(r)
    /\ \E s \in {"published", "failed"} :
          /\ s = "published" => r.rows = "pin"
          /\ outcome' = [outcome EXCEPT !.ipfs = [status |-> s, did |-> r.did]]
    /\ UNCHANGED <<world, recorded, tab, round, mod, settled, counts>>

-----------------------------------------------------------------------------
(* The ways out *)

\* deriveStage's latest milestone, which the leave button and the chip go by.
Stage ==
    IF outcome.resolved.status = "resolved" THEN "resolved"
    ELSE IF tab.status = "complete" THEN "signed"
    ELSE IF round.pendingSubmit THEN "submit-window"
    ELSE IF mod.submitted THEN "co-signing"
    ELSE IF round.seated THEN "seated"
    ELSE "waiting-for-seats"

\* startOver erases the identity; what was accepted stays.
StartOver ==
    /\ tab.status = "complete" \/ (tab.status = "failed" /\ round.seated)
    /\ tab' = [tab EXCEPT !.identity = None, !.status = "no-identity"]
    /\ round' = NoRound
    /\ outcome' = InitialOutcome
    /\ mod' = TeardownArtifacts(EndRound(mod))
    /\ reads' = Outdated(reads, RoundReads \cup {"ipfs"})
    /\ UNCHANGED <<world, recorded, settled, counts>>

\* leave
Leave ==
    /\ tab.status = "failed" \/ (Awaiting /\ Stage = "waiting-for-seats")
    /\ tab' = [tab EXCEPT !.status = IF tab.identity = None THEN "no-identity" ELSE "ready"]
    /\ round' = NoRound
    /\ outcome' = InitialOutcome
    /\ mod' = TeardownArtifacts(EndRound(mod))
    /\ reads' = Outdated(reads, RoundReads \cup {"ipfs"})
    /\ UNCHANGED <<world, recorded, settled, counts>>

-----------------------------------------------------------------------------

UserActs ==
    \/ \E d \in Did : Adopt(d)
    \/ \E c \in Cohort : ConfirmJoin(c) \/ ConfirmTerms(c)
    \/ SubmitUpdate \/ StartOver \/ Leave
    \/ Resolve \/ Register \/ PublishIpfs

RunnerEvents ==
    \/ CohortJoined \/ CohortReady \/ GateOpens \/ UpdateDeclined
    \/ CohortComplete \/ CohortFailed

Ticks ==
    \/ DirectoryTick \/ PostSeatTick \/ FundingTick \/ AnchorTick \/ LagTick
    \/ GraceExpires

Answers ==
    \E r \in reads :
        \/ TermsRecorded(r) \/ TermsRefused(r) \/ Started(r) \/ StartFails(r)
        \/ Lost(r) \/ Dropped(r) \/ PollFails(r)
        \/ DirectoryAnswered(r) \/ PostSeatAnswered(r) \/ FateAnswered(r)
        \/ FundingAnswered(r) \/ AnchorAnswered(r) \/ ResolveAnswered(r)
        \/ UtxosAnswered(r) \/ BroadcastAnswered(r)
        \/ NodeBooted(r) \/ PublishEnds(r)

Next == WorldMoves \/ UserActs \/ RunnerEvents \/ Ticks \/ Answers

Spec == Init /\ [][Next]_vars

-----------------------------------------------------------------------------
(* Properties *)

\* No handle outlives its round and none is missing from it: a runner exactly
\* while the tab is connecting or live, the join poll only before the seat, the
\* seated polls only after it, the anchor poll only on a completed round, and the
\* submit window on screen exactly while a gate of this runner waits behind it.
\* A start() that answers after the round moved on is the hard case.
HandlesFollowTheRound ==
    /\ mod.live # 0 <=> Awaiting
    /\ "directory" \in mod.polls => Awaiting /\ ~round.seated
    /\ "grace" \in mod.polls => Awaiting /\ round.optedIn /\ ~round.seated
    /\ mod.polls \cap {"postSeat", "funding"} # {} => tab.status = "live" /\ round.seated
    /\ mod.polls \cap {"anchor", "lag"} # {} => tab.status = "complete"
    /\ mod.gate \in {0, mod.live}
    /\ round.pendingSubmit <=> mod.gate # 0

\* A round ends as filled or closed only when the picked cohort has truly left the
\* Advertised set, and as gone only when it has truly left the directory: a
\* snapshot taken for another round never ends this one.
VerdictsAreReal ==
    /\ round.joinClosed => world[round.picked] # "Advertised"
    /\ round.error = "dark" => world[round.picked] = "gone"

\* What the polls, the fate read and the publish flow show is about the cohort and
\* the identity on screen, however late an answer lands.
PolledFactsAreOfThisRound ==
    /\ {outcome.awaitingFunding, outcome.canceled, round.awaitingSeats}
         \subseteq {round.picked, None}
    /\ outcome.anchor # None => outcome.anchor.cohort = round.picked
    /\ {outcome.ipfs.did, mod.node} \subseteq {tab.identity, None}

\* The submit gate is resolved by the participant's click on an open window of the
\* running round and by nothing else: a teardown abandons it.
GateSettledOnlyByClick ==
    [][settled' # settled =>
         /\ settled' = settled \cup {mod.live} /\ mod.live # 0
         /\ round.pendingSubmit /\ ~round'.pendingSubmit
         /\ mod'.live = mod.live]_vars

\* What join's gate promises: whoever a runner joins as has an acceptance of the
\* terms on record for that very cohort.
JoinedHaveAccepted ==
    TermsSet /\ mod.live # 0 => <<tab.identity, round.picked>> \in recorded

\* What deriveStage promises the cohort page: a round that is still being joined or
\* co-signed is never shown as resolved, which would also take its leave button away.
StageFollowsTheRound == Awaiting => Stage # "resolved"

================================================================================
