---- MODULE FundingWait ----
(***************************************************************************)
(* One cohort's wait for money (packages/service/src/tx.ts and             *)
(* funding-watch.ts, wired in index.ts): the beacon address on the chain,  *)
(* the display watch that reports on it from keygen on, and the wait       *)
(* inside onProvideTxData that gates signing, racing its own deadline, the *)
(* library's cohort TTL, the library's phase timer, the operator and       *)
(* service.stop().  Both loops poll on their own and share one predicate.  *)
(*                                                                         *)
(* Time is counted in units from the advertise.  A chain read is served at *)
(* the moment it is answered; the wait's reads are answered within ReadMax *)
(* units, and its sleeps last exactly Poll unless stop() cuts them short.  *)
(***************************************************************************)
EXTENDS Integers, Sequences, FiniteSets

CONSTANTS
    Deposit,         \* payments the operator may make to the beacon address
    Change,          \* the change output the beacon transaction pays back to it
    Sats,            \* the value of each of them
    Dust,            \* selectSpendableUtxo's dust limit (546)
    MinLiveFundingSats,
    Windows,         \* funding windows a service or a draft may be configured with
    Ttls,            \* cohortTtlMs, where the service sets one
    PhaseTimeout,    \* phaseTimeoutMs, armed on entering the signing phase
    Slack,           \* FUNDING_SLACK_MS
    Poll,            \* fundingPollIntervalMs
    ReadMax,         \* the longest a chain read takes
    Horizon,         \* bound: time stops here
    None             \* undefined

ASSUME MoneyAssumption ==
    /\ Change \notin Deposit
    /\ Sats \in [Deposit \cup {Change} -> Nat]
    /\ None \notin Deposit \cup {Change} \cup Int
    /\ "fixture" \notin Deposit \cup {Change, None}
    /\ Dust \in Nat /\ MinLiveFundingSats \in Nat
ASSUME TimeAssumption ==
    /\ Windows \subseteq Nat /\ Ttls \subseteq Nat
    /\ PhaseTimeout \in Nat /\ Slack \in Nat /\ Poll \in Nat \ {0}
    /\ ReadMax \in Nat /\ Horizon \in Nat
\* What makes the slack of the clamp enough: one last read and one last sleep.
ASSUME SlackAssumption == ReadMax + Poll <= Slack

VARIABLES
    now,        \* Date.now()
    boot,       \* configuration: [ttl, service, draft, live]
    mempool,    \* payments sent and not confirmed
    chain,      \* confirmed unspent outputs at the address, deepest first
    stage,      \* how far the runner has come with the cohort
    phaseAt,    \* when the signing phase was entered
    reason,     \* why the cohort failed
    watch,      \* the display watch's loop
    view,       \* lastFundingView: what the operator is shown
    disclosed,  \* truncatedWindowMin: the clamped window, as disclosed
    wait,       \* the authoritative wait: [step, start, deadline, ok, due]
    verdict,    \* what the wait threw
    plan,       \* the output the beacon transaction spends, or "fixture"
    stopped,    \* stopController has aborted
    fundedAt    \* history: since when the address has been funded

address == <<mempool, chain, fundedAt>>
display == <<watch, view, disclosed>>
runner == <<stage, phaseAt, reason, plan>>
vars == <<now, boot, address, runner, display, wait, verdict, stopped>>

Verdicts == {"dead-end", "never-arrived", "unobserved", "stopped", "unfunded", "chain-error"}
\* What the service and the cohort's draft configured: the TTL, the two funding
\* windows, and whether the kill switch left the cohort its live wiring.
LiveTxConfig == [ttl : Ttls \cup {None}, service : Windows \cup {None},
                 draft : Windows \cup {None}, live : BOOLEAN]

NoView == [state |-> "none", stale |-> FALSE, terminal |-> "none"]

TypeOK ==
    /\ now \in 0..Horizon
    /\ boot \in LiveTxConfig
    /\ mempool \subseteq Deposit \cup {Change}
    /\ chain \in Seq(Deposit \cup {Change})
    /\ stage \in {"advertised", "keyed", "signing", "signed", "published", "failed"}
    /\ phaseAt \in 0..Horizon
    /\ reason \in Verdicts \cup {"none", "ttl", "phase", "canceled"}
    /\ watch \in {"none", "reading", "sleeping", "aborted", "done"}
    /\ view \in [state : {"none", "waiting", "awaiting-confirmation", "funded", "dead-end"},
                 stale : BOOLEAN, terminal : {"none", "blind-lapse", "window-closed"}]
    /\ disclosed \in Nat \cup {None}
    /\ wait \in [step : {"off", "reading", "sleeping", "building", "over"}, start : 0..Horizon,
                 deadline : Nat \cup {None}, ok : BOOLEAN, due : Nat]
    /\ verdict \in Verdicts \cup {"none"}
    /\ plan \in Deposit \cup {Change, None, "fixture"}
    /\ stopped \in BOOLEAN
    /\ fundedAt \in 0..Horizon \cup {None}

-----------------------------------------------------------------------------
(* The one funding predicate *)

\* Fee derivation is never asked for: the ask is the floor.
computeSuggestedMinSats == MinLiveFundingSats

Spendable(utxos) == { i \in DOMAIN utxos : Sats[utxos[i]] > Dust }

\* selectSpendableUtxo: the deepest confirmed output above the dust limit.
Selected(utxos) ==
    utxos[CHOOSE i \in Spendable(utxos) : \A j \in Spendable(utxos) : i <= j]

classifyFunding(utxos, unconfirmed) ==
    CASE Spendable(utxos) = {} /\ unconfirmed = {} -> "waiting"
      [] Spendable(utxos) = {} /\ unconfirmed # {} -> "awaiting-confirmation"
      [] Spendable(utxos) # {} /\ Sats[Selected(utxos)] < computeSuggestedMinSats -> "dead-end"
      [] OTHER -> "funded"

Classified == classifyFunding(chain, mempool)

-----------------------------------------------------------------------------
(* The deadline *)

fundingWindow == IF boot.draft # None THEN boot.draft ELSE boot.service

\* remainingCohortTtlMs: the TTL is armed at advertise and never reset.
remainingTtl == IF boot.ttl = None THEN None ELSE boot.ttl - now

windowLeg == {fundingWindow} \ {None}
ttlLeg ==
    IF remainingTtl = None THEN {}
    ELSE {IF remainingTtl > Slack THEN remainingTtl - Slack ELSE 0}

Shortest(legs) == CHOOSE l \in legs : \A m \in legs : l <= m

\* Slip: the whole TTL, as if the wait began at the advertise.
computeFundingDeadline_WholeTtl ==
    LET legs == windowLeg \cup (IF boot.ttl = None THEN {} ELSE {boot.ttl - Slack})
    IN  IF legs = {} THEN None ELSE Shortest(legs)

\* None stands for Infinity.
computeFundingDeadline ==
    IF windowLeg \cup ttlLeg = {} THEN None ELSE Shortest(windowLeg \cup ttlLeg)

truncatedWindow ==
    IF \E t \in ttlLeg : \A w \in windowLeg : t < w THEN computeFundingDeadline ELSE None

-----------------------------------------------------------------------------
(* The chain and the clock *)

Pay(d) ==
    /\ d \in Deposit \ mempool
    /\ d \notin {chain[i] : i \in DOMAIN chain}
    /\ plan # d
    /\ mempool' = mempool \cup {d}
    /\ UNCHANGED <<now, boot, chain, fundedAt, runner, display, wait, verdict, stopped>>

Confirm(d) ==
    /\ d \in mempool
    /\ mempool' = mempool \ {d}
    /\ chain' = Append(chain, d)
    /\ fundedAt' = IF fundedAt = None /\ classifyFunding(chain', mempool') = "funded"
                   THEN now ELSE fundedAt
    /\ UNCHANGED <<now, boot, runner, display, wait, verdict, stopped>>

Unsigned == {"advertised", "keyed", "signing"}
Waiting == wait.step \in {"reading", "sleeping"}

\* A read of the wait is answered, and its sleep ends, when due.  Bound: time
\* stops when neither the wait nor the library's timers count it any more.
Tick ==
    /\ now < Horizon
    /\ Waiting \/ (stage \in Unsigned /\ ~stopped)
    /\ Waiting => now < wait.due
    /\ now' = now + 1
    /\ UNCHANGED <<boot, address, runner, display, wait, verdict, stopped>>

-----------------------------------------------------------------------------
(* How the cohort ends *)

\* releaseCohortTables: the watch is stopped; a read in flight will find it so.
ReleaseWatch ==
    watch' = CASE watch = "reading" -> "aborted"
               [] watch = "sleeping" -> "done"
               [] OTHER -> watch

\* The cohort-failed listener: the display folds its own verdict, from the
\* freshness of its own last read.
FoldTerminal ==
    view' = IF watch # "none" /\ view # NoView /\ view.state # "funded"
            THEN [view EXCEPT !.terminal = IF view.stale THEN "blind-lapse" ELSE "window-closed"]
            ELSE view

Fail(why) ==
    /\ stage' = "failed" /\ reason' = why
    /\ FoldTerminal
    /\ ReleaseWatch

\* The wait settles with an error; the runner listens while it runs the cohort.
Throws(why) ==
    /\ wait' = [wait EXCEPT !.step = "over"]
    /\ verdict' = why
    /\ IF stage = "signing" /\ ~stopped THEN Fail(why)
       ELSE UNCHANGED <<stage, reason, watch, view>>

\* The library's two timers, and the operator's cancel, end the cohort under
\* the wait, which polls on: nothing listens to what it says any more.
TtlFires ==
    /\ stage \in Unsigned /\ ~stopped
    /\ boot.ttl # None /\ now >= boot.ttl
    /\ Fail("ttl")
    /\ UNCHANGED <<now, boot, address, phaseAt, plan, disclosed, wait, verdict, stopped>>

PhaseTimerFires ==
    /\ stage = "signing" /\ ~stopped
    /\ now >= phaseAt + PhaseTimeout
    /\ Fail("phase")
    /\ UNCHANGED <<now, boot, address, phaseAt, plan, disclosed, wait, verdict, stopped>>

CancelCohort ==
    /\ stage \in Unsigned /\ ~stopped
    /\ stage' = "failed" /\ reason' = "canceled"
    /\ ReleaseWatch
    /\ UNCHANGED <<now, boot, address, phaseAt, plan, disclosed, view, wait, verdict, stopped>>

Stop ==
    /\ ~stopped
    /\ stopped' = TRUE
    /\ ReleaseWatch
    /\ UNCHANGED <<now, boot, address, runner, disclosed, view, wait, verdict>>

-----------------------------------------------------------------------------
(* The display watch *)

KeygenComplete ==
    /\ stage = "advertised" /\ ~stopped
    /\ stage' = "keyed"
    /\ IF boot.live THEN watch' = "reading" /\ disclosed' = truncatedWindow
       ELSE UNCHANGED <<watch, disclosed>>
    /\ UNCHANGED <<now, boot, address, phaseAt, reason, plan, view, wait, verdict, stopped>>

\* An outage keeps the last-known state and only marks it stale; "funded" is
\* the last thing the watch has to say.
WatchReports(ok) ==
    LET last == IF view = NoView THEN "waiting" ELSE view.state
        state == IF ok THEN Classified ELSE last
    IN  /\ view' = [state |-> state, stale |-> ~ok, terminal |-> "none"]
        /\ watch' = IF state = "funded" THEN "done" ELSE "sleeping"

\* Slip: the loop does not look at the signal after its read.
WatchAnswer_Unchecked(ok) ==
    /\ watch \in {"reading", "aborted"}
    /\ WatchReports(ok)
    /\ UNCHANGED <<now, boot, address, runner, disclosed, wait, verdict, stopped>>

WatchAnswer(ok) ==
    /\ \/ watch = "reading" /\ WatchReports(ok)
       \/ watch = "aborted" /\ watch' = "done" /\ UNCHANGED view
    /\ UNCHANGED <<now, boot, address, runner, disclosed, wait, verdict, stopped>>

WatchWake ==
    /\ watch = "sleeping"
    /\ watch' = "reading"
    /\ UNCHANGED <<now, boot, address, runner, disclosed, view, wait, verdict, stopped>>

-----------------------------------------------------------------------------
(* onProvideTxData *)

Entering == stage = "keyed" /\ ~stopped /\ stage' = "signing" /\ phaseAt' = now

\* A cohort advertised after the kill switch: no chain is read.
ProvideFixture ==
    /\ Entering
    /\ ~boot.live
    /\ plan' = "fixture"
    /\ UNCHANGED <<now, boot, address, reason, display, wait, verdict, stopped>>

\* No window configured anywhere: one look at the address decides.  (The look
\* is one step: nothing but its answer is read after it.)
ProvideSingleShot(ok) ==
    LET spendable == Spendable(chain) # {}
        paid == Classified = "funded"
        why == CASE ~ok -> "chain-error"
                 [] ok /\ ~spendable -> "unfunded"
                 [] OTHER -> "dead-end"
    IN  /\ stage = "keyed" /\ ~stopped /\ phaseAt' = now
        /\ boot.live /\ fundingWindow = None
        /\ IF ok /\ paid
           THEN /\ stage' = "signing"
                /\ wait' = [wait EXCEPT !.step = "building"]
                /\ UNCHANGED <<reason, view, watch, verdict>>
           ELSE Fail(why) /\ verdict' = why /\ wait' = [wait EXCEPT !.step = "over"]
        /\ UNCHANGED <<now, boot, address, plan, disclosed, stopped>>

WithinWindow(w) == w.deadline = None \/ now - w.start < w.deadline

\* The verdict of a wait whose time is up: only a read that succeeded can say
\* that the money never came.
Lapse(w) ==
    CASE stopped -> "stopped"
      [] ~stopped /\ w.ok -> "never-arrived"
      [] OTHER -> "unobserved"

Reading(w) == [w EXCEPT !.step = "reading", !.due = now + ReadMax]
Sleeping(w, ok) == [w EXCEPT !.step = "sleeping", !.ok = ok, !.due = now + Poll]

\* The wait begins: a deadline already past is never polled for.
ProvideAfterWait ==
    LET w == [step |-> "reading", start |-> now, deadline |-> computeFundingDeadline,
              ok |-> FALSE, due |-> now + ReadMax]
    IN  /\ stage = "keyed" /\ ~stopped /\ phaseAt' = now
        /\ boot.live /\ fundingWindow # None
        /\ IF WithinWindow(w)
           THEN /\ stage' = "signing" /\ wait' = w
                /\ UNCHANGED <<reason, view, watch, verdict>>
           ELSE /\ Fail(Lapse(w)) /\ verdict' = Lapse(w)
                /\ wait' = [w EXCEPT !.step = "over", !.due = now]
        /\ UNCHANGED <<now, boot, address, plan, disclosed, stopped>>

\* Slip: a failed read leaves the last observation standing.
WaitAnswer_KeepsOk(ok) ==
    /\ wait.step = "reading"
    /\ IF ok /\ Classified = "funded"
       THEN wait' = [wait EXCEPT !.step = "building"] /\ UNCHANGED <<stage, reason, watch, view, verdict>>
       ELSE wait' = Sleeping(wait, ok \/ wait.ok) /\ UNCHANGED <<stage, reason, watch, view, verdict>>
    /\ UNCHANGED <<now, boot, address, phaseAt, plan, disclosed, stopped>>

WaitAnswer(ok) ==
    /\ wait.step = "reading"
    /\ \/ /\ ok /\ Classified = "funded"
          /\ wait' = [wait EXCEPT !.step = "building"]
          /\ UNCHANGED <<stage, reason, watch, view, verdict>>
       \/ ok /\ Classified = "dead-end" /\ Throws("dead-end")
       \/ /\ ~ok \/ Classified \in {"waiting", "awaiting-confirmation"}
          /\ wait' = Sleeping(wait, ok)
          /\ UNCHANGED <<stage, reason, watch, view, verdict>>
    /\ UNCHANGED <<now, boot, address, phaseAt, plan, disclosed, stopped>>

\* The top of the loop, after a sleep that ran out or was cut short.
WaitWake ==
    /\ wait.step = "sleeping"
    /\ stopped \/ now = wait.due
    /\ IF WithinWindow(wait) /\ ~stopped
       THEN wait' = Reading(wait) /\ UNCHANGED <<stage, reason, watch, view, verdict>>
       ELSE Throws(Lapse(wait))
    /\ UNCHANGED <<now, boot, address, phaseAt, plan, disclosed, stopped>>

\* buildAggregationBeaconTx reads the address again and picks for itself.
Build(ok) ==
    /\ wait.step = "building"
    /\ IF ok THEN /\ wait' = [wait EXCEPT !.step = "over"]
                  /\ plan' = IF stage = "signing" /\ ~stopped THEN Selected(chain) ELSE plan
                  /\ UNCHANGED <<stage, reason, watch, view, verdict>>
       ELSE Throws("chain-error") /\ UNCHANGED plan
    /\ UNCHANGED <<now, boot, address, phaseAt, disclosed, stopped>>

\* The signed transaction: the tables go first, then it is published.
SigningComplete ==
    /\ stage = "signing" /\ ~stopped /\ plan # None
    /\ stage' = "signed"
    /\ ReleaseWatch
    /\ UNCHANGED <<now, boot, address, phaseAt, reason, plan, view, disclosed, wait, verdict, stopped>>

Publish ==
    /\ stage = "signed" /\ plan # "fixture"
    /\ stage' = "published"
    /\ chain' = SelectSeq(chain, LAMBDA d : d # plan)
    /\ mempool' = mempool \cup {Change}
    /\ UNCHANGED <<now, boot, fundedAt, phaseAt, reason, plan, display, wait, verdict, stopped>>

-----------------------------------------------------------------------------
Init ==
    /\ now = 0
    /\ boot \in LiveTxConfig
    /\ mempool = {} /\ chain = <<>> /\ fundedAt = None
    /\ stage = "advertised" /\ phaseAt = 0 /\ reason = "none" /\ plan = None
    /\ watch = "none" /\ view = NoView /\ disclosed = None
    /\ wait = [step |-> "off", start |-> 0, deadline |-> None, ok |-> FALSE, due |-> 0]
    /\ verdict = "none"
    /\ stopped = FALSE

Next ==
    \/ \E d \in Deposit : Pay(d)
    \/ \E d \in Deposit \cup {Change} : Confirm(d)
    \/ Tick
    \/ KeygenComplete
    \/ \E ok \in BOOLEAN : WatchAnswer(ok)
    \/ WatchWake
    \/ ProvideFixture
    \/ \E ok \in BOOLEAN : ProvideSingleShot(ok)
    \/ ProvideAfterWait
    \/ \E ok \in BOOLEAN : WaitAnswer(ok)
    \/ WaitWake
    \/ \E ok \in BOOLEAN : Build(ok)
    \/ SigningComplete \/ Publish
    \/ TtlFires \/ PhaseTimerFires \/ CancelCohort \/ Stop

Spec == Init /\ [][Next]_vars

-----------------------------------------------------------------------------
(* Properties *)

\* The wait's own reason beats the cohort TTL: whatever the window, and
\* however late after the advertise it began, the wait is over before the
\* TTL armed at the advertise can fire (tx.ts: "so it always throws before
\* cohortTtlMs fires").
WaitOutrunsTheTtl == Waiting /\ boot.ttl # None => now < boot.ttl

\* "Funding never arrived" is only said of an address that was not funded one
\* poll before the window closed: a wait whose last read failed does not say
\* it, whatever an earlier read saw.
NeverArrivedIsHonest ==
    verdict = "never-arrived" /\ fundedAt # None =>
        fundedAt + Poll >= wait.start + wait.deadline

\* The two loops and the builder judge one output: a dead end stays one
\* however much is added, is never shown of a cohort that is being paid for -
\* not even when the change comes back to the address - and what the builder
\* picks, reading for itself, meets the ask.
OneConvention ==
    /\ verdict = "dead-end" => Classified = "dead-end" /\ view.state # "funded"
    /\ plan \in Deposit => Sats[plan] >= computeSuggestedMinSats /\ view.state # "dead-end"

\* A comment of the code says no caller can get the "could not observe the
\* chain" verdict from a wait that never polled (funding-watch.ts, WR-04).
UnobservedMeansARead == verdict = "unobserved" => wait.due # wait.start

\* The boot check keeps the phase timer above the window "so the funding wait
\* can surface its specific reason before the phase-stall timer fires"
\* (demo-server.ts).
WaitOutrunsThePhaseTimer == reason = "phase" => wait.step \in {"off", "over"}

\* The disclosed window is the one enforced: "keygen-complete and the wait
\* fire near-simultaneously, so this matches" (index.ts).
DisclosureMatches ==
    wait.step # "off" /\ fundingWindow # None /\ disclosed # None
        => wait.deadline = disclosed
====
