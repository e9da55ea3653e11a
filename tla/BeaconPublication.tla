---- MODULE BeaconPublication ----
(***************************************************************************)
(* From a beacon address to a confirmed beacon transaction: the display    *)
(* watch of the address (funding-watch.ts), the handler that sends the     *)
(* signed transaction and polls for its confirmation (broadcast.ts), the   *)
(* Bitcoin network it talks to, and the two folds of its frames            *)
(* (AnchorState, CohortMonitor).  createService of index.ts registers the  *)
(* listeners: on signing-complete the broadcaster, the monitor, the        *)
(* release; on cohort-failed the monitor, then the lapse verdict and the   *)
(* release; a frame reaches the anchor state first, then the monitor.      *)
(*                                                                         *)
(* The kill switch is one fixed verdict per cohort here and the side       *)
(* tables do not fill up; ServiceWiring models both.  Funds and mined      *)
(* transactions are never reorganised away.                                *)
(***************************************************************************)
EXTENDS AnchorState, CohortMonitor, FiniteSets

CONSTANTS
    Cohort,        \* cohort ids
    MaxAttempts    \* sendRetryAttempts (5), at least one

ASSUME AttemptsAssumption == MaxAttempts \in Nat \ {0}

VARIABLES
    stage,      \* runner: how far each cohort has come
    wired,      \* cohortUsesLivePath's verdict on the cohort
    funds,      \* what lies at the cohort's beacon address
    lastView,   \* lastFundingView; NoView when absent
    watching,   \* cohorts whose display watch is running
    handler,    \* handleSigningComplete of each cohort
    chain,      \* the network's view of the signed transaction
    lost,       \* history: a send whose answer never came back
    acked,      \* history: the node answered that it has the transaction
    gone,       \* history: the cohort's ended record was dismissed or evicted
    stopped     \* the broadcaster's signal is aborted

network == <<funds, chain, lost>>
vars == <<stage, wired, network, lastView, watching, handler, acked, gone, stopped,
          anchors, monitorVars>>

Underway == {"filling", "keyed", "signing", "fallback"}
Ends == {"completed", "completed-fallback", "failed", "canceled",
         "window-expired", "stopped"}
Completed == {"completed", "completed-fallback"}

\* sending: a send is in flight; backoff: between two sends; reading: a
\* confirmation read is in flight; pausing: between two reads; done: returned.
HandlerSteps == {"none", "sending", "backoff", "reading", "pausing", "done"}
Running == {"sending", "backoff", "reading", "pausing"}

\* No entry; its state is the watch's lastState before the first read.
NoView == [state |-> "waiting", esploraStale |-> FALSE, terminal |-> TRUE]

RunTypes ==
    /\ stage \in [Cohort -> {"fresh"} \cup Underway \cup Ends]
    /\ wired \in [Cohort -> BOOLEAN]
    /\ funds \in [Cohort -> {"none", "unconfirmed", "enough", "short"}]
    /\ lastView \in [Cohort -> Views]
    /\ watching \subseteq Cohort
    /\ handler \in [Cohort -> [step : HandlerSteps, attempt : 0 .. MaxAttempts]]
    /\ chain \in [Cohort -> {"absent", "mempool", "mined"}]
    /\ lost \subseteq Cohort /\ acked \subseteq Cohort /\ gone \subseteq Cohort
    /\ stopped \in BOOLEAN

AnchorEntry == [id : Cohort, state : {"broadcast", "confirmed", "failed"}]
LiveEntry == [id : Cohort, fellBack : BOOLEAN]
EndedRecord == [id : Cohort, viaFallback : BOOLEAN,
                chip : {"co-signed", "co-signed-fallback", "anchored", "fallback",
                        "canceled", "failed"}]
ViewEntry == [id : Cohort, view : Views]

MapTypes ==
    /\ anchors \in Seq(AnchorEntry) /\ Len(anchors) <= MaxTerminal
    /\ entries \in Seq(LiveEntry) /\ Len(entries) <= MaxMonitored
    /\ ended \in Seq(EndedRecord) /\ Len(ended) <= MaxEnded
    /\ fundingViews \in Seq(ViewEntry) /\ Len(fundingViews) <= MaxEnded

TypeOK == RunTypes /\ MapTypes

Init ==
    /\ stage = [c \in Cohort |-> "fresh"]
    /\ wired \in [Cohort -> BOOLEAN]
    /\ funds = [c \in Cohort |-> "none"]
    /\ lastView = [c \in Cohort |-> NoView]
    /\ watching = {}
    /\ handler = [c \in Cohort |-> [step |-> "none", attempt |-> 0]]
    /\ chain = [c \in Cohort |-> "absent"]
    /\ lost = {} /\ acked = {} /\ gone = {}
    /\ stopped = FALSE
    /\ anchors = <<>> /\ entries = <<>> /\ ended = <<>> /\ fundingViews = <<>>

-----------------------------------------------------------------------------
(* The runner and its listeners *)

Move(c, from, to) == stage[c] \in from /\ stage' = [stage EXCEPT ![c] = to]

Quiet == UNCHANGED <<wired, network, lastView, watching, handler, acked, stopped, anchors>>

\* The cohort is advertised: the session shows it, no fold has heard of it.
Advertise(c) ==
    /\ ~stopped
    /\ Move(c, {"fresh"}, "filling")
    /\ Quiet /\ UNCHANGED monitorVars

\* keygen-complete: note the entry and, on the live path, start the watch.
KeygenComplete(c) ==
    /\ ~stopped
    /\ Move(c, {"filling"}, "keyed")
    /\ Touch(c, FALSE)
    /\ watching' = IF wired[c] THEN watching \cup {c} ELSE watching
    /\ UNCHANGED <<wired, network, lastView, handler, acked, stopped, anchors, ended,
                   fundingViews>>

\* A membership or round event, or an operator action noted against a cohort
\* (a test peer's spawn may be noted after the cohort, or the service, ended).
CohortEvent(c) ==
    /\ stage[c] # "fresh"
    /\ Touch(c, FALSE)
    /\ UNCHANGED <<stage, ended, fundingViews>> /\ Quiet

\* onProvideTxData: waitForFunding has seen the funds, or the fixture needs none.
SigningStarted(c) ==
    /\ ~stopped
    /\ Move(c, {"keyed"}, "signing")
    /\ wired[c] => funds[c] = "enough"
    /\ Touch(c, FALSE)
    /\ Quiet /\ UNCHANGED <<ended, fundingViews>>

FallbackStarted(c) ==
    /\ ~stopped
    /\ Move(c, {"signing"}, "fallback")
    /\ Touch(c, TRUE)
    /\ Quiet /\ UNCHANGED <<ended, fundingViews>>

\* releaseCohortTables, as far as this module goes.
Release(c) ==
    /\ watching' = watching \ {c}
    /\ lastView' = [lastView EXCEPT ![c] = NoView]

\* signing-complete.  The broadcaster runs to its first await: a transaction
\* that does not extract has failed, frame and all, before the monitor's own
\* listener files the co-signed record over it.
SigningComplete(c, extracts) ==
    /\ ~stopped
    /\ LET path == IF stage[c] = "fallback" THEN "script-path" ELSE "key-path"
       IN  /\ Move(c, {"signing", "fallback"},
                   IF path = "key-path" THEN "completed" ELSE "completed-fallback")
           /\ SigningCompleteFold(c, path)
    /\ IF wired[c]
       THEN /\ handler' = [handler EXCEPT ![c] =
                    IF extracts THEN [step |-> "sending", attempt |-> 1]
                    ELSE [step |-> "done", attempt |-> 0]]
            /\ IF extracts THEN UNCHANGED anchors ELSE RememberAnchor(c, "failed")
       ELSE UNCHANGED <<handler, anchors>>
    /\ Release(c)
    /\ UNCHANGED <<wired, network, acked, stopped, entries, fundingViews>>

CohortFailed_NoVerdict(c) ==   \* mutant: no lapse verdict before the release
    /\ ~stopped
    /\ Move(c, Underway, "failed")
    /\ FailedFold(c)
    /\ IF c \in watching THEN Release(c) ELSE UNCHANGED <<watching, lastView>>
    /\ UNCHANGED <<wired, network, handler, acked, stopped, anchors, entries, fundingViews>>

\* cohort-failed.  Unless its last view was funded, the cohort lapsed: the
\* view becomes terminal.
CohortFailed(c) ==
    /\ ~stopped
    /\ Move(c, Underway, "failed")
    /\ FailedFold(c)
    /\ IF stage[c] # "filling" /\ wired[c]
       THEN /\ IF lastView[c] # NoView /\ lastView[c].state # "funded"
               THEN NoteFunding(c, [lastView[c] EXCEPT !.terminal = TRUE])
               ELSE UNCHANGED fundingViews
            /\ Release(c)
       ELSE UNCHANGED <<watching, lastView, fundingViews>>
    /\ UNCHANGED <<wired, network, handler, acked, stopped, anchors, entries>>

\* The operator's cancel: onCancel notes the fate, then releases.
CancelCohort(c) ==
    /\ ~stopped
    /\ Move(c, Underway, "canceled")
    /\ NoteCanceled(c)
    /\ Release(c)
    /\ UNCHANGED <<wired, network, handler, acked, stopped, anchors, fundingViews>>

\* The discovery window closes: runner.stopCohort, which no listener hears.
WindowExpires(c) ==
    /\ ~stopped
    /\ Move(c, Underway, "window-expired")
    /\ Quiet /\ UNCHANGED monitorVars

\* The operator dismisses an ended row; a stopped service still lets them.
Dismiss(c) ==
    /\ DismissEnded(c, stage[c] \in Underway)
    /\ UNCHANGED stage /\ Quiet

\* service.stop(): the broadcaster's signal and every watch are aborted.
Stop ==
    /\ ~stopped
    /\ stopped' = TRUE
    /\ watching' = {}
    /\ stage' = [c \in Cohort |->
                    IF stage[c] \in Underway THEN "stopped" ELSE stage[c]]
    /\ UNCHANGED <<wired, network, lastView, handler, acked, anchors, monitorVars>>

-----------------------------------------------------------------------------
(* The funding watch *)

\* classifyFunding; the last-known state when the read failed.
Classified(c, ok) ==
    IF ok THEN CASE funds[c] = "none" -> "waiting"
                 [] funds[c] = "unconfirmed" -> "awaiting-confirmation"
                 [] funds[c] = "enough" -> "funded"
                 [] funds[c] = "short" -> "dead-end"
    ELSE lastView[c].state

\* One poll of the display watch: the view goes to the side table and the
\* monitor.  The read that saw the funds is the last one.
WatchPoll(c, ok) ==
    /\ c \in watching
    /\ LET view == [state |-> Classified(c, ok), esploraStale |-> ~ok,
                    terminal |-> FALSE]
       IN  /\ lastView' = [lastView EXCEPT ![c] = view]
           /\ NoteFunding(c, view)
           /\ watching' = IF view.state = "funded" THEN watching \ {c} ELSE watching
    /\ UNCHANGED <<stage, wired, network, handler, acked, stopped, anchors, entries, ended>>

-----------------------------------------------------------------------------
(* The broadcast handler *)

HandlerAt(c, step, attempt) ==
    handler' = [handler EXCEPT ![c] = [step |-> step, attempt |-> attempt]]

BroadcastFrame(c) == RememberAnchor(c, "broadcast") /\ UNCHANGED ended

AnchoredFrame(c, confirmed) ==
    RememberAnchor(c, AnchoredState(confirmed)) /\ AnchoredFold(c, confirmed)

FailedFrame(c) == RememberAnchor(c, "failed") /\ FailedFold(c)

NoFrame == UNCHANGED <<anchors, ended>>

\* What holds the rest still in a step of the handler.
HandlerOnly == UNCHANGED <<stage, wired, funds, lastView, watching, stopped,
                           entries, fundingViews>>

Retry_FrameEach(c) ==   \* mutant: every failed attempt is reported
    CASE stopped -> HandlerAt(c, "done", 0) /\ NoFrame
      [] ~stopped /\ handler[c].attempt >= MaxAttempts ->
            HandlerAt(c, "done", handler[c].attempt) /\ FailedFrame(c)
      [] OTHER -> HandlerAt(c, "backoff", handler[c].attempt) /\ FailedFrame(c)

\* The send failed: try again until the attempts are used up.
Retry(c) ==
    CASE stopped -> HandlerAt(c, "done", 0) /\ NoFrame
      [] ~stopped /\ handler[c].attempt >= MaxAttempts ->
            HandlerAt(c, "done", handler[c].attempt) /\ FailedFrame(c)
      [] OTHER -> HandlerAt(c, "backoff", handler[c].attempt) /\ NoFrame

SendAccepted_DuplicateFails(c) ==   \* mutant: a duplicate is a refusal
    /\ handler[c].step = "sending"
    /\ chain' = [chain EXCEPT ![c] = IF @ = "absent" THEN "mempool" ELSE @]
    /\ acked' = acked \cup {c}
    /\ CASE stopped -> HandlerAt(c, "done", 0) /\ NoFrame
         [] ~stopped /\ chain[c] = "absent" ->
               HandlerAt(c, "reading", 0) /\ BroadcastFrame(c)
         [] OTHER -> Retry(c)
    /\ UNCHANGED lost /\ HandlerOnly

SendAccepted_NoAbortCheck(c) ==   \* mutant: onBroadcast ignores the signal
    /\ handler[c].step = "sending"
    /\ chain' = [chain EXCEPT ![c] = IF @ = "absent" THEN "mempool" ELSE @]
    /\ acked' = acked \cup {c}
    /\ HandlerAt(c, IF stopped THEN "done" ELSE "reading", 0)
    /\ BroadcastFrame(c)
    /\ UNCHANGED lost /\ HandlerOnly

\* The send was accepted, or refused because the node has the transaction
\* already: isDuplicateAcceptance makes both a success.
SendAccepted(c) ==
    /\ handler[c].step = "sending"
    /\ chain' = [chain EXCEPT ![c] = IF @ = "absent" THEN "mempool" ELSE @]
    /\ acked' = acked \cup {c}
    /\ IF stopped
       THEN HandlerAt(c, "done", 0) /\ NoFrame
       ELSE HandlerAt(c, "reading", 0) /\ BroadcastFrame(c)
    /\ UNCHANGED lost /\ HandlerOnly

\* The node refuses the transaction, which it therefore does not have.
SendRefused(c) ==
    /\ handler[c].step = "sending"
    /\ chain[c] = "absent"
    /\ Retry(c)
    /\ UNCHANGED <<chain, lost, acked>> /\ HandlerOnly

\* The answer never comes: the request may or may not have reached the node.
SendLost(c) ==
    /\ handler[c].step = "sending"
    /\ lost' = lost \cup {c}
    /\ Retry(c)
    /\ UNCHANGED <<chain, acked>> /\ HandlerOnly

\* The backoff is over, or cut short by the abort.
SendAgain(c) ==
    /\ handler[c].step = "backoff"
    /\ IF stopped THEN HandlerAt(c, "done", 0)
       ELSE HandlerAt(c, "sending", handler[c].attempt + 1)
    /\ NoFrame /\ UNCHANGED <<chain, lost, acked>> /\ HandlerOnly

\* isConfirmed answers; an error counts as "not yet".
ConfirmationRead(c, confirmed) ==
    /\ handler[c].step = "reading"
    /\ confirmed => chain[c] = "mined"
    /\ CASE confirmed /\ stopped -> HandlerAt(c, "done", 0) /\ NoFrame
         [] confirmed /\ ~stopped -> HandlerAt(c, "done", 0) /\ AnchoredFrame(c, TRUE)
         [] ~confirmed -> HandlerAt(c, "pausing", 0) /\ NoFrame
    /\ UNCHANGED <<chain, lost, acked>> /\ HandlerOnly

\* The pause is over: read again, or give up once the deadline has passed.
PollAgain(c, late) ==
    /\ handler[c].step = "pausing"
    /\ CASE stopped -> HandlerAt(c, "done", 0) /\ NoFrame
         [] ~stopped /\ late -> HandlerAt(c, "done", 0) /\ AnchoredFrame(c, FALSE)
         [] OTHER -> HandlerAt(c, "reading", 0) /\ NoFrame
    /\ UNCHANGED <<chain, lost, acked>> /\ HandlerOnly

-----------------------------------------------------------------------------
(* The Bitcoin network *)

\* The address is paid: one output, too small or, once confirmed, enough.
Pay(c) ==
    /\ stage[c] \notin {"fresh", "filling"}
    /\ \/ funds[c] = "none" /\ funds' = [funds EXCEPT ![c] = "unconfirmed"]
       \/ funds[c] = "unconfirmed"
            /\ \E f \in {"enough", "short"} : funds' = [funds EXCEPT ![c] = f]
    /\ UNCHANGED <<stage, chain, lost, wired, lastView, watching, handler, acked, stopped,
                   anchors, monitorVars>>

\* A send whose answer was lost reaches the node after all.
LateArrival(c) ==
    /\ c \in lost /\ chain[c] = "absent"
    /\ chain' = [chain EXCEPT ![c] = "mempool"]
    /\ UNCHANGED <<stage, funds, lost, wired, lastView, watching, handler, acked, stopped,
                   anchors, monitorVars>>

Mine(c) ==
    /\ chain[c] = "mempool"
    /\ chain' = [chain EXCEPT ![c] = "mined"]
    /\ UNCHANGED <<stage, funds, lost, wired, lastView, watching, handler, acked, stopped,
                   anchors, monitorVars>>

-----------------------------------------------------------------------------
RunnerStep(c) ==
    \/ Advertise(c) \/ KeygenComplete(c) \/ CohortEvent(c) \/ SigningStarted(c)
    \/ FallbackStarted(c) \/ CohortFailed(c)
    \/ \E extracts \in BOOLEAN : SigningComplete(c, extracts)

OperatorStep(c) == CancelCohort(c) \/ WindowExpires(c) \/ Dismiss(c)

HandlerStep(c) ==
    \/ SendAccepted(c) \/ SendRefused(c) \/ SendLost(c) \/ SendAgain(c)
    \/ \E confirmed \in BOOLEAN : ConfirmationRead(c, confirmed)
    \/ \E late \in BOOLEAN : PollAgain(c, late)

NetworkStep(c) == Pay(c) \/ LateArrival(c) \/ Mine(c)

Next ==
    /\ \/ \E c \in Cohort :
            \/ RunnerStep(c) \/ OperatorStep(c) \/ HandlerStep(c) \/ NetworkStep(c)
            \/ \E ok \in BOOLEAN : WatchPoll(c, ok)
       \/ Stop
    /\ gone' = gone \cup (Keys(ended) \ Keys(ended'))

Spec == Init /\ [][Next]_vars

-----------------------------------------------------------------------------
(* Properties *)

\* What the console lists c as.
Row(c) == summaryChip(c, CASE stage[c] = "filling" -> "filling"
                           [] stage[c] \in Underway \ {"filling"} -> "co-signing"
                           [] OTHER -> "none")

\* The anonymous anchor read never outruns the network: "broadcast" and
\* "confirmed" are facts, and "failed" is never said of a transaction the node
\* acknowledged, nor of one it has unless an answer was lost on the way
\* (anchor-state.ts; sendWithRetry's duplicate rule).
AnchorHonest ==
    \A c \in Cohort :
        /\ AnchorRead(c) = "broadcast" => chain[c] # "absent"
        /\ AnchorRead(c) = "confirmed" => chain[c] = "mined"
        /\ AnchorRead(c) = "failed" =>
               c \notin acked /\ (chain[c] # "absent" => c \in lost)

\* A verdict stands: once confirmed or failed, a retained anchor answer never
\* changes, whatever was retried or answered late (one handler, one verdict).
VerdictsStand ==
    [][\A c \in Cohort :
          AnchorRead(c) \in {"confirmed", "failed"} =>
              AnchorRead(c)' \in {AnchorRead(c), "none"}]_vars

\* After stop() no answer still in flight moves an anchor or a row: only the
\* operator still takes rows away (attachBeaconBroadcast, "the whole broadcast
\* lifecycle goes quiet").
QuietAfterStop ==
    [][stopped => /\ UNCHANGED anchors
                  /\ \/ UNCHANGED <<ended, fundingViews>>
                     \/ \E c \in Cohort : ended' = Delete(ended, c)]_vars

\* Every row of the summary is the cohort's own fate: "failed" is a cohort
\* that failed or a send the node never acknowledged, an anchored row is a
\* mined transaction, the script path is told from the key path - except that
\* a confirmation finding no record any more, dismissed or evicted, files a
\* k-of-n cohort as plainly anchored (monitor.ts, summary).
RowsHonest ==
    \A c \in Cohort :
        /\ Row(c) = "failed" =>
             \/ stage[c] = "failed"
             \/ stage[c] \in Completed /\ wired[c] /\ c \notin acked
        /\ Row(c) = "canceled" => stage[c] = "canceled"
        /\ Row(c) = "co-signed" => stage[c] = "completed"
        /\ Row(c) = "co-signed-fallback" => stage[c] = "completed-fallback"
        /\ Row(c) = "fallback" => chain[c] = "mined" /\ stage[c] = "completed-fallback"
        /\ Row(c) = "anchored" =>
             chain[c] = "mined" /\ (stage[c] = "completed" \/ c \in gone)
        /\ Row(c) = "none" =>
             stage[c] \in {"fresh", "window-expired", "stopped"} \/ c \in gone

\* The two folds of the same frames agree on every cohort both retain.  The
\* one exception is a transaction that did not extract (no attempt was made):
\* its failure is filed before the co-signed record and lies under it.
FoldsAgree ==
    \A c \in Keys(anchors) \cap Keys(ended) :
        LET chip == Lookup(ended, c).chip
        IN  /\ AnchorRead(c) = "confirmed" <=> chip \in {"anchored", "fallback"}
            /\ AnchorRead(c) = "failed" => chip = "failed" \/ handler[c].attempt = 0
            /\ AnchorRead(c) = "broadcast" => chip \in {"co-signed", "co-signed-fallback"}

\* The public read says a cohort awaits its funding only while it does, or
\* because nobody told the monitor better: the display watch was retired by
\* the success it had not yet polled, no listener runs for a closed window or
\* a stop, or the canceled record that overrides the view has been evicted.
\* Of a failed cohort it never says so (publicFunding; index.ts cohort-failed).
AwaitingExplained ==
    \A c \in Cohort :
        publicFunding(c) =>
            \/ stage[c] = "keyed"
            \/ stage[c] \in {"signing", "fallback"} \cup Completed /\ funds[c] = "enough"
            \/ stage[c] \in {"window-expired", "stopped"}
            \/ stage[c] = "canceled" /\ c \in gone
====
