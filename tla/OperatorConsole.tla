---------------------------- MODULE OperatorConsole ----------------------------
(***************************************************************************)
(* The browser's operator store (stores/operator.ts) over its client       *)
(* (lib/operator.ts): one tab, one cookie jar, and a service whose sessions *)
(* end on their own.  Every verb asks, awaits and writes what the answer   *)
(* means; answers land in any order, and any of them may be lost.          *)
(*                                                                         *)
(* Of the slice a session fills, what was served is held or not held, an   *)
(* error slot carries an error or does not, and the confirmations that     *)
(* fade after four seconds are left out.                                   *)
(***************************************************************************)
EXTENDS Naturals, FiniteSets, OperatorRoutes

CONSTANTS
    Cohort,       \* rows of the list, drafts included
    Flight,       \* requests in flight at one time
    MaxActs,      \* bound: what the operator or a timer does in the console
    MaxLogins,    \* bound: sign-in attempts
    MaxProbes,    \* bound: mounts of the console
    Nil

ASSUME ConsoleAssumption ==
    /\ MaxActs \in Nat /\ MaxLogins \in Nat /\ MaxProbes \in Nat
    /\ Nil \notin Nat /\ Nil \notin Cohort
\* No verb and no answer is undefined.
ASSUME NilAssumption ==
    Nil \notin GatedVerbs \cup {"probe", "login", "ok", "unauthorized", "failed", "disabled",
                               "logged-in", "logged-out", "unreachable"}

VARIABLES
    auth,              \* OperatorAuthStatus
    sessionRound,
    liveSessionRound,  \* the round of the live session, or Nil
    slice,             \* what gatedSliceReset clears
    flight,            \* slot -> the request in flight
    jar,               \* the session id the browser sends
    good,              \* ids of the sessions the service honours
    hasPassword,       \* the service booted with an operator password
    holder,            \* history: the id of the session the live round stands for
    writers,           \* history: ids whose answers wrote the slice since its reset
    crossed,           \* history: a sign-in was answered while a session was live
    used               \* how often each bounded thing happened

store == <<auth, sessionRound, liveSessionRound, slice>>
service == <<jar, good, hasPassword>>
history == <<holder, writers, crossed>>
consoleVars == <<store, flight, service, history, used>>

Markers == {"create", "edit", "advertise", "pause", "broadcast", "dismiss",
            "cancel", "finalize", "testPeers", "settings"}

ListView == [kind |-> "list", cohort |-> Nil]
DetailView(c) == [kind |-> "detail", cohort |-> c]
SettingsView == [kind |-> "settings", cohort |-> Nil]

\* gatedSliceReset
Reset ==
    [listed |-> FALSE, settings |-> FALSE, editing |-> Nil,
     busy |-> [m \in Markers |-> Nil],
     errors |-> {}, view |-> ListView, detail |-> Nil]

Landed == [verb |-> Nil]

ConsoleInit ==
    /\ auth = "checking" /\ sessionRound = 0 /\ liveSessionRound = Nil
    /\ slice = Reset
    /\ flight = [q \in Flight |-> Landed]
    /\ jar = Nil /\ good = {} /\ hasPassword = TRUE
    /\ holder = Nil /\ writers = {} /\ crossed = FALSE
    /\ used = [acts |-> 0, logins |-> 0, probes |-> 0]

-----------------------------------------------------------------------------
(* Asking and answering *)

\* askingRound
AskingRound == IF auth = "logged-in" THEN sessionRound ELSE Nil

StillAsking_Always(asked) == asked # Nil   \* mutant: any signed-in asker will do

\* stillAsking
StillAsking(asked) == asked # Nil /\ sessionRound = asked

Request(verb, c, asked) ==
    [verb |-> verb, cohort |-> c, asked |-> asked, cookie |-> jar,
     answer |-> Nil, opens |-> Nil, since |-> Nil]

Count(what, max) == used[what] < max /\ used' = [used EXCEPT ![what] = @ + 1]

\* A gated call: its marker goes up, its error slot clears, the request leaves.
Ask(q, verb, c, marked) ==
    /\ auth = "logged-in"
    /\ flight[q] = Landed
    /\ Count("acts", MaxActs)
    /\ slice' = marked
    /\ flight' = [flight EXCEPT ![q] = Request(verb, c, AskingRound)]
    /\ UNCHANGED <<auth, sessionRound, liveSessionRound, service, history>>

Marked(m, c, slot) == [slice EXCEPT !.busy[m] = c, !.errors = @ \ {slot}]
\* A control whose own request is in flight is disabled (CohortRow and its siblings).
NotBusy(m, c) == slice.busy[m] # c

Honoured(r) == r.cookie \in good

\* The status of a gated request, read by its client.  What is not a success and not
\* a 401 differs in its wording alone, and so does a timeout.
ClientReads(result) == IF result \in {"ok", "unauthorized"} THEN result ELSE "failed"

OutcomeTable ==
    [verb \in GatedVerbs |-> [password \in BOOLEAN |-> [admitted \in BOOLEAN |->
        {"failed"} \cup {ClientReads(ResultOf(verb, s, whole)) :
                            s \in Statuses(verb, password, admitted), whole \in BOOLEAN}]]]

Outcomes(r) == OutcomeTable[r.verb][hasPassword][Honoured(r)]

LoginOutcomes == {"failed"} \cup {LoginResult(s) : s \in Statuses("login", hasPassword, FALSE)}

ProbeOutcomes(r) ==
    {"unreachable"} \cup {SessionProbe(s) : s \in Statuses("probe", hasPassword, Honoured(r))}

OutcomesOf(r) ==
    CASE r.verb = "login" -> LoginOutcomes
      [] r.verb = "probe" -> ProbeOutcomes(r)
      [] OTHER -> Outcomes(r)

\* The service answers at once or never; its answer is on its way until it lands.
\* An answer to a logout may be lost after the session has gone.
Answer(q) ==
    LET r == flight[q]
    IN  /\ r # Landed /\ r.answer = Nil
        /\ \E a \in OutcomesOf(r) : flight' = [flight EXCEPT ![q].answer = a]
        /\ good' \in
             CASE r.verb = "login" /\ flight'[q].answer = "ok" -> {good \cup {r.cookie}}
               [] r.verb = "logout" /\ flight'[q].answer = "ok" -> {good \ {r.cookie}}
               [] r.verb = "logout" /\ flight'[q].answer = "failed" -> {good, good \ {r.cookie}}
               [] OTHER -> {good}
        /\ UNCHANGED <<store, jar, hasPassword, history, used>>

\* A session ends at the service: its TTL, or a logout elsewhere.
SessionEnds ==
    /\ \E id \in good : good' = good \ {id}
    /\ UNCHANGED <<store, flight, jar, hasPassword, history, used>>

\* The service comes back without an operator password.  A reboot that keeps it
\* is SessionEnds for every session.
Reboot ==
    /\ hasPassword
    /\ hasPassword' = FALSE
    /\ good' = {}
    /\ UNCHANGED <<store, flight, jar, history, used>>

-----------------------------------------------------------------------------
(* Sessions *)

Expire_KeepsAdvertising(status) ==   \* mutant: five fields were once missed
    /\ slice' = [Reset EXCEPT !.busy["create"] = slice.busy["create"],
                              !.busy["advertise"] = slice.busy["advertise"]]
    /\ auth' = status
    /\ sessionRound' = sessionRound + 1
    /\ liveSessionRound' = Nil
    /\ holder' = Nil
    /\ writers' = {}
    /\ UNCHANGED crossed

\* expireSession
Expire(status) ==
    /\ slice' = Reset
    /\ auth' = status
    /\ sessionRound' = sessionRound + 1
    /\ liveSessionRound' = Nil
    /\ holder' = Nil
    /\ writers' = {}
    /\ UNCHANGED crossed

Started(id) ==
    /\ auth' = "logged-in"
    /\ sessionRound' = sessionRound + 1
    /\ liveSessionRound' = sessionRound + 1
    /\ holder' = id
    /\ UNCHANGED <<slice, writers>>

\* The console is mounted, or mounted again by a switch of tabs.
Probe(q) ==
    /\ flight[q] = Landed
    /\ Count("probes", MaxProbes)
    /\ auth' = "checking"
    /\ flight' = [flight EXCEPT ![q] = Request("probe", "service", sessionRound)]
    /\ UNCHANGED <<sessionRound, liveSessionRound, slice, service, history>>

Done(q) == flight' = [flight EXCEPT ![q] = Landed]

\* The list is read next, in the same slot; it may open a cohort when it is back.
ThenList(q, opens) ==
    LET asked == IF auth' = "logged-in" THEN sessionRound' ELSE Nil
    IN  flight' = [flight EXCEPT ![q] =
            [Request("list", "service", asked) EXCEPT
                !.cookie = jar', !.opens = opens, !.since = sessionRound']]

\* probeUnreachable
ProbeUnreachable ==
    IF liveSessionRound # Nil
      THEN Expire("logged-out")
      ELSE /\ auth' = "logged-out"
           /\ UNCHANGED <<sessionRound, liveSessionRound, slice, history>>

ProbeFindsSession(q) ==
    LET r == flight[q]
    IN  IF liveSessionRound # Nil
          THEN /\ auth' = "logged-in"
               /\ UNCHANGED <<sessionRound, liveSessionRound, slice, history>>
               /\ ThenList(q, Nil)
          ELSE IF sessionRound # r.asked
          THEN Done(q) /\ UNCHANGED <<auth, sessionRound, liveSessionRound, slice, history>>
          ELSE Started(r.cookie) /\ ThenList(q, Nil) /\ UNCHANGED crossed

ProbeFindsNone(status) ==
    IF liveSessionRound # Nil
      THEN Expire(status)
      ELSE /\ auth' = status
           /\ UNCHANGED <<sessionRound, liveSessionRound, slice, history>>

ProbeLands(q) ==
    LET r == flight[q]
    IN  /\ r.verb = "probe" /\ r.answer # Nil
        /\ UNCHANGED <<service, used>>
        /\ CASE r.answer = "unreachable" -> ProbeUnreachable /\ Done(q)
             [] r.answer = "logged-in" -> ProbeFindsSession(q)
             [] OTHER -> ProbeFindsNone(r.answer) /\ Done(q)

\* signIn: the login panel takes a password when no sign-in is busy.
SignIn(q) ==
    /\ auth = "logged-out"
    /\ flight[q] = Landed
    /\ Count("logins", MaxLogins)
    /\ auth' = "logging-in"
    /\ flight' = [flight EXCEPT ![q] =
            [Request("login", "service", Nil) EXCEPT !.cookie = used.logins + 1]]
    /\ UNCHANGED <<sessionRound, liveSessionRound, slice, service, history>>

Crossed == crossed' = (crossed \/ liveSessionRound # Nil)

SignInLands(q) ==
    LET r == flight[q]
    IN  /\ r.verb = "login" /\ r.answer # Nil
        /\ IF r.answer = "ok"
             THEN /\ jar' = r.cookie
                  /\ Started(r.cookie)
                  /\ ThenList(q, Nil)
             ELSE /\ auth' = IF r.answer = "disabled" THEN "disabled" ELSE "logged-out"
                  /\ liveSessionRound' = Nil
                  /\ Done(q)
                  /\ UNCHANGED <<sessionRound, slice, jar, holder, writers>>
        /\ Crossed
        /\ UNCHANGED <<good, hasPassword, used>>

\* signOut, from the list view; whatever the answer, the session is over here.
SignOut(q) ==
    /\ slice.view = ListView
    /\ Ask(q, "logout", "service", slice)

SignOutLands(q) ==
    LET r == flight[q]
    IN  /\ r.verb = "logout" /\ r.answer # Nil
        /\ Expire("logged-out")
        /\ jar' = IF r.answer = "ok" THEN Nil ELSE jar
        /\ Done(q)
        /\ UNCHANGED <<good, hasPassword, used>>

-----------------------------------------------------------------------------
(* How a gated answer lands *)

IsBack(q, verb) == flight[q].verb = verb /\ flight[q].answer # Nil
Ok(q) == flight[q].answer = "ok"

NoSessionChange == UNCHANGED <<auth, sessionRound, liveSessionRound, holder, crossed>>

ExpireIfStillAsking_Always(asked) ==   \* mutant: whoever is signed in is signed out
    IF asked # Nil THEN Expire("logged-out")
    ELSE NoSessionChange /\ UNCHANGED <<slice, writers>>

\* expireIfStillAsking
ExpireIfStillAsking(asked) ==
    IF StillAsking(asked) THEN Expire("logged-out")
    ELSE NoSessionChange /\ UNCHANGED <<slice, writers>>

Writes(q, next) ==
    /\ slice' = next
    /\ writers' = writers \cup {flight[q].cookie}
    /\ NoSessionChange

\* The shape every verb shares: a 401 first, then the round, then the write, and
\* after a success what the verb does next.
Lands(q, verb, next, after) ==
    LET r == flight[q]
        mine == r.answer # "unauthorized" /\ StillAsking(r.asked)
    IN  /\ IsBack(q, verb)
        /\ UNCHANGED <<service, used>>
        /\ IF r.answer = "unauthorized" THEN ExpireIfStillAsking(r.asked)
           ELSE IF mine THEN Writes(q, next)
           ELSE NoSessionChange /\ UNCHANGED <<slice, writers>>
        /\ IF mine /\ Ok(q) THEN after ELSE Done(q)

Idled(m) == [slice EXCEPT !.busy[m] = Nil]
Refused(m, slot) == [Idled(m) EXCEPT !.errors = @ \cup {slot}]

\* Most verbs: an error beside the control, or the marker down.
Settled(q, m, slot) == IF Ok(q) THEN Idled(m) ELSE Refused(m, slot)

OnDetail(s, c) ==
    [s EXCEPT !.view = DetailView(c), !.errors = @ \ {"action"},
              !.detail = Nil]

Closed(s) == [s EXCEPT !.view = ListView, !.detail = Nil]

\* finalizeCohort and addTestPeers poll the detail next, if one is open.
ThenDetail(q) ==
    IF slice'.view.kind = "detail"
      THEN flight' = [flight EXCEPT ![q] =
              Request("detail", slice'.view.cohort, AskingRound)]
      ELSE Done(q)

-----------------------------------------------------------------------------
(* The list *)

\* refreshCohorts: the poll; the read after a success rides on its verb's slot.
RefreshCohorts(q) ==
    /\ slice.view = ListView
    /\ Ask(q, "list", "service", slice)

\* The end of advertise: the cohort opens when its list is back, if the session
\* that asked is still the one running.
RefreshLands(q) ==
    LET r == flight[q]
        read == IF r.answer = "unauthorized" \/ ~StillAsking(r.asked) THEN slice
                ELSE [slice EXCEPT !.listed = @ \/ Ok(q)]
        opened == IF r.opens # Nil /\ StillAsking(r.since) THEN OnDetail(read, r.opens) ELSE read
    IN  /\ IsBack(q, "list")
        /\ IF r.answer = "unauthorized" /\ StillAsking(r.asked)
             THEN ExpireIfStillAsking(r.asked)
           ELSE IF opened # slice \/ (r.answer # "unauthorized" /\ StillAsking(r.asked))
             THEN Writes(q, opened)
           ELSE ExpireIfStillAsking(Nil)
        /\ Done(q)
        /\ UNCHANGED <<service, used>>

SubmitDraft(q) ==
    /\ slice.view = ListView /\ NotBusy("create", "service")
    /\ Ask(q, "create", "service", Marked("create", "service", "form"))
SubmitLands(q) == Lands(q, "create", Settled(q, "create", "form"), ThenList(q, Nil))

Unedited == [Idled("edit") EXCEPT !.editing = Nil, !.errors = @ \ {"edit"}]

BeginEdit(c) ==
    /\ auth = "logged-in" /\ slice.view = ListView /\ slice.editing # c
    /\ slice' = [Unedited EXCEPT !.editing = c]
    /\ Count("acts", MaxActs)
    /\ UNCHANGED <<auth, sessionRound, liveSessionRound, flight, service, history>>

CancelEdit ==
    /\ auth = "logged-in" /\ slice.view = ListView /\ slice.editing # Nil
    /\ slice' = Unedited
    /\ Count("acts", MaxActs)
    /\ UNCHANGED <<auth, sessionRound, liveSessionRound, flight, service, history>>

SaveDraftEdit(q) ==
    /\ slice.view = ListView
    /\ slice.editing # Nil /\ slice.busy["edit"] = Nil
    /\ Ask(q, "edit", slice.editing, Marked("edit", slice.editing, "edit"))
SaveEditLands(q) ==
    Lands(q, "edit", IF Ok(q) THEN Unedited ELSE Refused("edit", "edit"), ThenList(q, Nil))

Advertise(q, c) ==
    /\ slice.view = ListView /\ NotBusy("advertise", c)
    /\ Ask(q, "advertise", c, Marked("advertise", c, "action"))
AdvertiseLands(q) ==
    Lands(q, "advertise", Settled(q, "advertise", "action"), ThenList(q, flight[q].cohort))

Readvertise(q, c) ==
    /\ slice.view = ListView /\ NotBusy("advertise", c)
    /\ Ask(q, "readvertise", c, Marked("advertise", c, "action"))
ReadvertiseLands(q) ==
    Lands(q, "readvertise", Settled(q, "advertise", "action"), ThenList(q, Nil))

NoError(slot) == [slice EXCEPT !.errors = @ \ {slot}]
WithError(slot) == [slice EXCEPT !.errors = @ \cup {slot}]

Discard(q, c) ==
    slice.view = ListView /\ Ask(q, "discard", c, NoError("action"))
DiscardLands(q) ==
    Lands(q, "discard", IF Ok(q) THEN slice ELSE WithError("action"), ThenList(q, Nil))

DismissEnded(q, c) ==
    /\ slice.view = ListView /\ NotBusy("dismiss", c)
    /\ Ask(q, "dismiss", c, Marked("dismiss", c, "action"))
DismissLands(q) ==
    Lands(q, "dismiss", Settled(q, "dismiss", "action"), ThenList(q, Nil))

-----------------------------------------------------------------------------
(* The open cohort *)

OpenCohort(c) ==
    /\ auth = "logged-in" /\ slice.view = ListView
    /\ slice' = OnDetail(slice, c)
    /\ UNCHANGED <<auth, sessionRound, liveSessionRound, flight, service, history, used>>

CloseCohort ==
    /\ auth = "logged-in" /\ slice.view.kind = "detail"
    /\ slice' = Closed(slice)
    /\ UNCHANGED <<auth, sessionRound, liveSessionRound, flight, service, history, used>>

PollDetail(q) ==
    /\ slice.view.kind = "detail"
    /\ Ask(q, "detail", slice.view.cohort, slice)

Polled_AnyView(q) ==   \* mutant: some cohort is open
    IF slice.view.kind # "detail" THEN slice
    ELSE [slice EXCEPT !.detail = IF Ok(q) THEN flight[q].cohort ELSE @]

\* An answer about a cohort that is not the open one is dropped.
Polled(q) ==
    IF slice.view # DetailView(flight[q].cohort) THEN slice
    ELSE [slice EXCEPT !.detail = IF Ok(q) THEN flight[q].cohort ELSE @]

PollLands(q) == Lands(q, "detail", Polled(q), Done(q))

ExportCohort(q) ==
    /\ slice.view.kind = "detail"
    /\ Ask(q, "export", slice.view.cohort, NoError("action"))
ExportLands(q) ==
    Lands(q, "export", IF Ok(q) THEN slice ELSE WithError("action"), Done(q))

\* The three lifecycle verbs act on the open cohort.
Lifecycle(q, verb, m, slot) ==
    /\ slice.view.kind = "detail" /\ NotBusy(m, slice.view.cohort)
    /\ Ask(q, verb, slice.view.cohort, Marked(m, slice.view.cohort, slot))

CancelCohort(q) == Lifecycle(q, "cancel", "cancel", "action")
CancelLands(q) ==
    Lands(q, "cancel", IF Ok(q) THEN Closed(Idled("cancel")) ELSE Refused("cancel", "action"),
          ThenList(q, Nil))

FinalizeCohort(q) == Lifecycle(q, "finalize", "finalize", "action")
FinalizeLands(q) == Lands(q, "finalize", Settled(q, "finalize", "action"), ThenDetail(q))

AddTestPeers(q) == Lifecycle(q, "testPeers", "testPeers", "testPeer")
AddTestPeersLands(q) ==
    Lands(q, "testPeers", Settled(q, "testPeers", "testPeer"), ThenDetail(q))

-----------------------------------------------------------------------------
(* The service controls and the settings *)

\* pauseAdvertising and resumeAdvertising
AdvertisingToggle(q) ==
    /\ NotBusy("pause", "service")
    /\ Ask(q, "pause", "service", Marked("pause", "service", "pause"))
ToggleLands(q) == Lands(q, "pause", Settled(q, "pause", "pause"), ThenList(q, Nil))

SwitchBroadcastOff(q) ==
    /\ NotBusy("broadcast", "service")
    /\ Ask(q, "broadcast", "service", Marked("broadcast", "service", "broadcast"))
BroadcastLands(q) ==
    Lands(q, "broadcast", Settled(q, "broadcast", "broadcast"), ThenList(q, Nil))

\* openSettings, and the read the view makes when it is mounted.
OpenSettings(q) ==
    /\ slice.view # SettingsView
    /\ Ask(q, "load", "service",
           [slice EXCEPT !.view = SettingsView, !.busy["settings"] = "service",
                         !.errors = @ \ {"settings", "action"}])

CloseSettings ==
    /\ auth = "logged-in" /\ slice.view = SettingsView
    /\ slice' = [Idled("settings") EXCEPT !.view = ListView, !.errors = @ \ {"settings"}]
    /\ Count("acts", MaxActs)
    /\ UNCHANGED <<auth, sessionRound, liveSessionRound, flight, service, history>>

\* The latch of the console: it comes up signed in and holds no settings.
LoadSettings(q) ==
    /\ ~slice.settings
    /\ Ask(q, "load", "service", slice)
LoadLands(q) ==
    Lands(q, "load",
          IF Ok(q) THEN [Idled("settings") EXCEPT !.settings = TRUE, !.errors = @ \ {"settings"}]
          ELSE Refused("settings", "settings"), Done(q))

SaveSettings(q) ==
    /\ slice.view = SettingsView /\ slice.settings
    /\ Ask(q, "save", "service", Marked("settings", "service", "settings"))
SaveLands(q) ==
    Lands(q, "save",
          IF Ok(q) THEN [Idled("settings") EXCEPT !.settings = TRUE]
          ELSE Refused("settings", "settings"), Done(q))

-----------------------------------------------------------------------------

Asks(q) ==
    \/ SignOut(q) \/ RefreshCohorts(q) \/ SubmitDraft(q) \/ SaveDraftEdit(q)
    \/ \E c \in Cohort : Advertise(q, c) \/ Readvertise(q, c) \/ Discard(q, c) \/ DismissEnded(q, c)
    \/ PollDetail(q) \/ ExportCohort(q) \/ CancelCohort(q) \/ FinalizeCohort(q) \/ AddTestPeers(q)
    \/ AdvertisingToggle(q) \/ SwitchBroadcastOff(q)
    \/ OpenSettings(q) \/ LoadSettings(q) \/ SaveSettings(q)

GatedAnswers(q) ==
    \/ RefreshLands(q) \/ SubmitLands(q) \/ SaveEditLands(q) \/ AdvertiseLands(q)
    \/ ReadvertiseLands(q) \/ DiscardLands(q) \/ DismissLands(q)
    \/ PollLands(q) \/ ExportLands(q) \/ CancelLands(q) \/ FinalizeLands(q) \/ AddTestPeersLands(q)
    \/ ToggleLands(q) \/ BroadcastLands(q) \/ LoadLands(q) \/ SaveLands(q)

Clicks ==
    \/ \E c \in Cohort : BeginEdit(c) \/ OpenCohort(c)
    \/ CancelEdit \/ CloseCohort \/ CloseSettings

ConsoleNext ==
    \/ \E q \in Flight :
          \/ Probe(q) \/ SignIn(q) \/ Asks(q)
          \/ Answer(q)
          \/ ProbeLands(q) \/ SignInLands(q) \/ SignOutLands(q) \/ GatedAnswers(q)
    \/ Clicks
    \/ SessionEnds \/ Reboot

ConsoleSpec == ConsoleInit /\ [][ConsoleNext]_consoleVars

-----------------------------------------------------------------------------
(* Properties *)

\* What a session's console shows was written by that session's own answers: no
\* late answer of an earlier session paints its list, its errors or its markers,
\* or moves its view.  A sign-in answered while a session is live is the one way
\* out of this, see SignedOutHoldsNothing (operator.ts:852-916, 1253-1275).
SliceOwned == crossed \/ writers \subseteq {holder}

VerbOf(m) ==
    CASE m = "advertise" -> {"advertise", "readvertise"}
      [] m = "settings" -> {"load", "save"}
      [] OTHER -> {m}

\* Nothing spins for ever: behind every busy control there is a request of this
\* session, for this row, that has not landed, and behind "checking" and
\* "logging in" there is a probe or a sign-in (operator.ts:796-843, 1061-1166).
NoDeadSpinner ==
    /\ crossed \/ \A m \in Markers : slice.busy[m] # Nil =>
          \E q \in Flight : /\ flight[q].verb \in VerbOf(m)
                            /\ flight[q].cohort = slice.busy[m]
                            /\ flight[q].asked = sessionRound
    /\ auth = "checking" /\ used.probes > 0 => \E q \in Flight : flight[q].verb = "probe"
    /\ auth = "logging-in" => \E q \in Flight : flight[q].verb = "login"

\* The document under an open cohort is that cohort's: a poll that comes back
\* after the operator has moved on paints nothing (operator.ts:1851-1908).
DetailIsOfTheOpenCohort ==
    slice.view.kind = "detail" /\ slice.detail # Nil => slice.detail = slice.view.cohort

\* A refusal ends the session it refuses and no other: when the answer to a gated
\* request signs the operator out, the service no longer honours the session the
\* console was signed in with (operator.ts:926-935).
RefusalEndsItsOwnSession ==
    [][\A q \in Flight :
          (/\ flight[q].verb \notin {Nil, "probe", "login", "logout"}
           /\ flight'[q] # flight[q]
           /\ flight[q].answer # Nil
           /\ liveSessionRound # Nil /\ liveSessionRound' = Nil)
          => holder \notin good]_consoleVars

\* "Cleared by the shared gatedSliceReset, so both paths that END a session drop
\* it with everything else and no third place has to remember"
\* (operator.ts:418-420): without a live session the slice is as it was reset.
SignedOutHoldsNothing == liveSessionRound = Nil => slice = Reset

================================================================================
