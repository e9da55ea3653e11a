---------------------------- MODULE OperatorSurface ----------------------------
(***************************************************************************)
(* The gated service controls: the operator routes of hono-adapter.ts over *)
(* the gate (OperatorAuth) and the settings holder (RuntimeSettings) -     *)
(* the pause, the broadcast kill switch, the settings, the drafts that     *)
(* take their defaults from them - and the operator log (monitor.ts).      *)
(*                                                                         *)
(* The log keeps only what these routes write; a changed setting is        *)
(* entered by its name.                                                    *)
(***************************************************************************)
EXTENDS OperatorAuth, RuntimeSettings, Sequences

CONSTANTS
    Option,     \* the options the process boots with
    Patch,      \* bodies of PUT /v1/operator/settings
    Input,      \* bodies of the draft routes
    MaxDrafts,  \* bound: drafts held at once
    RingSize    \* OPERATOR_ACTIONS_RING_SIZE (100 in the code)

ASSUME SurfaceAssumption == MaxDrafts \in Nat /\ RingSize \in Nat \ {0}
\* Seeds and bodies are of the declared types; their values are anything.
ASSUME ShapeAssumption ==
    /\ \A o \in Option :
          /\ DOMAIN o = SettingField \cup {"ttl", "autoFallback", "broadcasts"}
          /\ Shaped(o) /\ o.ttl \in Optional(Int)
          /\ {o.autoFallback, o.broadcasts} \subseteq BOOLEAN
    /\ \A p \in Patch : DOMAIN p \subseteq SettingField /\ Shaped(p)
    /\ \A i \in Input :
          DOMAIN i = NumberField \cup {"beaconType"} /\ Shaped(i)

VARIABLES
    boot,        \* the options of this boot
    settings,    \* the stored values of the holder
    paused,      \* advertising is paused
    disabledAt,  \* when the kill switch was thrown
    drafts,      \* draft id -> its shape
    log          \* operatorActions

surfaceVars == <<boot, settings, paused, disabledAt, drafts, log>>
vars == <<authVars, surfaceVars>>

\* createService: the seeds, with the options they fall back on.
SeedOf(o) ==
    [o EXCEPT !.discovery = IF @ = Unset THEN o.ttl ELSE @]

CeilingNow == Ceiling(boot)

SurfaceBoot(o) ==
    /\ boot = SeedOf(o)
    /\ settings = Seeded(SeedOf(o))
    /\ paused = FALSE
    /\ disabledAt = None
    /\ drafts = [d \in {} |-> None]
    /\ log = <<>>

Init == AuthInit /\ \E o \in Option : SurfaceBoot(o)

-----------------------------------------------------------------------------
(* The operator log *)

\* recordServiceAction: a repeat of the last line is one line, the oldest goes.
Note(l, text) ==
    IF l # <<>> /\ l[Len(l)] = text THEN l
    ELSE IF Len(l) >= RingSize THEN Append(Tail(l), text)
    ELSE Append(l, text)

Fields == <<"serviceName", "beaconType", "size", "threshold", "discovery",
            "funding", "termsText">>

\* recordSettingsChanges: one line per field that moved, in a fixed order.
NoteChanges(l, before, after) ==
    LET noted[i \in 0 .. Len(Fields)] ==
            IF i = 0 THEN l
            ELSE IF before[Fields[i]] # after[Fields[i]] THEN Note(noted[i - 1], Fields[i])
            ELSE noted[i - 1]
    IN  noted[Len(Fields)]

-----------------------------------------------------------------------------
(* Routes without a body *)

\* A request the gate turns away does nothing more.
Denied(b) ==
    /\ ~Admitted(b)
    /\ GatedRead(b)
    /\ UNCHANGED surfaceVars

\* POST /v1/operator/advertising/pause
Pause(b) ==
    /\ Admitted(b)
    /\ paused' = TRUE
    /\ log' = IF paused THEN log ELSE Note(log, "paused")
    /\ UNCHANGED <<authVars, boot, settings, disabledAt, drafts>>

\* POST /v1/operator/advertising/resume
Resume(b) ==
    /\ Admitted(b)
    /\ paused' = FALSE
    /\ log' = IF paused THEN Note(log, "resumed") ELSE log
    /\ UNCHANGED <<authVars, boot, settings, disabledAt, drafts>>

\* POST /v1/operator/broadcast/disable
DisableBroadcast(b) ==
    /\ Admitted(b)
    /\ disabledAt' = IF disabledAt = None THEN now ELSE disabledAt
    /\ log' = IF disabledAt = None THEN Note(log, "disabled") ELSE log
    /\ UNCHANGED <<authVars, boot, settings, paused, drafts>>

\* DELETE /v1/operator/cohorts/:id
DiscardDraft(b, d) ==
    /\ Admitted(b)
    /\ d \in DOMAIN drafts
    /\ drafts' = [e \in DOMAIN drafts \ {d} |-> drafts[e]]
    /\ UNCHANGED <<authVars, boot, settings, paused, disabledAt, log>>

-----------------------------------------------------------------------------
(* Routes with a body: the gate first, then the body, then the change *)

Bodies ==
    [kind : {"settings"}, payload : Patch] \cup
    [kind : {"create"}, payload : Input] \cup
    [kind : {"update"}, payload : Input]

Arrives(b, r, body) ==
    /\ Free(r)
    /\ Admitted(b)
    /\ request' = [request EXCEPT ![r] =
            [kind |-> body.kind, browser |-> b, payload |-> body.payload]]
    /\ UNCHANGED <<now, sessions, minted, attempts, cookie, refused, restarts, surfaceVars>>

AnswerTo(r) ==
    /\ Answered(r)
    /\ UNCHANGED <<now, sessions, minted, attempts, cookie, refused, restarts>>

\* PUT /v1/operator/settings
PutSettings(r) ==
    /\ request[r].kind = "settings"
    /\ settings' = Applied(settings, request[r].payload, CeilingNow)
    /\ log' = NoteChanges(log, settings, settings')
    /\ AnswerTo(r)
    /\ UNCHANGED <<boot, paused, disabledAt, drafts>>

\* POST /v1/operator/cohorts: absent fields take this service's defaults, once.
CreateDraft(r) ==
    LET input == WithServiceDefaults(request[r].payload, settings)
        d == CHOOSE e \in 1 .. MaxDrafts : e \notin DOMAIN drafts
    IN  /\ request[r].kind = "create"
        /\ DOMAIN drafts # 1 .. MaxDrafts
        /\ drafts' = IF DraftAcceptable(input, boot.autoFallback, boot.ttl)
                       THEN [e \in DOMAIN drafts \cup {d} |->
                               IF e = d THEN DraftOf(input, settings) ELSE drafts[e]]
                       ELSE drafts
        /\ AnswerTo(r)
        /\ UNCHANGED <<boot, settings, paused, disabledAt, log>>

\* PATCH /v1/operator/cohorts/:id: the body as it is, the same rules.
UpdateDraft(r, d) ==
    LET input == request[r].payload
    IN  /\ request[r].kind = "update"
        /\ drafts' = IF d \in DOMAIN drafts
                        /\ DraftAcceptable(input, boot.autoFallback, boot.ttl)
                       THEN [drafts EXCEPT ![d] = DraftOf(input, settings)]
                       ELSE drafts
        /\ AnswerTo(r)
        /\ UNCHANGED <<boot, settings, paused, disabledAt, log>>

\* The process comes back with the environment it had.
Restart ==
    /\ RestartAuth
    /\ settings' = Seeded(boot)
    /\ paused' = FALSE
    /\ disabledAt' = None
    /\ drafts' = [d \in {} |-> None]
    /\ log' = <<>>
    /\ UNCHANGED boot

Controls(b) ==
    Denied(b) \/ Pause(b) \/ Resume(b) \/ DisableBroadcast(b)
    \/ \E d \in DOMAIN drafts : DiscardDraft(b, d)

BodyRoutes ==
    \/ \E b \in Browser, r \in Slot, body \in Bodies : Arrives(b, r, body)
    \/ \E r \in Slot : PutSettings(r) \/ CreateDraft(r)
    \/ \E r \in Slot, d \in 1 .. MaxDrafts : UpdateDraft(r, d)

Next ==
    \/ AuthNext /\ UNCHANGED surfaceVars
    \/ \E b \in Browser : Controls(b)
    \/ BodyRoutes
    \/ Restart

Spec == Init /\ [][Next]_vars

-----------------------------------------------------------------------------
(* Properties *)

EmptyInput == [beaconType |-> Unset, size |-> Unset, threshold |-> Unset,
               discovery |-> Unset, funding |-> Unset]

\* What the holder serves can be sent back to it: the console validates and posts
\* its whole form, so one value it cannot express or the holder would refuse
\* blocks every other edit; an untouched save is accepted and changes nothing
\* (runtime-settings.ts:681-808, cohort-form.ts:52-66).
UntouchedSave ==
    LET form == UntouchedForm(settings, boot.broadcasts)
    IN  /\ FormValid(form)
        /\ Applied(settings, form, CeilingNow) = settings
        /\ Acceptable(Overlay(settings, form), CeilingNow)

\* The defaults make a cohort: an empty create body is never refused for values
\* the operator did not give, unless this service turned the stall fallback off
\* and a default needs it (operator-cohorts.ts:1138-1150).
DefaultsCreate ==
    boot.autoFallback =>
        DraftAcceptable(WithServiceDefaults(EmptyInput, settings), TRUE, boot.ttl)

Enforceable(ms) == ms = Unset \/ boot.ttl = Unset \/ ms <= boot.ttl

\* No draft carries a discovery window this service's TTL would overrule, its own
\* or the default it took, at a service whose TTL is a minute or more
\* (operator-cohorts.ts:697-726).
DraftWindowsEnforceable ==
    (boot.ttl # Unset /\ boot.ttl >= Minute) =>
        \A d \in DOMAIN drafts : Enforceable(EffectiveDiscovery(drafts[d]))

\* What the holder serves works, through whatever seeds, saves and restarts it
\* came: it can be saved again, it makes a cohort, and no draft promises a window
\* the service would not keep (the three parts above).
SettingsServable == UntouchedSave /\ DefaultsCreate /\ DraftWindowsEnforceable

Last(l) == l[Len(l)]

\* Settings move by whole patches, and every change is told: whatever two
\* operators have in flight, a save that is refused leaves every field as it was,
\* one that is accepted is the last thing in the log, and so is a pause or a resume
\* that changed anything (runtime-settings.ts:989-1062, hono-adapter.ts:150-198,
\* 846-873).
WholePatchesLogged ==
    [][restarts' = restarts =>
          /\ settings' # settings =>
                /\ \E r \in Slot : /\ request[r].kind = "settings"
                                  /\ settings' = Overlay(settings, request[r].payload)
                /\ settings'[Last(log')] # settings[Last(log')]
          /\ paused' # paused => Last(log') = IF paused' THEN "paused" ELSE "resumed"]_vars

================================================================================
