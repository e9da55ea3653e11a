---------------------------- MODULE RuntimeSettings ----------------------------
(***************************************************************************)
(* The runtime settings holder (runtime-settings.ts): the boot seeds it    *)
(* resolves, the patch the gated PUT applies, and the two readers of its   *)
(* values - the create form's defaults (operator-cohorts.ts) and the       *)
(* console's settings form (SettingsView.tsx, cohort-form.ts).             *)
(*                                                                         *)
(* A text is known by the length of its trimmed form.  A window is a       *)
(* number of milliseconds, Minute of them to the minute.                   *)
(***************************************************************************)
EXTENDS Integers

CONSTANTS
    Unset,       \* undefined, null, or an environment variable that is not set
    Malformed,   \* not a number, or not an integer where one is required
    Minute,      \* ONE_MINUTE_MS (60000 in the code)
    MaxServiceNameChars,
    MaxTermsChars,
    KnownBeaconTypes,
    BuiltInBeaconType

ASSUME MinuteAssumption == Minute \in Nat \ {0}
ASSUME LengthAssumption == MaxServiceNameChars \in Nat /\ MaxTermsChars \in Nat
ASSUME BeaconAssumption == BuiltInBeaconType \in KnownBeaconTypes
ASSUME NoValueAssumption ==
    /\ {Unset, Malformed} \cap Int = {}
    /\ Unset # Malformed
    /\ Unset \notin KnownBeaconTypes

BuiltInSize == 2

Optional(S) == S \cup {Unset}
Raw == Int \cup {Unset, Malformed}

TextField == {"serviceName", "termsText"}
NumberField == {"size", "threshold", "discovery", "funding"}
SettingField == TextField \cup NumberField \cup {"beaconType"}

\* What the fields of a seed, of a patch or of a draft's body may hold.
Shaped(body) ==
    \A f \in DOMAIN body :
        /\ f \in TextField => body[f] \in Optional(Nat)
        /\ f \in NumberField => body[f] \in Raw

\* What the holder stores; RuntimeSettingsSeed and SettingsPatch have its fields.
Settings == [serviceName : Optional(Nat), beaconType : KnownBeaconTypes,
             size : Nat, threshold : Nat,
             discovery : Optional(Nat), funding : Optional(Nat),
             termsText : Optional(Nat)]

-----------------------------------------------------------------------------
(* The boot *)

\* numericKnob: a value that is absent, malformed or below the minimum gives way.
NumericKnob(raw, fallback, minimum) ==
    IF raw \in {Unset, Malformed} THEN fallback
    ELSE IF raw < minimum THEN fallback ELSE raw

\* trimToUndefined
Trimmed(text) == IF text = 0 THEN Unset ELSE text

TooLong(text, maximum) == text # Unset /\ text > maximum

\* textKnob: an over-long text is dropped, never cut.
TextKnob(raw, maximum) ==
    IF TooLong(Trimmed(raw), maximum) THEN Unset ELSE Trimmed(raw)

WholeMinutesAtOrBelow(ms) ==
    IF ms = Unset THEN Unset ELSE (ms \div Minute) * Minute

\* The largest discovery window this service can enforce: its cohort TTL.
Ceiling(seed) == WholeMinutesAtOrBelow(NumericKnob(seed.ttl, Unset, Minute))

Above(ms, ceiling) == ms # Unset /\ ceiling # Unset /\ ms > ceiling

SeededDiscovery(seed) ==
    LET floored == WholeMinutesAtOrBelow(NumericKnob(seed.discovery, Unset, Minute))
    IN  IF Above(floored, Ceiling(seed)) THEN Ceiling(seed) ELSE floored

SeededThreshold(seed, size) ==
    LET k == NumericKnob(seed.threshold, size, 1) IN IF k > size THEN size ELSE k

\* createRuntimeSettings: what every field holds when the service has booted.
Seeded(seed) ==
    LET size == NumericKnob(seed.size, BuiltInSize, 1)
    IN  [serviceName |-> TextKnob(seed.serviceName, MaxServiceNameChars),
         beaconType  |-> IF seed.beaconType \in KnownBeaconTypes
                           THEN seed.beaconType ELSE BuiltInBeaconType,
         size        |-> size,
         threshold   |-> SeededThreshold(seed, size),
         discovery   |-> SeededDiscovery(seed),
         funding     |-> WholeMinutesAtOrBelow(NumericKnob(seed.funding, Unset, Minute)),
         termsText   |-> TextKnob(seed.termsText, MaxTermsChars)]

\* droppedSeeds
DroppedSeeds(seed) ==
    {f \in {"serviceName", "termsText"} :
        TooLong(Trimmed(seed[f]), IF f = "serviceName" THEN MaxServiceNameChars
                                                       ELSE MaxTermsChars)}

-----------------------------------------------------------------------------
(* applySettings *)

\* The set as it would stand: a field the patch lacks keeps its value, and so
\* does a beacon type, a size or a threshold the patch names as null.
Overlay(held, patch) ==
    LET named(f) == f \in DOMAIN patch
        kept(f) == IF named(f) /\ patch[f] # Unset THEN patch[f] ELSE held[f]
        text(f) == IF named(f) THEN Trimmed(patch[f]) ELSE held[f]
        window(f) == IF named(f) THEN patch[f] ELSE held[f]
    IN  [serviceName |-> text("serviceName"),
         beaconType  |-> kept("beaconType"),
         size        |-> kept("size"),
         threshold   |-> kept("threshold"),
         discovery   |-> window("discovery"),
         funding     |-> window("funding"),
         termsText   |-> text("termsText")]

Positive(n) == n # Malformed /\ n >= 1

\* validateWindow
WindowOk(ms) == ms = Unset \/ (Positive(ms) /\ ms >= Minute /\ ms % Minute = 0)

Acceptable_PairUnchecked(next, ceiling) ==   \* mutant: k against the size it came with
    /\ ~TooLong(next.serviceName, MaxServiceNameChars)
    /\ next.beaconType \in KnownBeaconTypes
    /\ Positive(next.size) /\ Positive(next.threshold)
    /\ WindowOk(next.discovery) /\ ~Above(next.discovery, ceiling)
    /\ WindowOk(next.funding)
    /\ ~TooLong(next.termsText, MaxTermsChars)

\* Every rule, on the whole set, before anything is assigned.
Acceptable(next, ceiling) ==
    /\ ~TooLong(next.serviceName, MaxServiceNameChars)
    /\ next.beaconType \in KnownBeaconTypes
    /\ Positive(next.size)
    /\ Positive(next.threshold) /\ next.threshold <= next.size
    /\ WindowOk(next.discovery) /\ ~Above(next.discovery, ceiling)
    /\ WindowOk(next.funding)
    /\ ~TooLong(next.termsText, MaxTermsChars)

Applied_NameFirst(held, patch, ceiling) ==   \* mutant: assigned before the rest is checked
    IF Acceptable(Overlay(held, patch), ceiling) THEN Overlay(held, patch)
    ELSE [held EXCEPT !.serviceName = Overlay(held, patch).serviceName]

\* applySettings: one refused field refuses the patch.
Applied(held, patch, ceiling) ==
    IF Acceptable(Overlay(held, patch), ceiling) THEN Overlay(held, patch) ELSE held

-----------------------------------------------------------------------------
(* The create form: the defaults a draft takes *)

\* withServiceDefaults: n and k are taken as a pair.
WithServiceDefaults(input, held) ==
    [input EXCEPT
        !.beaconType = IF @ = Unset THEN held.beaconType ELSE @,
        !.size       = IF @ = Unset THEN held.size ELSE @,
        !.threshold  = IF @ = Unset /\ input.size = Unset THEN held.threshold ELSE @]

\* k defaults to n.
KOf(input) == IF input.threshold = Unset THEN input.size ELSE input.threshold

ExplicitWindowOk(ms) == ms = Unset \/ (Positive(ms) /\ ms >= Minute)

\* validateDraft
DraftAcceptable(input, autoFallback, ttl) ==
    /\ input.beaconType \in KnownBeaconTypes
    /\ input.size # Unset /\ Positive(input.size)
    /\ Positive(KOf(input)) /\ KOf(input) <= input.size
    /\ KOf(input) < input.size => autoFallback
    /\ ExplicitWindowOk(input.discovery)
    /\ ExplicitWindowOk(input.funding)
    /\ ~Above(input.discovery, ttl)

\* createDraft and updateDraft: the shape, and the defaults as they stand now.
DraftOf(input, held) ==
    [beaconType |-> input.beaconType, size |-> input.size, threshold |-> KOf(input),
     discovery |-> input.discovery, funding |-> input.funding,
     defaults |-> [discovery |-> held.discovery, funding |-> held.funding]]

\* effectiveWindows: the draft's own window, or the default it captured.
EffectiveDiscovery(draft) ==
    IF draft.discovery # Unset THEN draft.discovery ELSE draft.defaults.discovery

-----------------------------------------------------------------------------
(* The console's settings form *)

\* parseWindow after msToMinutesText: a whole number of minutes comes back as it
\* was, an empty field stays empty, anything else is refused by the form.
ThroughTheForm(ms) ==
    IF ms = Unset THEN Unset
    ELSE IF ms >= Minute /\ ms % Minute = 0 THEN ms ELSE Malformed

\* formFromSnapshot then settingsPatch, with nothing edited; a service that does
\* not broadcast has no funding field.
UntouchedForm(held, broadcasts) ==
    [f \in {"serviceName", "beaconType", "size", "threshold", "discovery", "termsText"}
           \cup (IF broadcasts THEN {"funding"} ELSE {}) |->
        CASE f \in {"serviceName", "termsText"} -> IF held[f] = Unset THEN 0 ELSE held[f]
          [] f \in {"discovery", "funding"} -> ThroughTheForm(held[f])
          [] OTHER -> held[f]]

\* validateCohortForm: the form's own check, which runs before it posts.
FormValid(patch) ==
    /\ Positive(patch.size)
    /\ Positive(patch.threshold) /\ patch.threshold <= patch.size
    /\ patch.discovery # Malformed
    /\ "funding" \in DOMAIN patch => patch.funding # Malformed
================================================================================
