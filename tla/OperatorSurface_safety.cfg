CONSTANTS
    b1 = b1
    a1 = a1
    Browser = {b1}
    Address = {a1}
    AddressOf <- MCAddressOf
    Slot = {1, 2}
    MaxAttempts = 2
    WindowMs = 1
    TtlMs = 1
    Second = 1
    MaxNow = 2
    MaxSessions = 1
    MaxRestarts = 1
    None = None
    Unset = Unset
    Malformed = Malformed
    Minute = 2
    MaxServiceNameChars = 3
    MaxTermsChars = 3
    KnownBeaconTypes <- MCKnown
    BuiltInBeaconType = "CASBeacon"
    Option <- MCOption
    Patch <- MCPatch
    Input <- MCInput
    MaxDrafts = 1
    RingSize = 2
SPECIFICATION Spec
INVARIANTS
    AttemptsBounded
    SettingsServable
PROPERTIES
    RefusalsHold
    WholePatchesLogged
CHECK_DEADLOCK FALSE
