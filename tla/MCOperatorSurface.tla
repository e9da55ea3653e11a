--------------------------- MODULE MCOperatorSurface ---------------------------
(***************************************************************************)
(* One operator's browser, two requests in flight, a minute of two ticks   *)
(* and settings that meet every limit from both sides.                     *)
(***************************************************************************)
EXTENDS OperatorSurface

CONSTANTS b1, a1

MCAddressOf == [b \in Browser |-> a1]
MCKnown == {"CASBeacon", "SMTBeacon"}

Plain == [serviceName |-> 1, beaconType |-> "CASBeacon", size |-> 2, threshold |-> Unset,
          discovery |-> Unset, funding |-> 5, termsText |-> 2, ttl |-> 7,
          autoFallback |-> TRUE, broadcasts |-> TRUE]

\* Seeds the holder takes as they come, clamps, floors, drops or replaces.
MCOption ==
    {Plain,
     [Plain EXCEPT !.serviceName = 4, !.termsText = 4, !.size = 0, !.threshold = 3],
     [Plain EXCEPT !.discovery = 9, !.beaconType = "other", !.size = Malformed,
                   !.broadcasts = FALSE, !.termsText = 0],
     [Plain EXCEPT !.discovery = 3, !.funding = 1, !.size = 3, !.threshold = 2,
                   !.autoFallback = FALSE, !.ttl = Unset]}

MCPatch ==
    {[serviceName |-> 3, size |-> 3, threshold |-> 2, discovery |-> 6],
     [serviceName |-> 0, discovery |-> 8, size |-> 1]}

MCInput ==
    {EmptyInput, [EmptyInput EXCEPT !.size = 3, !.threshold = 2, !.discovery = 8]}

================================================================================
