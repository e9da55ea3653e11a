---- MODULE AnchorState ----
(***************************************************************************)
(* The retained answer to "where is this cohort's beacon transaction?"     *)
(* (packages/service/src/anchor-state.ts): one bounded map folded from the *)
(* three frames of the broadcaster and served, without credentials, to     *)
(* participants.  Transaction ids, explorer links and reasons are left out.*)
(***************************************************************************)
EXTENDS BoundedMap

CONSTANT MaxTerminal   \* MAX_TERMINAL (24 in the code), the monitor's too

ASSUME TerminalAssumption == MaxTerminal \in Nat \ {0}

VARIABLE anchors   \* entries of createAnchorState

\* The listeners of beacon-broadcast, beacon-anchored, beacon-broadcast-failed.
RememberAnchor(c, state) ==
    anchors' = Remember(anchors, [id |-> c, state |-> state], MaxTerminal)

\* An unconfirmed beacon-anchored frame stays at "broadcast".
AnchoredState(confirmed) == IF confirmed THEN "confirmed" ELSE "broadcast"

\* read().state
AnchorRead(c) == IF c \in Keys(anchors) THEN Lookup(anchors, c).state ELSE "none"
====
