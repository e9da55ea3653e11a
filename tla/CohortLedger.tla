---- MODULE CohortLedger ----
(***************************************************************************)
(* What the operator's cohort book promises, with the event loop, the      *)
(* library and the transport left out: every cohort is opened once and     *)
(* closed once; closing one files its fate in the same step, unless it     *)
(* completed; a filed fate stays until the operator forgets or reopens the *)
(* cohort, or the book is full; and the public is told of a canceled       *)
(* cohort for as long as its fate is filed and after it was forgotten,     *)
(* within the same capacity.                                               *)
(***************************************************************************)
EXTENDS Naturals, FiniteSets

CONSTANTS Cohort, Capacity

VARIABLES
    state,   \* what the book says of each cohort
    told     \* forgotten cohorts the public is still told were canceled

States == {"unknown", "live", "completed", "expired", "canceled", "gone"}

Filed == {c \in Cohort : state[c] \in {"expired", "canceled"}}

Open(c) ==
    /\ state[c] = "unknown"
    /\ state' = [state EXCEPT ![c] = "live"]
    /\ UNCHANGED told

Complete(c) ==
    /\ state[c] = "live"
    /\ state' = [state EXCEPT ![c] = "completed"]
    /\ UNCHANGED told

\* Closing a cohort files its fate; a full book gives up one other.
File(c, fate) ==
    /\ state[c] = "live"
    /\ \/ /\ Cardinality(Filed) < Capacity
          /\ state' = [state EXCEPT ![c] = fate]
       \/ /\ Cardinality(Filed) = Capacity
          /\ \E d \in Filed :
                state' = [state EXCEPT ![c] = fate, ![d] = "gone"]
    /\ UNCHANGED told

Forget(c) ==
    /\ c \in Filed
    /\ state' = [state EXCEPT ![c] = "gone"]
    /\ \/ state[c] = "expired" /\ UNCHANGED told
       \/ /\ state[c] = "canceled"
          /\ \/ Cardinality(told) < Capacity /\ told' = told \cup {c}
             \/ /\ Cardinality(told) = Capacity
                /\ \E d \in told : told' = (told \ {d}) \cup {c}

Reopen(c, new) ==
    /\ c \in Filed
    /\ state[new] = "unknown"
    /\ state' = [state EXCEPT ![c] = "gone", ![new] = "live"]
    /\ UNCHANGED told

Init ==
    /\ state = [c \in Cohort |-> "unknown"]
    /\ told = {}

Next ==
    \E c \in Cohort :
        \/ Open(c)
        \/ Complete(c)
        \/ \E fate \in {"expired", "canceled"} : File(c, fate)
        \/ Forget(c)
        \/ \E new \in Cohort : Reopen(c, new)

Spec == Init /\ [][Next]_<<state, told>>
====
