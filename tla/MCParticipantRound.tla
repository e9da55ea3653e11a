-------------------------- MODULE MCParticipantRound ---------------------------
(***************************************************************************)
(* Two identities and two cohorts, joined one after the other in one tab.   *)
(***************************************************************************)
EXTENDS ParticipantRound, TLC

CONSTANTS d1, d2, c1, c2

MCSymmetry == Permutations(Did) \cup Permutations(Cohort)

================================================================================
