--------------------------- MODULE MCOperatorConsole ---------------------------
(***************************************************************************)
(* Two cohorts and a few requests of one browser, over sessions that start, *)
(* end and start again.                                                    *)
(***************************************************************************)
EXTENDS OperatorConsole, TLC

CONSTANTS c1, c2, q1, q2

MCSymmetry == Permutations(Cohort) \cup Permutations(Flight)

================================================================================
