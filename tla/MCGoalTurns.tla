----------------------------- MODULE MCGoalTurns -----------------------------
(* Overlapping turns of one user in one session; the constants are small     *)
(* numbers that the configurations give.                                     *)
EXTENDS GoalTurns
=============================================================================
