---------------------------- MODULE MCGoalRounds -----------------------------
(* A goal of few rounds, a few commands and prompts. *)
EXTENDS GoalRounds
=============================================================================
