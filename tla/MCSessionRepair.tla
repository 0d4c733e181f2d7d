-------------------------- MODULE MCSessionRepair ---------------------------
(* A small instance of SessionRepair: two interchangeable tool calls. *)
EXTENDS SessionRepair, TLC

Symmetry == Permutations(Call)
=============================================================================
