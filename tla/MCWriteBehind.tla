---------------------------- MODULE MCWriteBehind ----------------------------
(* A small instance of WriteBehind; liveness is checked, so no symmetry. *)
EXTENDS WriteBehind
=============================================================================
