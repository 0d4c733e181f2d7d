----------------------------- MODULE MCJsonlLog -----------------------------
(* A small instance of JsonlLog; records carry their order, so no symmetry. *)
EXTENDS JsonlLog
=============================================================================
