-------------------------- MODULE MCToolScheduler ---------------------------
(* A small instance of ToolScheduler: more calls than the pool has places. *)
EXTENDS ToolScheduler
=============================================================================
