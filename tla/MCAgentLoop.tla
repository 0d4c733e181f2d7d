----------------------------- MODULE MCAgentLoop -----------------------------
(* A small instance of AgentLoop; liveness is checked, so no symmetry. *)
EXTENDS AgentLoop
=============================================================================
