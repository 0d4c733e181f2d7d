---------------------------- MODULE MCJobRegistry ----------------------------
(* Two jobs of one agent and two callers that wait for either. *)
EXTENDS JobRegistry

CONSTANTS first, second, agent, nobody

MCOwnerOf == [j \in {first, second} |-> agent]
=============================================================================
