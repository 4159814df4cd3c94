---------------------------- MODULE MCAgentTurns ----------------------------
(* Small instances of AgentTurns. *)
EXTENDS AgentTurns
=============================================================================
