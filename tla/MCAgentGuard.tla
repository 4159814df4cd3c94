---------------------------- MODULE MCAgentGuard ----------------------------
(* Small instances of AgentGuard. *)
EXTENDS AgentGuard, TLC
=============================================================================
