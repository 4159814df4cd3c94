---------------------------- MODULE MCAgentEvents ---------------------------
(* Small instances of AgentEvents: one or two producers, a buffer they do or *)
(* do not fill.                                                              *)
EXTENDS AgentEvents
=============================================================================
