--------------------------- MODULE MCAgentRegistry --------------------------
(* Small instances of AgentRegistry.  Entries are interchangeable, and so    *)
(* are handles and the threads other than the reaper.                        *)
EXTENDS AgentRegistry, TLC

ThreadSymmetry == Permutations(Threads)
Symmetry == Permutations(Handles) \cup Permutations(Entries)
=============================================================================
