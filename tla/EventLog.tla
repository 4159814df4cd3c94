------------------------------ MODULE EventLog ------------------------------
(***************************************************************************)
(* What agent_events promises a client that calls it back with the cursor  *)
(* it returns (docs/bridge-contract.md:207-213): the events of a process   *)
(* form one log, and each answer carries the next events of that log.      *)
(***************************************************************************)
EXTENDS Naturals, Sequences

VARIABLES
  log,              \* the events reported, oldest first
  received          \* the events the client has received, in that order

Init == log = <<>> /\ received = <<>>

\* a new event comes last, with an index above every earlier one
Report ==
  /\ Len(log') = Len(log) + 1
  /\ \A k \in DOMAIN log : log'[k] = log[k] /\ log[k].index < log'[Len(log')].index
  /\ UNCHANGED received

Answer ==
  /\ \E n \in Len(received)..Len(log) : received' = SubSeq(log, 1, n)
  /\ UNCHANGED log

Next == Report \/ Answer

Spec == Init /\ [][Next]_<<log, received>>
=============================================================================
