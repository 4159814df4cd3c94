---------------------------- MODULE TextDelivery ----------------------------
(***************************************************************************)
(* What a provider's stream promises for each text its agent writes: the   *)
(* client is shown the pieces of the text in their order, each of them     *)
(* once, and all of them by the time the text is closed.                   *)
(***************************************************************************)
EXTENDS Naturals, Sequences

CONSTANT Texts

VARIABLES
  written,   \* the number of pieces the agent has written of each text
  shown,     \* the pieces the client has been shown
  closed     \* the texts that will not change any more

UpTo(n) == [k \in 1..n |-> k]

DeliveryInit ==
  /\ written = [t \in Texts |-> 0]
  /\ shown = [t \in Texts |-> <<>>]
  /\ closed = {}

Delivered(t) ==
  \/ /\ t \notin closed
     /\ written'[t] >= written[t]
     /\ \E n \in Len(shown[t])..written'[t] : shown'[t] = UpTo(n)
     /\ t \in closed' => shown'[t] = UpTo(written'[t])
  \/ written'[t] = written[t] /\ shown'[t] = shown[t] /\ (t \in closed <=> t \in closed')

DeliveryNext == \A t \in Texts : Delivered(t)

DeliverySpec == DeliveryInit /\ [][DeliveryNext]_<<written, shown, closed>>
=============================================================================
