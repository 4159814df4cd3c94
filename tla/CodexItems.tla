----------------------------- MODULE CodexItems -----------------------------
(***************************************************************************)
(* The items of one turn of a Codex app-server: agent messages, reasoning, *)
(* plans and tool calls, streamed by deltas and then completed, possibly   *)
(* listed again when the turn completes.  One thread reads them all, so a  *)
(* step is a notification and everything its handler does.                 *)
(*                                                                         *)
(* A text is a sequence of pieces, one per delta, numbered from 1.  Where  *)
(* codexAppServerShouldFlushText breaks a text is left open.  The texts of *)
(* two items, and two parts of one, are different: the bridge drops a text *)
(* equal to the one it has just pushed.                                    *)
(***************************************************************************)
EXTENDS Naturals, Sequences

CONSTANTS
  AgentMessages,  \* items of type agentMessage
  Reasonings,     \* items of type reasoning
  Plans,          \* items of type plan
  Tools,          \* commandExecution, mcpToolCall, dynamicToolCall, fileChange, webSearch
  Pieces          \* how many deltas an item may have

Items == AgentMessages \cup Reasonings \cup Plans \cup Tools
Phases == {"final_answer", "commentary", "unset"}

ASSUME ItemAssumption ==
  /\ Pieces \in Nat
  /\ AgentMessages \cap (Reasonings \cup Plans \cup Tools) = {}
  /\ Reasonings \cap (Plans \cup Tools) = {} /\ Plans \cap Tools = {}

VARIABLES
  phaseOf,     \* the phase the agent gives an item
  written,     \* pieces written by the agent
  recorded,    \* entry.codexAppServerItems
  stored,      \* entry.codexAppServerDeltaText
  pending,     \* entry.codexAppServerDeltaPending or ...ReasoningSummaryPending
  streamed,    \* entry.codexAppServerStreamedItems
  completed,   \* entry.codexAppServerCompletedItems
  lastAnswer,  \* entry.lastCodexAnswerChunk
  lastProgress,\* entry.lastCodexProgressMessage
  shown,       \* the pieces shown: as chunks, or where there are none as a message
  told,        \* the pieces of a message shown by progress/message events
  updates,     \* the tool/update, plan/update and reasoning/chunk events of an item
  listed       \* the items turn/completed still lists, or none before it

itemVars == <<phaseOf, written, recorded, stored, pending, streamed, completed,
              lastAnswer, lastProgress, shown, told, updates, listed>>

NoText == [item |-> "none", text |-> <<>>]
NotOver == [over |-> FALSE, left |-> {}]

ItemInit ==
  /\ phaseOf \in [AgentMessages -> Phases]
  /\ written = [i \in Items |-> 0]
  /\ recorded = {} /\ streamed = {} /\ completed = {}
  /\ stored = [i \in Items |-> <<>>]
  /\ pending = [i \in Items |-> <<>>]
  /\ lastAnswer = NoText /\ lastProgress = NoText
  /\ shown = [i \in Items |-> <<>>] /\ told = [i \in AgentMessages |-> <<>>]
  /\ updates = [i \in Items |-> 0]
  /\ listed = NotOver

\* fault: what has been flushed stays pending
FlushKeeping(i, force) ==
  IF pending[i] # <<>> /\ force
  THEN /\ shown' = [shown EXCEPT ![i] = @ \o pending[i]]
       /\ streamed' = streamed \cup {i}
       /\ UNCHANGED pending
  ELSE UNCHANGED <<pending, shown, streamed>>

\* codexAppServerFlushPendingAgentMessage; a summary is not marked as streamed
Flush(i, force) ==
  IF pending[i] # <<>> /\ force
  THEN /\ pending' = [pending EXCEPT ![i] = <<>>]
       /\ shown' = [shown EXCEPT ![i] = @ \o pending[i]]
       /\ streamed' = IF i \in AgentMessages THEN streamed \cup {i} ELSE streamed
  ELSE UNCHANGED <<pending, shown, streamed>>

\* pushCodexProgress, if the text is pushed at all: what it pushed last is not
\* pushed again
Tell(i, text, pushed) ==
  LET news == [item |-> i, text |-> text]
  IN /\ lastProgress' = IF pushed THEN news ELSE lastProgress
     /\ told' = IF pushed /\ lastProgress # news THEN [told EXCEPT ![i] = @ \o text] ELSE told

\* a final answer is pushed twice, as a chunk and as a progress message
FlushMessage(i, force) ==
  /\ Flush(i, force)
  /\ Tell(i, pending[i], pending[i] # <<>> /\ force /\ phaseOf[i] = "final_answer")

\* item/started of a message: what came before its phase was known is flushed
StartMessage(i) ==
  /\ i \in AgentMessages \ recorded /\ ~listed.over
  /\ recorded' = recorded \cup {i}
  /\ \E breaks \in BOOLEAN :
       FlushMessage(i, \/ phaseOf[i] = "final_answer"
                       \/ phaseOf[i] = "commentary" /\ breaks)
  /\ UNCHANGED <<phaseOf, written, stored, completed, lastAnswer, updates, listed>>

\* item/started of another item: tools and texts known already are reported
StartOther(i) ==
  /\ i \in Items \ (AgentMessages \cup recorded) /\ ~listed.over
  /\ recorded' = recorded \cup {i}
  /\ updates' = [updates EXCEPT ![i] = IF i \in Tools \/ stored[i] # <<>> THEN @ + 1 ELSE @]
  /\ UNCHANGED <<phaseOf, written, stored, pending, streamed, completed,
                 lastAnswer, lastProgress, shown, told, listed>>

Write(i) ==
  /\ i \notin Tools \cup completed /\ ~listed.over /\ written[i] < Pieces
  /\ written' = [written EXCEPT ![i] = @ + 1]
  /\ stored' = [stored EXCEPT ![i] = Append(@, written'[i])]

\* what is pending of a text with the piece just written: all of it is shown
\* where the text breaks
Join(i, breaks) ==
  LET whole == Append(pending[i], written'[i])
  IN /\ pending' = [pending EXCEPT ![i] = IF breaks THEN <<>> ELSE whole]
     /\ shown' = [shown EXCEPT ![i] = IF breaks THEN @ \o whole ELSE @]
     /\ streamed' = IF breaks /\ i \in AgentMessages THEN streamed \cup {i} ELSE streamed
     /\ Tell(i, whole, breaks /\ i \in AgentMessages /\ phaseOf[i] = "final_answer")

\* item/agentMessage/delta, and the summary deltas of a reasoning: appended,
\* then flushed where the text breaks if the phase is known
TextDelta(i) ==
  /\ i \in AgentMessages \cup Reasonings
  /\ Write(i)
  /\ \E breaks \in BOOLEAN :
       /\ breaks /\ i \in AgentMessages => i \in recorded /\ phaseOf[i] # "unset"
       /\ Join(i, breaks)
  /\ UNCHANGED <<phaseOf, recorded, completed, lastAnswer, updates, listed>>

\* item/plan/delta: a plan is stored and shown whole
PlanDelta(i) ==
  /\ i \in Plans
  /\ Write(i)
  /\ pending' = [pending EXCEPT ![i] = Append(@, written'[i])]
  /\ UNCHANGED <<phaseOf, recorded, streamed, completed, lastAnswer, lastProgress,
                 shown, told, updates, listed>>

\* fault: an item completed twice is handled twice
HandledAgain(i) == FALSE

\* codexAppServerHandleItem returns at once for an item completed before
Handled(i) == i \in completed

CompleteMessage(i) ==
  LET text == [item |-> i, text |-> stored[i]]  \* also what the item carries
  IN IF i \in streamed
     THEN FlushMessage(i, TRUE) /\ UNCHANGED lastAnswer
     ELSE /\ UNCHANGED <<pending, streamed>>
          /\ IF stored[i] = <<>>
             THEN UNCHANGED <<shown, told, lastAnswer, lastProgress>>
             ELSE IF phaseOf[i] = "commentary"
             THEN /\ shown' = IF lastProgress = text THEN shown
                              ELSE [shown EXCEPT ![i] = @ \o stored[i]]
                  /\ Tell(i, stored[i], TRUE)
                  /\ UNCHANGED lastAnswer
             ELSE /\ shown' = IF lastAnswer = text THEN shown
                              ELSE [shown EXCEPT ![i] = @ \o stored[i]]
                  /\ lastAnswer' = text
                  /\ UNCHANGED <<lastProgress, told>>

CompleteReasoning(i) ==
  /\ Flush(i, TRUE)
  /\ updates' = [updates EXCEPT ![i] = IF stored[i] # <<>> THEN @ + 1 ELSE @]
  /\ UNCHANGED <<lastAnswer, lastProgress, told>>

CompleteOther(i) ==
  /\ updates' = [updates EXCEPT ![i] = IF i \in Tools \/ stored[i] # <<>> THEN @ + 1 ELSE @]
  /\ UNCHANGED <<pending, shown, told, streamed, lastAnswer, lastProgress>>

\* codexAppServerHandleItem, completed
HandleCompleted(i) ==
  /\ recorded' = recorded \cup {i}
  /\ IF Handled(i)
     THEN UNCHANGED <<pending, shown, told, streamed, completed, lastAnswer, lastProgress, updates>>
     ELSE /\ completed' = completed \cup {i}
          /\ \/ i \in AgentMessages /\ CompleteMessage(i) /\ UNCHANGED updates
             \/ i \in Reasonings /\ CompleteReasoning(i)
             \/ i \in Plans \cup Tools /\ CompleteOther(i)
  /\ UNCHANGED <<phaseOf, written, stored>>

\* item/completed
CompleteItem(i) ==
  /\ ~listed.over /\ i \notin completed
  /\ HandleCompleted(i)
  /\ UNCHANGED listed

\* turn/completed, which may list the items of the turn again
CompleteTurn ==
  /\ ~listed.over
  /\ listed' \in [over : {TRUE}, left : {{}, {i \in Items : i \in recorded \/ written[i] > 0}}]
  /\ UNCHANGED <<phaseOf, written, recorded, stored, pending, streamed, completed,
                 lastAnswer, lastProgress, shown, told, updates>>

ListItem(i) ==
  /\ i \in listed.left
  /\ HandleCompleted(i)
  /\ listed' = [listed EXCEPT !.left = @ \ {i}]

ItemNext ==
  \/ \E i \in Items : \/ StartMessage(i) \/ StartOther(i) \/ TextDelta(i)
                      \/ PlanDelta(i) \/ CompleteItem(i) \/ ListItem(i)
  \/ CompleteTurn

ItemSpec == ItemInit /\ [][ItemNext]_itemVars

-----------------------------------------------------------------------------
Streamed == AgentMessages \cup Reasonings

Delivery == INSTANCE TextDelivery
  WITH Texts <- Streamed,
       written <- [i \in Streamed |-> written[i]],
       shown <- [i \in Streamed |-> shown[i]],
       closed <- completed \cap Streamed

\* The stream of a turn shows every message and every reasoning summary as
\* TextDelivery promises: in order, once, and whole when it is completed,
\* whether its phase came first, late or never, and however often it is listed.
ItemsAreDelivered == Delivery!DeliverySpec

\* A tool call has one start and one end, whatever is listed again.
ToolEndsOnce == \A i \in Tools : updates[i] <= 2

\* A final answer that is streamed is told in progress messages as well, piece by
\* piece as it is shown; a commentary is told only when none of it was streamed, and
\* then it is shown by that message alone.
TextsAreTold ==
  \A i \in AgentMessages :
    told[i] = IF \/ phaseOf[i] = "final_answer" /\ i \in streamed
                 \/ phaseOf[i] = "commentary" /\ i \notin streamed
              THEN shown[i] ELSE <<>>

\* The client is shown a turn as it was: its texts once and whole, and told no other
\* way than they are shown, its tools with one end.
TurnIsShown == ItemsAreDelivered /\ []TextsAreTold /\ []ToolEndsOnce
=============================================================================
