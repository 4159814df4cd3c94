---------------------------- MODULE ClaudeStream ----------------------------
(***************************************************************************)
(* The texts and the tool calls of one turn of Claude Code, streamed as    *)
(* content blocks and repeated in assistant messages.  No block says       *)
(* whether it is a commentary or the answer: a text waits in a narration   *)
(* buffer, a tool call shows what waits as a commentary, and the result of *)
(* the turn gives the last text again, as the answer.  One thread reads    *)
(* them all: a step is a line and everything its handler does.             *)
(*                                                                         *)
(* A block is streamed, then repeated by an assistant message before or    *)
(* after its stop; a message may also come unstreamed, with one block.     *)
(***************************************************************************)
EXTENDS Naturals, Sequences, FiniteSets

CONSTANTS
  TextBlocks,  \* blocks of type text
  Calls,       \* blocks of type tool_use
  Parts        \* how many deltas a text may have

Blocks == TextBlocks \cup Calls

ASSUME BlockAssumption ==
  Parts \in Nat /\ TextBlocks \cap Calls = {} /\ "none" \notin Blocks

VARIABLES
  menu,        \* entry.claudeTurnCommand: is the prompt /compact?
  made,        \* parts of a text written by Claude Code
  open,        \* the block being streamed
  tail,        \* its place: "stream", or "repeat" once stopped and not yet repeated
  begun,       \* blocks begun
  repeated,    \* blocks whose assistant message has been read
  streamState, \* entry.claudeStreamState: the text of each block of the message
  narration,   \* entry.claudePendingNarration: the texts that wait
  toolCalls,   \* entry.claudeToolCalls
  results,     \* tool calls with a tool/update
  view,        \* the parts of each text shown
  due,         \* texts that must have been shown
  last,        \* the last text begun
  over         \* how the turn ended

streamVars == <<menu, made, open, tail, begun, repeated, streamState, narration,
                toolCalls, results, view, due, last, over>>

NoBlock == "none"

StreamInit ==
  /\ menu \in {"", "compact"}
  /\ made = [t \in TextBlocks |-> 0]
  /\ open = NoBlock /\ tail = NoBlock /\ begun = {} /\ repeated = {}
  /\ streamState = {} /\ narration = <<>>
  /\ toolCalls = {} /\ results = {}
  /\ view = [t \in TextBlocks |-> <<>>] /\ due = {} /\ last = NoBlock
  /\ over = "no"

Whole(t) == [k \in 1..made[t] |-> k]

\* how often each waiting text is shown when the narration is
Shows(t, texts) ==
  LET times == Cardinality({n \in DOMAIN texts : texts[n] = t})
  IN [k \in 1..(times * made[t]) |-> ((k - 1) % made[t]) + 1]

\* fault: the narration is shown and kept
ShowNarrationTwice ==
  /\ view' = [t \in TextBlocks |-> view[t] \o Shows(t, narration)]
  /\ UNCHANGED narration

\* claudeFlushNarration
ShowNarration ==
  /\ view' = [t \in TextBlocks |-> view[t] \o Shows(t, narration)]
  /\ narration' = <<>>

\* claudeRegisterToolUse: a call is registered once, after what waits is shown
Register(x) ==
  IF x \in toolCalls
  THEN UNCHANGED <<toolCalls, narration, view>>
  ELSE /\ toolCalls' = toolCalls \cup {x}
       /\ ShowNarration

\* texts that stopped before a call are due when it starts
DueNow == {t \in begun \cap TextBlocks : t # open /\ made[t] > 0}

-----------------------------------------------------------------------------
(* Stream events *)

InTurn == over = "no"

\* message_start: the blocks of the message before are forgotten
StartBlocks ==
  /\ InTurn /\ open = NoBlock /\ streamState # {}
  /\ streamState' = {}
  /\ UNCHANGED <<menu, made, open, tail, begun, repeated, narration, toolCalls, results,
                 view, due, last, over>>

\* a text is followed by a tool call or by the end of the turn
MayBegin(b) == /\ InTurn /\ open = NoBlock /\ b \notin begun
               /\ b \in TextBlocks => last \in due \cup {NoBlock}

\* content_block_start
StartBlock(b) ==
  /\ MayBegin(b)
  /\ open' = b /\ tail' = "stream"
  /\ begun' = begun \cup {b}
  /\ streamState' = streamState \cup {b}
  /\ last' = IF b \in TextBlocks THEN b ELSE last
  /\ IF b \in Calls THEN Register(b) /\ due' = due \cup DueNow
                    ELSE UNCHANGED <<toolCalls, narration, view, due>>
  /\ UNCHANGED <<menu, made, repeated, results, over>>

\* content_block_delta
TextPart(t) ==
  /\ open = t /\ tail = "stream" /\ t \notin repeated /\ made[t] < Parts
  /\ made' = [made EXCEPT ![t] = @ + 1]
  /\ UNCHANGED <<menu, open, tail, begun, repeated, streamState, narration, toolCalls,
                 results, view, due, last, over>>

\* a text of the stream is already in the narration, or on its way to it
Buffered(t) == t \in streamState

\* an assistant message repeats a block: claudeHandleAssistantMessage
RepeatBlock(b) ==
  /\ open = b /\ b \notin repeated
  /\ b \in TextBlocks => made[b] > 0
  /\ repeated' = repeated \cup {b}
  /\ open' = IF tail = "repeat" THEN NoBlock ELSE b
  /\ tail' = IF tail = "repeat" THEN NoBlock ELSE tail
  /\ IF b \in Calls
     THEN Register(b)
     ELSE /\ narration' = IF Buffered(b) THEN narration ELSE Append(narration, b)
          /\ UNCHANGED <<toolCalls, view>>
  /\ UNCHANGED <<menu, made, begun, streamState, results, due, last, over>>

\* content_block_stop: a text joins the narration
StopBlock(b) ==
  /\ open = b /\ tail = "stream"
  /\ narration' = IF b \in TextBlocks /\ made[b] > 0 THEN Append(narration, b) ELSE narration
  /\ IF b \in repeated THEN open' = NoBlock /\ tail' = NoBlock
                       ELSE tail' = "repeat" /\ UNCHANGED open
  /\ UNCHANGED <<menu, made, begun, repeated, streamState, toolCalls, results, view,
                 due, last, over>>

\* an assistant message that was not streamed
WholeBlock(b) ==
  /\ MayBegin(b)
  /\ begun' = begun \cup {b} /\ repeated' = repeated \cup {b}
  /\ IF b \in Calls
     THEN Register(b) /\ due' = due \cup DueNow /\ UNCHANGED <<made, last>>
     ELSE /\ made' = [made EXCEPT ![b] = 1]
          /\ narration' = Append(narration, b)
          /\ last' = b
          /\ UNCHANGED <<toolCalls, view, due>>
  /\ UNCHANGED <<menu, open, tail, streamState, results, over>>

\* a user message brings the result of a call: claudeHandleUserMessage
CallResult(x) ==
  /\ InTurn /\ x \in repeated /\ x \notin results
  /\ results' = results \cup {x}
  /\ UNCHANGED <<menu, made, open, tail, begun, repeated, streamState, narration,
                 toolCalls, view, due, last, over>>

-----------------------------------------------------------------------------
(* claudeHandleResult *)

\* the result, which repeats the last text, else what waits
ClaudeAnswer(texts) == IF texts # <<>> THEN texts ELSE narration

\* the result of a turn that says nothing after its last call is empty
ResultTexts == IF last = NoBlock \/ made[last] = 0 \/ last \in due THEN {<<>>}
               ELSE {<<last>>, <<>>}

EndSuccess ==
  /\ InTurn /\ open = NoBlock
  /\ \E texts \in ResultTexts :
       /\ view' = IF menu = "compact" THEN view
                  ELSE [t \in TextBlocks |-> view[t] \o Shows(t, ClaudeAnswer(texts))]
       /\ due' = IF menu = "compact" THEN due ELSE due \cup DueNow
  /\ narration' = <<>> /\ menu' = ""
  /\ over' = "completed"
  /\ UNCHANGED <<made, open, tail, begun, repeated, streamState, toolCalls, results, last>>

EndError ==
  /\ InTurn
  /\ over' = "error"
  /\ UNCHANGED <<menu, made, open, tail, begun, repeated, streamState, narration,
                 toolCalls, results, view, due, last>>

-----------------------------------------------------------------------------
StreamNext ==
  \/ StartBlocks
  \/ \E b \in Blocks : StartBlock(b) \/ RepeatBlock(b) \/ StopBlock(b) \/ WholeBlock(b)
  \/ \E t \in TextBlocks : TextPart(t)
  \/ \E x \in Calls : CallResult(x)
  \/ EndSuccess \/ EndError

StreamSpec == StreamInit /\ [][StreamNext]_streamVars

-----------------------------------------------------------------------------
ClaudeDelivery == INSTANCE TextDelivery
  WITH Texts <- TextBlocks, written <- made, shown <- view, closed <- due

\* Each text of a turn is shown once and whole: before the tool call that
\* follows it starts, or when the turn ends (comments of claudeFlushBlock and
\* claudeHandleAssistantMessage).
TextsAreDelivered == ClaudeDelivery!DeliverySpec
=============================================================================
