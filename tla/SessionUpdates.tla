---------------------------- MODULE SessionUpdates ----------------------------
(***************************************************************************)
(* What the reader thread of a Vibe process makes of the session updates   *)
(* and of the permission requests it reads: the history replayed by        *)
(* session/load is dropped, the titles of tool calls are remembered up to  *)
(* a limit, and a permission is granted or refused by the title of its     *)
(* call.  The thread of the start raises and lowers the flag that says a   *)
(* session is being replayed.                                              *)
(***************************************************************************)
EXTENDS Naturals, Sequences, FiniteSets

CONSTANTS
  Effects,      \* the tool calls whose id names no tool
  NamedCalls,   \* the tool calls whose id is built from the name of the tool
  TitlesKept,   \* the titles remembered (200)
  PipeSize,     \* bound: lines printed and not yet read
  NoToolCall

\* at least one title is remembered
ASSUME TitlesAssumption == TitlesKept \in Nat \ {0}

ToolCalls == Effects \cup NamedCalls
Allowing == {"allow_once", "allow_always"}
Offers == Allowing \cup {"reject_once", "reject_always"}

VARIABLES
  restricted,        \* entry.noCodePolicy is mcp-only or files
  runs,              \* the tool of each call: "convertigo" or "other"
  callStage,         \* the call, as the agent has it
  replayingSession,  \* entry.replayingSession
  loadStage,         \* the start: "loading" the session, or "open" to prompts
  loadAnswered,      \* pending.done of session/load
  replayEnded,       \* the agent has answered session/load
  updateLines,       \* lines printed and not yet read
  toolCallTitles,    \* the calls whose title is remembered, oldest first
  verdict,           \* the answer to the permission request just read
  gaveUpLoad,        \* history: session/load was not answered in time
  leaked, dropped,      \* history: replayed lines shown, lines of a turn dropped
  heard,             \* history: the calls whose title was read
  newer              \* history: for each of them, the titles read since, up to TitlesKept

agentVars == <<restricted, runs, callStage, replayEnded>>
startVars == <<replayingSession, loadStage, gaveUpLoad>>
memoryVars == <<toolCallTitles, heard, newer>>
updateVars == <<agentVars, startVars, memoryVars, loadAnswered, updateLines, verdict,
                leaked, dropped>>

UpdatesInit ==
  /\ restricted \in BOOLEAN
  /\ runs \in [ToolCalls -> {"convertigo", "other"}]
  /\ callStage = [c \in ToolCalls |-> "unborn"]
  /\ loadStage \in {"loading", "open"}
  /\ replayingSession = (loadStage = "loading")
  /\ replayEnded = (loadStage = "open")
  /\ loadAnswered = FALSE
  /\ updateLines = <<>>
  /\ toolCallTitles = <<>>
  /\ verdict = "none"
  /\ gaveUpLoad = FALSE /\ leaked = FALSE /\ dropped = FALSE
  /\ heard = {} /\ newer = [c \in ToolCalls |-> {}]

-----------------------------------------------------------------------------
(* The agent: it replays the session it was asked to load, then runs turns. *)
Prints(kind, c, titled, old) ==
  /\ Len(updateLines) < PipeSize
  /\ updateLines' =
       Append(updateLines, [kind |-> kind, call |-> c, titled |-> titled, old |-> old])

Becomes(c, stage) == callStage' = [callStage EXCEPT ![c] = stage]

ReplayCall(c) ==
  /\ ~replayEnded /\ callStage[c] = "unborn"
  /\ Becomes(c, "past")
  /\ \E titled \in BOOLEAN : Prints("start", c, titled, TRUE)
  /\ UNCHANGED <<restricted, runs, replayEnded, startVars, memoryVars, loadAnswered, verdict,
                 leaked, dropped>>

\* with a result or with an error
AnswerLoad ==
  /\ ~replayEnded /\ replayEnded' = TRUE
  /\ Prints("loaded", NoToolCall, FALSE, FALSE)
  /\ UNCHANGED <<restricted, runs, callStage, startVars, memoryVars, loadAnswered, verdict,
                 leaked, dropped>>

\* a turn, which needs a prompt, hence a start that has come back
BeginCall(c) ==
  /\ loadStage = "open" /\ callStage[c] = "unborn"
  /\ Becomes(c, "told")
  /\ \E titled \in BOOLEAN : Prints("start", c, titled, FALSE)
  /\ UNCHANGED <<restricted, runs, replayEnded, startVars, memoryVars, loadAnswered, verdict,
                 leaked, dropped>>

UpdateCall(c) ==
  /\ callStage[c] = "told"
  /\ \E kind \in {"update", "end"}, titled \in BOOLEAN :
       /\ kind = "update" => titled
       /\ Becomes(c, IF kind = "end" THEN "over" ELSE "told")
       /\ Prints(kind, c, titled, FALSE)
  /\ UNCHANGED <<restricted, runs, replayEnded, startVars, memoryVars, loadAnswered, verdict,
                 leaked, dropped>>

\* the agent waits for the answer before it says more of that call
AskPermission(c) ==
  /\ callStage[c] = "told"
  /\ Becomes(c, "asking")
  /\ \E titled \in BOOLEAN : Prints("ask", c, titled, FALSE)
  /\ UNCHANGED <<restricted, runs, replayEnded, startVars, memoryVars, loadAnswered, verdict,
                 leaked, dropped>>

-----------------------------------------------------------------------------
(* The thread of the start. *)

\* fault: a load that was not answered leaves the flag up
LowerFlagIfAnswered == loadStage' = "open" /\ replayingSession' = ~loadAnswered

\* the finally block
LowerFlag == loadStage' = "open" /\ replayingSession' = FALSE

\* the wait for session/load ends, with its answer or at its time-out; a session that
\* could not be loaded is replaced by a new one
EndLoad ==
  /\ loadStage = "loading"
  /\ LowerFlag
  /\ gaveUpLoad' = ~loadAnswered
  /\ UNCHANGED <<agentVars, memoryVars, loadAnswered, updateLines, verdict, leaked, dropped>>

-----------------------------------------------------------------------------
(* The reader thread. *)
InSeq(c, seq) == \E n \in DOMAIN seq : seq[n] = c

\* fault: a full memory takes no new title
RememberFirst(c) == IF Len(toolCallTitles) = TitlesKept THEN toolCallTitles
                    ELSE Append(toolCallTitles, c)

\* rememberToolCallTitle, for a title not remembered yet
Remember(c) == IF Len(toolCallTitles) = TitlesKept THEN Append(Tail(toolCallTitles), c)
               ELSE Append(toolCallTitles, c)

\* titles come with starts and with updates
HearTitle(line) ==
  IF line.titled
  THEN /\ toolCallTitles' = IF InSeq(line.call, toolCallTitles) THEN toolCallTitles
                            ELSE Remember(line.call)
       /\ heard' = heard \cup {line.call}
       /\ newer' = [c \in ToolCalls |->
                      IF c \in heard \ {line.call} /\ Cardinality(newer[c]) < TitlesKept
                      THEN newer[c] \cup {line.call} ELSE newer[c]]
  ELSE UNCHANGED <<toolCallTitles, heard, newer>>

\* handleAcpLine, normalizeSessionUpdate
HandleUpdate ==
  /\ updateLines # <<>>
  /\ LET line == Head(updateLines) IN
       /\ line.kind \in {"start", "update", "end"}
       /\ IF replayingSession
          THEN /\ dropped' = (dropped \/ ~line.old)
               /\ UNCHANGED <<memoryVars, leaked>>
          ELSE /\ HearTitle(line)
               /\ leaked' = (leaked \/ line.old)
               /\ UNCHANGED dropped
  /\ updateLines' = Tail(updateLines) /\ verdict' = "none"
  /\ UNCHANGED <<agentVars, startVars, loadAnswered>>

HandleLoaded ==
  /\ updateLines # <<>> /\ Head(updateLines).kind = "loaded"
  /\ loadAnswered' = TRUE
  /\ updateLines' = Tail(updateLines) /\ verdict' = "none"
  /\ UNCHANGED <<agentVars, startVars, memoryVars, leaked, dropped>>

\* fault: only the title of the request is looked at
TitleOfRequest(line) == line.titled

\* permissionToolTitle: the title of the request, the one remembered, or an id that names
\* the tool
TitleIsKnown(line) ==
  line.titled \/ InSeq(line.call, toolCallTitles) \/ line.call \in NamedCalls

\* noCodePermissionRefused
Refused(line) == restricted /\ TitleIsKnown(line) /\ runs[line.call] = "other"

\* choosePermissionOption: an option that allows, if there is one
Selectable(offered) ==
  IF "allow_once" \in offered THEN {"allow_once"}
  ELSE IF offered \cap Allowing # {} THEN offered \cap Allowing ELSE offered

\* handleAgentRequest answers at once; a refusal is a rejection or a cancellation
HandleRequest ==
  /\ updateLines # <<>> /\ Head(updateLines).kind = "ask"
  /\ LET line == Head(updateLines) IN
       /\ \E offered \in SUBSET Offers :
            verdict' = IF Refused(line) THEN "refused"
                       ELSE IF Selectable(offered) \subseteq Allowing /\ offered # {}
                            THEN "allowed" ELSE "declined"
       /\ Becomes(line.call, "told")
  /\ updateLines' = Tail(updateLines)
  /\ UNCHANGED <<restricted, runs, replayEnded, startVars, memoryVars, loadAnswered,
                 leaked, dropped>>

UpdatesNext ==
  \/ \E c \in ToolCalls : ReplayCall(c) \/ BeginCall(c) \/ UpdateCall(c) \/ AskPermission(c)
  \/ AnswerLoad \/ EndLoad \/ HandleUpdate \/ HandleLoaded \/ HandleRequest

UpdatesSpec == UpdatesInit /\ [][UpdatesNext]_updateVars

-----------------------------------------------------------------------------
\* The history of a session that is loaded again is not shown as new, unless its
\* load was given up while the agent went on replaying; and no update of a turn is
\* taken for history, however the load ended.
HistoryIsSorted == (leaked => gaveUpLoad) /\ ~dropped

\* Where only the tools of the Convertigo MCP may be run, no other one is allowed
\* once its title was read, unless it has been forgotten for as many others read
\* since; and nothing else is refused.
PermissionIsJudged ==
  [][updateLines # <<>> /\ Head(updateLines).kind = "ask" /\ verdict' # verdict =>
       LET line == Head(updateLines)
           c == line.call
       IN  /\ verdict' = "allowed" /\ restricted /\ runs[c] = "other" =>
                /\ c \in Effects /\ ~line.titled
                /\ c \notin heard \/ Cardinality(newer[c]) >= TitlesKept
           /\ verdict' = "refused" => restricted /\ runs[c] = "other"]_updateVars

\* What is read from the agent is sorted, remembered and judged as the policy of the
\* session wants.
UpdatesAreJudged == []HistoryIsSorted /\ PermissionIsJudged
=============================================================================
