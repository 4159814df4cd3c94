---------------------------- MODULE CodexSession -----------------------------
(***************************************************************************)
(* The starts and the prompts of one conversation with Codex in app-server *)
(* mode: a process that is initialized step by step, the thread it opens,  *)
(* and the restart a prompt makes when the skill bundle has changed.  The  *)
(* app-server knows a thread from one process to the next only when a turn *)
(* of it has been accepted.  Calls come one at a time; the turns           *)
(* themselves are those of CodexTurns.                                     *)
(*                                                                         *)
(* The viewer endpoint stands for all that codexStart compares before it   *)
(* reuses a process: the scope of the home, the MCP token and the reveal   *)
(* mode are treated as it is, with another reason in the warning.          *)
(***************************************************************************)
EXTENDS Naturals, FiniteSets

CONSTANTS
  Viewers,      \* viewer ports, LeasedViewer among them
  LeasedViewer, \* the port leased to the conversation
  Bundles,      \* how often the skill bundle changes
  Threads,      \* how many threads the app-server may open
  Unset         \* an option the call leaves out, no entry, no process

ASSUME CodexSessionAssumption ==
  LeasedViewer \in Viewers /\ Bundles \in Nat /\ Threads \in Nat
ASSUME UnsetIsNoEntry ==
  Unset \notin [thread : Nat, begun : BOOLEAN, viewer : Viewers, bundle : Nat]

VARIABLES
  codexEntry,   \* the entry registered under the handle
  server,       \* the app-server: what it was started with and its thread
  request,      \* the call being served, or the answer of the last one
  held,         \* the thread the client has learnt from the answers
  opened,       \* threads opened so far
  kept,         \* threads with an accepted turn
  onDisk        \* the skill bundle of the home

codexSessionVars == <<codexEntry, server, request, held, opened, kept, onDisk>>

NoThread == 0
NoRequest == [stage |-> "idle", prompt |-> FALSE, viewer |-> Unset, thread |-> NoThread,
              before |-> NoThread, retried |-> FALSE, status |-> "none"]
Starting == {"setup", "launch", "initialize", "thread", "mcp"}

CodexSessionInit ==
  /\ codexEntry = Unset /\ server = Unset
  /\ request = NoRequest
  /\ held = NoThread /\ opened = 0 /\ kept = {} /\ onDisk = 0

Up == codexEntry # Unset /\ server # Unset
Moves(stage) == request' = [request EXCEPT !.stage = stage]

\* an answer carries the state of the entry, its thread included
Tells(status, e) ==
  /\ request' = [NoRequest EXCEPT !.status = status]
  /\ held' = IF e = Unset THEN held ELSE e.thread

-----------------------------------------------------------------------------
CodexCallArrives ==
  /\ request.stage = "idle"
  /\ \E viewer \in Viewers \cup {Unset}, thread \in {NoThread, held}, prompt \in BOOLEAN :
       request' = [NoRequest EXCEPT !.stage = IF prompt THEN "prompt" ELSE "start",
                                    !.prompt = prompt, !.viewer = viewer, !.thread = thread,
                                    !.before = IF codexEntry = Unset THEN NoThread
                                               ELSE codexEntry.thread]
  /\ UNCHANGED <<codexEntry, server, held, opened, kept, onDisk>>

-----------------------------------------------------------------------------
(* codexStart *)

AskedViewer == IF request.viewer = Unset THEN LeasedViewer ELSE request.viewer

ReuseServer ==
  /\ request.stage = "start" /\ Up /\ codexEntry.viewer = AskedViewer
  /\ Tells("already_running", codexEntry)
  /\ UNCHANGED <<codexEntry, server, opened, kept, onDisk>>

\* the thread goes on only when the client names it
StopServer ==
  /\ request.stage = "start" /\ Up /\ codexEntry.viewer # AskedViewer
  /\ codexEntry' = Unset /\ server' = Unset
  /\ Moves("setup")
  /\ UNCHANGED <<held, opened, kept, onDisk>>

NoServer ==
  /\ request.stage = "start" /\ ~Up
  /\ Moves("setup")
  /\ UNCHANGED <<codexEntry, server, held, opened, kept, onDisk>>

CodexSetupFails ==
  /\ request.stage = "setup"
  /\ Tells("error", Unset)
  /\ UNCHANGED <<codexEntry, server, opened, kept, onDisk>>

CreateCodexEntry ==
  /\ request.stage = "setup"
  /\ codexEntry' = [thread |-> request.thread, begun |-> request.thread # NoThread,
                    viewer |-> AskedViewer, bundle |-> onDisk]
  /\ Moves("launch")
  /\ UNCHANGED <<server, held, opened, kept, onDisk>>

LaunchServer ==
  /\ request.stage = "launch"
  /\ server' = [thread |-> NoThread, bundle |-> codexEntry.bundle]
  /\ Moves("initialize")
  /\ UNCHANGED <<codexEntry, held, opened, kept, onDisk>>

Initialized ==
  /\ request.stage = "initialize" /\ server # Unset
  /\ Moves("thread")
  /\ UNCHANGED <<codexEntry, server, held, opened, kept, onDisk>>

\* thread/start, or thread/resume of a thread the app-server knows
OpenThread ==
  /\ request.stage = "thread" /\ server # Unset
  /\ \/ /\ codexEntry.thread = NoThread /\ opened < Threads
        /\ opened' = opened + 1
        /\ codexEntry' = [codexEntry EXCEPT !.thread = opened']
     \/ /\ codexEntry.thread \in kept
        /\ UNCHANGED <<opened, codexEntry>>
  /\ server' = [server EXCEPT !.thread = codexEntry'.thread]
  /\ Moves("mcp")
  /\ UNCHANGED <<held, kept, onDisk>>

\* waitForCodexMcpReady, then the prompt that restarts goes on
ServerReady ==
  /\ request.stage = "mcp" /\ server # Unset
  /\ IF request.prompt THEN Moves("prompt") /\ UNCHANGED held
                       ELSE Tells("started", codexEntry)
  /\ UNCHANGED <<codexEntry, server, opened, kept, onDisk>>

\* fault: a failed start leaves its process
StartErrorUnstopped(status) ==
  /\ Tells(status, codexEntry)
  /\ UNCHANGED server

\* the catch block of codexStart: stopEntry(entry, false)
StartError(status) ==
  /\ Tells(status, codexEntry)
  /\ server' = Unset

\* the process cannot be launched, a request or the MCP server fails, times
\* out, or the process exits under it
ServerStartFails ==
  /\ request.stage \in Starting \ {"setup"}
  /\ StartError("error")
  /\ UNCHANGED <<codexEntry, opened, kept, onDisk>>

\* fault: a prompt does not try without the thread
ThreadUnknownAtOnce ==
  /\ request.stage = "thread" /\ server # Unset
  /\ codexEntry.thread \notin kept \cup {NoThread}
  /\ StartError("unknown_thread")
  /\ UNCHANGED <<codexEntry, opened, kept, onDisk>>

\* no rollout found: a prompt that restarts starts once more with a new thread
ThreadUnknown ==
  /\ request.stage = "thread" /\ server # Unset
  /\ codexEntry.thread \notin kept \cup {NoThread}
  /\ IF request.prompt /\ ~request.retried
     THEN /\ request' = [request EXCEPT !.stage = "start", !.retried = TRUE, !.thread = NoThread]
          /\ server' = Unset
          /\ UNCHANGED held
     ELSE StartError("unknown_thread")
  /\ UNCHANGED <<codexEntry, opened, kept, onDisk>>

-----------------------------------------------------------------------------
(* codexPrompt, app-server branch *)

CodexRefuses ==
  /\ request.stage = "prompt" /\ ~Up
  /\ Tells(IF codexEntry = Unset THEN "not_found" ELSE "not_running", codexEntry)
  /\ UNCHANGED <<codexEntry, server, opened, kept, onDisk>>

\* the thread a client names becomes that of the entry
Named == [codexEntry EXCEPT !.thread = IF request.thread = NoThread THEN @ ELSE request.thread]

OtherViewer == request.viewer \notin {Unset, codexEntry.viewer}

RestartRequired ==
  /\ request.stage = "prompt" /\ Up /\ OtherViewer
  /\ Tells("restart_required", Named)
  /\ codexEntry' = Unset /\ server' = Unset
  /\ UNCHANGED <<opened, kept, onDisk>>

\* fault: the thread is left behind
RestartThreadNone == NoThread

\* codexRestartThreadId
RestartThread == IF Named.begun THEN Named.thread ELSE NoThread

\* fault: the bundle is compared with itself
BundleChangedNever == FALSE

\* fault: the bundle is compared with the first one
BundleChangedOnce == onDisk # 0

BundleChanged == onDisk # codexEntry.bundle

\* the skill bundle has changed: the process is replaced before the turn
RestartForBundle ==
  /\ request.stage = "prompt" /\ Up /\ ~OtherViewer
  /\ BundleChanged
  /\ request' = [request EXCEPT !.stage = "start", !.thread = RestartThread,
                                !.viewer = codexEntry.viewer, !.retried = FALSE]
  /\ codexEntry' = Unset /\ server' = Unset
  /\ UNCHANGED <<held, opened, kept, onDisk>>

\* turn/start, accepted or refused
SubmitToCodex ==
  /\ request.stage = "prompt" /\ Up /\ ~OtherViewer
  /\ ~BundleChanged
  /\ IF Named.thread = NoThread
     THEN /\ Tells("error", Named)
          /\ codexEntry' = [Named EXCEPT !.bundle = onDisk]
          /\ UNCHANGED kept
     ELSE /\ Tells("submitted", Named)
          /\ codexEntry' = [Named EXCEPT !.begun = TRUE, !.bundle = onDisk]
          /\ kept' \in IF Named.thread = server.thread THEN {kept, kept \cup {Named.thread}}
                                                     ELSE {kept}
  /\ UNCHANGED <<server, opened, onDisk>>

-----------------------------------------------------------------------------
ServerDies ==
  /\ server # Unset
  /\ server' = Unset
  /\ UNCHANGED <<codexEntry, request, held, opened, kept, onDisk>>

SkillsChange ==
  /\ onDisk < Bundles
  /\ onDisk' = onDisk + 1
  /\ UNCHANGED <<codexEntry, server, request, held, opened, kept>>

CodexCallStep ==
  \/ ReuseServer \/ StopServer \/ NoServer \/ CodexSetupFails \/ CreateCodexEntry
  \/ LaunchServer \/ Initialized \/ OpenThread \/ ServerReady \/ ServerStartFails
  \/ ThreadUnknown \/ CodexRefuses \/ RestartRequired \/ RestartForBundle \/ SubmitToCodex

CodexSessionNext == CodexCallArrives \/ CodexCallStep \/ ServerDies \/ SkillsChange

CodexSessionSpec == CodexSessionInit /\ [][CodexSessionNext]_codexSessionVars
CodexSessionFair == WF_codexSessionVars(CodexCallStep)

-----------------------------------------------------------------------------
Told(status) == request.stage # "idle" /\ request'.stage = "idle" /\ request'.status = status

\* A turn is asked for in the thread the process has opened, by a process that
\* was started with the skill bundle last read.
ThreadIsOpen ==
  [][ Told("submitted") =>
        server.thread = codexEntry'.thread /\ server.bundle = codexEntry'.bundle
    ]_codexSessionVars

\* A prompt that restarts the process goes on in the thread of the conversation,
\* when a turn of that thread has been accepted.
ThreadSurvives ==
  [][ Told("submitted") /\ request.before \in kept
        => codexEntry'.thread = request.before ]_codexSessionVars

\* A prompt never fails because the app-server does not know a thread.
PromptFindsThread == [][ Told("unknown_thread") => ~request.prompt ]_codexSessionVars

\* A start that fails leaves no process behind.
FailedStartLeavesNothing ==
  [][ request.stage \in Starting /\ Told("error") => server' = Unset ]_codexSessionVars

\* Every call is answered, those that restart the process included.
CodexCallIsAnswered == (request.stage # "idle") ~> (request.stage = "idle")

\* Across the starts, the failures and the restarts for a new skill bundle, a
\* conversation stays in a thread that its process knows, and no process is
\* left without a conversation.
ConversationIsKept ==
  ThreadIsOpen /\ ThreadSurvives /\ PromptFindsThread /\ FailedStartLeavesNothing
=============================================================================
