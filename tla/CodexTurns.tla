----------------------------- MODULE CodexTurns -----------------------------
(***************************************************************************)
(* The turns of a resident Codex (codex app-server): the prompt calls and  *)
(* the interrupt calls, each on a thread of its own, the thread that reads *)
(* the stdout of the process, its stop, and the app-server.                *)
(*                                                                         *)
(* Unlike vibePrompt, codexPrompt has no guard on a running turn, and the  *)
(* end of a turn is reported without its request id: entry.codexTurnEnded  *)
(* is all that tells one end from the next.  A turn is identified with the *)
(* call that asked for it, and so are its request and its pending object,  *)
(* which nobody waits for.                                                 *)
(***************************************************************************)
EXTENDS Naturals, Sequences

CONSTANTS
  Prompts,     \* the codexPrompt calls made to this process
  Breaks,      \* the interrupt calls
  Patient,     \* does the client prompt only when the last turn has completed and
               \* all that was printed of it is read?
  NoTurn

ASSUME TurnAssumption == NoTurn \notin Prompts /\ Patient \in BOOLEAN

VARIABLES
  turnActive,     \* entry.turnActive
  turnRequestId,  \* entry.turnRequestId, NoTurn when empty
  turnEnded,      \* entry.codexTurnEnded
  activeTurnId,   \* entry.activeTurnId
  status,         \* entry.status
  pc,             \* where each prompt call is
  bpc,            \* where each interrupt call is
  seen,           \* the turn whose request held the flag an interrupt call saw
  reader,         \* where the stdout reader is
  line,           \* the notification it is handling
  stopping,       \* where stopEntry is
  alive,          \* processAlive(entry.process)
  stdin, stdout,  \* lines written and not yet read
  waiting,        \* turns the app-server has accepted and not begun
  running,        \* the turn it runs
  failed,         \* the turns of which it has reported an error
  ends            \* turns of which a turn/end has been reported

flagVars  == <<turnActive, turnRequestId>>
entryVars == <<turnEnded, activeTurnId, status>>
breakVars == <<bpc, seen>>
readVars  == <<reader, line>>
codexVars == <<alive, stdin, stdout, waiting, running, failed>>
codexTurnsVars == <<flagVars, entryVars, pc, breakVars, readVars, stopping, codexVars, ends>>

NoLine == [kind |-> "none", turn |-> NoTurn]
Lines == [kind : {"accepted", "refused", "started", "error", "completed"}, turn : Prompts]
Serving == {"accepted", "reset", "sent", "claimed", "failing", "dropping"}

\* codexStart has initialized the process and opened its thread
CodexTurnsInit ==
  /\ turnActive = FALSE /\ turnRequestId = NoTurn
  /\ turnEnded = FALSE /\ activeTurnId = NoTurn /\ status = "running"
  /\ pc = [c \in Prompts |-> "new"]
  /\ bpc = [b \in Breaks |-> "new"] /\ seen = [b \in Breaks |-> NoTurn]
  /\ reader = "idle" /\ line = NoLine
  /\ stopping = "open"
  /\ alive = TRUE /\ stdin = <<>> /\ stdout = <<>> /\ waiting = <<>> /\ running = NoTurn
  /\ failed = {} /\ ends = {}

Moved(c, from, to) == pc[c] = from /\ pc' = [pc EXCEPT ![c] = to]

-----------------------------------------------------------------------------
(* codexPrompt, app-server branch *)

\* a patient client has read the end of the turn before; an error is not its end
Quiet == /\ ~turnActive /\ running = NoTurn /\ reader = "idle" /\ stdout = <<>>
         /\ \A c \in Prompts : pc[c] \notin Serving

Receive(c) ==
  /\ Patient => Quiet
  /\ Moved(c, "new", IF alive THEN "accepted" ELSE "not_running")
  /\ UNCHANGED <<flagVars, entryVars, breakVars, readVars, stopping, codexVars, ends>>

\* fault: codexTurnEnded is left as the last turn put it
ResetNothing(c) ==
  /\ Moved(c, "accepted", "reset")
  /\ status' = "running"
  /\ UNCHANGED <<flagVars, turnEnded, activeTurnId, breakVars, readVars, stopping, codexVars, ends>>

\* after the preflight: the state of the turn before is dropped
Reset(c) ==
  /\ Moved(c, "accepted", "reset")
  /\ status' = "running"
  /\ turnEnded' = FALSE
  /\ UNCHANGED <<flagVars, activeTurnId, breakVars, readVars, stopping, codexVars, ends>>

Writable == alive /\ stopping = "open"

\* sendCodexAppServerRequest turn/start
Send(c) ==
  /\ Moved(c, "reset", IF Writable THEN "sent" ELSE "failing")
  /\ stdin' = IF Writable THEN Append(stdin, [kind |-> "prompt", turn |-> c]) ELSE stdin
  /\ UNCHANGED <<flagVars, entryVars, breakVars, readVars, stopping,
                 alive, stdout, waiting, running, failed, ends>>

\* pushEvent turn/start with the request id, after the write, in two halves
Claim(c) ==
  /\ Moved(c, "sent", "claimed")
  /\ turnRequestId' = IF turnActive THEN turnRequestId ELSE c
  /\ UNCHANGED <<turnActive, entryVars, breakVars, readVars, stopping, codexVars, ends>>

Raise(c) ==
  /\ Moved(c, "claimed", "submitted")
  /\ turnActive' = TRUE
  /\ UNCHANGED <<turnRequestId, entryVars, breakVars, readVars, stopping, codexVars, ends>>

\* the catch block: turn/error without a request id ends any turn
FailDrop(c) ==
  /\ Moved(c, "failing", "dropping")
  /\ status' = "error"
  /\ turnActive' = FALSE
  /\ UNCHANGED <<turnRequestId, turnEnded, activeTurnId, breakVars, readVars, stopping, codexVars, ends>>

FailClear(c) ==
  /\ Moved(c, "dropping", "error")
  /\ turnRequestId' = NoTurn
  /\ UNCHANGED <<turnActive, entryVars, breakVars, readVars, stopping, codexVars, ends>>

-----------------------------------------------------------------------------
(* handleCodexAppServerLine on the stdout reader thread *)

Read(kind) ==
  /\ reader = "idle" /\ stdout # <<>> /\ Head(stdout).kind = kind
  /\ stdout' = Tail(stdout)
  /\ line' = Head(stdout)
  /\ UNCHANGED <<pc, breakVars, stopping, alive, stdin, waiting, running, failed>>

\* the response to turn/start names the turn
ReadAccepted ==
  /\ Read("accepted")
  /\ activeTurnId' = line'.turn
  /\ reader' = "idle"
  /\ UNCHANGED <<flagVars, turnEnded, status, ends>>

\* an error response: turn/error with the request id, which ends its own turn only
ReadRefused ==
  /\ Read("refused")
  /\ reader' = IF turnRequestId \in {NoTurn, line'.turn} THEN "drop" ELSE "idle"
  /\ UNCHANGED <<flagVars, entryVars, ends>>

\* turn/started: turn/start without a request id, in two halves
ReadStarted ==
  /\ Read("started")
  /\ activeTurnId' = line'.turn
  /\ status' = "running"
  /\ turnRequestId' = IF turnActive THEN turnRequestId ELSE NoTurn
  /\ reader' = "raise"
  /\ UNCHANGED <<turnActive, turnEnded, ends>>

RaiseStarted ==
  /\ reader = "raise"
  /\ turnActive' = TRUE
  /\ reader' = "idle"
  /\ UNCHANGED <<turnRequestId, entryVars, pc, breakVars, line, stopping, codexVars, ends>>

\* the error notification: turn/error without a request id
ReadError ==
  /\ Read("error")
  /\ status' = "error"
  /\ reader' = "drop"
  /\ UNCHANGED <<flagVars, turnEnded, activeTurnId, ends>>

\* turn/completed, up to the test of pushCodexTurnEnd
ReadCompleted ==
  /\ Read("completed")
  /\ activeTurnId' = line'.turn
  /\ reader' = IF turnEnded THEN "idle" ELSE "end"
  /\ UNCHANGED <<flagVars, turnEnded, status, ends>>

\* fault: turn/end is no end of a turn for pushEvent
EndTurnHeld ==
  /\ reader = "end"
  /\ turnEnded' = TRUE
  /\ status' = "completed"
  /\ ends' = ends \cup {line.turn}
  /\ reader' = "idle"
  /\ UNCHANGED <<flagVars, activeTurnId, pc, breakVars, line, stopping, codexVars>>

\* pushCodexTurnEnd: turn/end without a request id
EndTurn ==
  /\ reader = "end"
  /\ turnEnded' = TRUE
  /\ status' = "completed"
  /\ ends' = ends \cup {line.turn}
  /\ reader' = "drop"
  /\ UNCHANGED <<flagVars, activeTurnId, pc, breakVars, line, stopping, codexVars>>

\* pushEvent, the end of a turn, in two halves
DropFlag ==
  /\ reader = "drop"
  /\ turnActive' = FALSE
  /\ reader' = "clear"
  /\ UNCHANGED <<turnRequestId, entryVars, pc, breakVars, line, stopping, codexVars, ends>>

ClearFlag ==
  /\ reader = "clear"
  /\ turnRequestId' = NoTurn
  /\ reader' = "idle"
  /\ UNCHANGED <<turnActive, entryVars, pc, breakVars, line, stopping, codexVars, ends>>

\* the finally block of the reader thread: a completed process keeps its status
ReaderEnds ==
  /\ reader = "idle" /\ stdout = <<>> /\ ~alive
  /\ reader' = "ended"
  /\ status' \in IF status \in {"closed", "completed", "error"} THEN {status}
                 ELSE {status, "exited"}
  /\ UNCHANGED <<flagVars, turnEnded, activeTurnId, pc, breakVars, line, stopping, codexVars, ends>>

-----------------------------------------------------------------------------
(* interrupt *)

StartBreak(b) ==
  /\ bpc[b] = "new"
  /\ bpc' = [bpc EXCEPT ![b] = IF ~alive THEN "exited"
                               ELSE IF turnActive THEN "stopping" ELSE "idle"]
  /\ seen' = [seen EXCEPT ![b] = turnRequestId]
  /\ UNCHANGED <<flagVars, entryVars, pc, readVars, stopping, codexVars, ends>>

\* the codex-app-server adapter names the active turn, the last one it heard of
WriteInterrupt(b) ==
  /\ bpc[b] = "stopping"
  /\ bpc' = [bpc EXCEPT ![b] = IF activeTurnId = NoTurn THEN "not_interruptible"
                               ELSE IF Writable THEN "waiting" ELSE "error"]
  /\ stdin' = IF activeTurnId # NoTurn /\ Writable
              THEN Append(stdin, [kind |-> "interrupt", turn |-> activeTurnId]) ELSE stdin
  /\ UNCHANGED <<flagVars, entryVars, pc, seen, readVars, stopping,
                 alive, stdout, waiting, running, failed, ends>>

\* fault: a deadline gives the flag back
EndBreakDrops(b) ==
  /\ bpc[b] = "waiting"
  /\ bpc' = [bpc EXCEPT ![b] = IF ~alive THEN "exited"
                               ELSE IF turnActive THEN "timeout" ELSE "interrupted"]
  /\ turnActive' = FALSE
  /\ UNCHANGED <<turnRequestId, entryVars, pc, seen, readVars, stopping, codexVars, ends>>

\* fault: the deadline is taken for an answer
EndBreakEarly(b) ==
  /\ bpc[b] = "waiting"
  /\ bpc' = [bpc EXCEPT ![b] = IF ~alive THEN "exited" ELSE "interrupted"]
  /\ UNCHANGED <<flagVars, entryVars, pc, seen, readVars, stopping, codexVars, ends>>

EndBreak(b) ==
  /\ bpc[b] = "waiting"
  /\ bpc' = [bpc EXCEPT ![b] = IF ~alive THEN "exited"
                               ELSE IF turnActive THEN "timeout" ELSE "interrupted"]
  /\ UNCHANGED <<flagVars, entryVars, pc, seen, readVars, stopping, codexVars, ends>>

-----------------------------------------------------------------------------
(* stopEntry *)

Gone == /\ alive' = FALSE /\ running' = NoTurn /\ stdin' = <<>> /\ waiting' = <<>>
        /\ UNCHANGED <<stdout, failed>>

StopProcess ==
  /\ stopping = "open"
  /\ stopping' = "killed"
  /\ Gone
  /\ UNCHANGED <<flagVars, entryVars, pc, breakVars, readVars, ends>>

\* system/closed ends any turn
Close ==
  /\ stopping = "killed"
  /\ stopping' = "closed"
  /\ status' = IF status = "error" THEN "error" ELSE "closed"
  /\ turnActive' = FALSE /\ turnRequestId' = NoTurn
  /\ UNCHANGED <<turnEnded, activeTurnId, pc, breakVars, readVars, codexVars, ends>>

-----------------------------------------------------------------------------
(* The app-server: it accepts or refuses a turn at once and runs one at a time *)

Prints(kind, t) == stdout' = Append(stdout, [kind |-> kind, turn |-> t])

CodexTakesPrompt ==
  /\ alive /\ stdin # <<>> /\ Head(stdin).kind = "prompt"
  /\ stdin' = Tail(stdin)
  /\ \/ /\ Prints("accepted", Head(stdin).turn)
        /\ waiting' = Append(waiting, Head(stdin).turn)
     \/ /\ Prints("refused", Head(stdin).turn)
        /\ UNCHANGED waiting
  /\ UNCHANGED <<flagVars, entryVars, pc, breakVars, readVars, stopping, alive, running, failed, ends>>

CodexTakesInterrupt ==
  /\ alive /\ stdin # <<>> /\ Head(stdin).kind = "interrupt"
  /\ stdin' = Tail(stdin)
  /\ IF running = Head(stdin).turn
     THEN running' = NoTurn /\ Prints("completed", Head(stdin).turn)
     ELSE UNCHANGED <<running, stdout>>
  /\ UNCHANGED <<flagVars, entryVars, pc, breakVars, readVars, stopping, alive, waiting, failed, ends>>

CodexStartsTurn ==
  /\ alive /\ running = NoTurn /\ waiting # <<>>
  /\ running' = Head(waiting) /\ waiting' = Tail(waiting)
  /\ Prints("started", Head(waiting))
  /\ UNCHANGED <<flagVars, entryVars, pc, breakVars, readVars, stopping, alive, stdin, failed, ends>>

\* an error of the running turn, which goes on or is completed all the same
\* (bound: one error per turn)
CodexReportsError ==
  /\ alive /\ running \notin failed \cup {NoTurn}
  /\ failed' = failed \cup {running}
  /\ Prints("error", running)
  /\ UNCHANGED <<flagVars, entryVars, pc, breakVars, readVars, stopping,
                 alive, stdin, waiting, running, ends>>

CodexEndsTurn ==
  /\ alive /\ running # NoTurn
  /\ running' = NoTurn
  /\ Prints("completed", running)
  /\ UNCHANGED <<flagVars, entryVars, pc, breakVars, readVars, stopping,
                 alive, stdin, waiting, failed, ends>>

CodexExits ==
  /\ alive /\ Gone
  /\ UNCHANGED <<flagVars, entryVars, pc, breakVars, readVars, stopping, ends>>

-----------------------------------------------------------------------------
PromptStep(c) == \/ Receive(c) \/ Reset(c) \/ Send(c) \/ Claim(c) \/ Raise(c)
                 \/ FailDrop(c) \/ FailClear(c)
ReaderStep == \/ ReadAccepted \/ ReadRefused \/ ReadStarted \/ RaiseStarted
              \/ ReadError \/ ReadCompleted \/ EndTurn \/ DropFlag \/ ClearFlag
              \/ ReaderEnds
BreakStep(b) == StartBreak(b) \/ WriteInterrupt(b) \/ EndBreak(b)
CodexStep == \/ CodexTakesPrompt \/ CodexTakesInterrupt \/ CodexStartsTurn
             \/ CodexReportsError \/ CodexEndsTurn

CodexTurnsNext ==
  \/ \E c \in Prompts : PromptStep(c)
  \/ ReaderStep
  \/ \E b \in Breaks : BreakStep(b)
  \/ StopProcess \/ Close
  \/ CodexStep \/ CodexExits

CodexTurnsSpec == CodexTurnsInit /\ [][CodexTurnsNext]_codexTurnsVars

\* the reader thread runs, and the app-server ends its turns
CodexTurnsFair == WF_codexTurnsVars(ReaderStep) /\ WF_codexTurnsVars(CodexEndsTurn)

-----------------------------------------------------------------------------
CodexTypeOK ==
  /\ turnActive \in BOOLEAN /\ turnEnded \in BOOLEAN /\ alive \in BOOLEAN
  /\ {turnRequestId, activeTurnId, running} \subseteq Prompts \cup {NoTurn}
  /\ status \in {"running", "completed", "error", "exited", "closed"}
  /\ pc \in [Prompts -> {"new", "not_running", "submitted", "error"} \cup Serving]
  /\ bpc \in [Breaks -> {"new", "exited", "idle", "stopping", "not_interruptible",
                         "waiting", "error", "timeout", "interrupted"}]
  /\ seen \in [Breaks -> Prompts \cup {NoTurn}]
  /\ reader \in {"idle", "raise", "end", "drop", "clear", "ended"}
  /\ line \in Lines \cup {NoLine}
  /\ stopping \in {"open", "killed", "closed"}
  /\ stdin \in Seq([kind : {"prompt", "interrupt"}, turn : Prompts])
  /\ stdout \in Seq(Lines)
  /\ waiting \in Seq(Prompts)
  /\ failed \subseteq Prompts /\ ends \subseteq Prompts

\* The end of every turn is reported: no turn/completed is taken for one that
\* has been reported already (pushEvent's comment: every provider reports its
\* turns with turn/start, turn/end and turn/error).
EveryEndIsReported == [][ ReadCompleted => ~turnEnded ]_codexTurnsVars

\* An interrupt that answers "interrupted" has ended the turn whose request
\* held the flag: the app-server neither runs it nor has it to run, unless it has
\* reported an error of it, which lowers the flag of a turn that goes on.
InterruptEndsTurn ==
  \A b \in Breaks, c \in Prompts \ failed :
    bpc[b] = "interrupted" /\ seen[b] = c
      => /\ running # c
         /\ \A k \in DOMAIN waiting : waiting[k] # c
         /\ \A k \in DOMAIN stdin : stdin[k] # [kind |-> "prompt", turn |-> c]

\* A submitted turn that runs gives the flag back, unless the process dies.
TurnReleasesFlag ==
  \A c \in Prompts :
    (running = c /\ pc[c] = "submitted" /\ turnActive) ~> (~turnActive \/ ~alive)

\* While a submitted turn runs, no error of it was reported and its start has
\* been read, the flag is up.
RunningTurnHoldsFlag ==
  \A c \in Prompts \ failed :
    (running = c /\ pc[c] = "submitted" /\ stdout = <<>> /\ reader = "idle")
      => turnActive
=============================================================================
