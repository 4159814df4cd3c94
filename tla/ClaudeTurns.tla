----------------------------- MODULE ClaudeTurns -----------------------------
(***************************************************************************)
(* The turns of a resident Claude Code (stream-json): the prompt calls and *)
(* the interrupt calls, each on a thread of its own, the thread that reads *)
(* the stdout, the stop of the process, and Claude Code.                   *)
(*                                                                         *)
(* A turn is a user message on stdin, a system/init and a result on        *)
(* stdout.  Neither the result nor the interrupt names the turn it is      *)
(* about, nothing on stdout raises the flag, and claudePrompt has no guard *)
(* on a running turn.  When the Convertigo MCP server is missing at a      *)
(* system/init, the reader thread stops the process itself.                *)
(***************************************************************************)
EXTENDS Naturals, Sequences

CONSTANTS
  Messages,   \* the claudePrompt calls made to this process
  Halts,      \* the interrupt calls
  Patience,   \* does the client prompt only when the last turn is over and read?
  NoMessage   \* no call; as a line on stdin, the interrupt request

ASSUME ClaudeAssumption == NoMessage \notin Messages /\ Patience \in BOOLEAN

VARIABLES
  claudeActive,   \* entry.turnActive
  claudeRequest,  \* entry.turnRequestId, NoMessage when empty
  claudeStatus,   \* entry.status
  at,             \* where each prompt call is
  haltAt,         \* where each interrupt call is
  haltSaw,        \* the turn whose request held the flag it saw
  ear,            \* where the stdout reader is
  shutting,       \* where stopEntry is; called by the reader when "self"
  lives,          \* processAlive(entry.process)
  fed, said,      \* lines written and not yet read, in each direction
  answering       \* the turn Claude Code is in

claudeFlag  == <<claudeActive, claudeRequest>>
claudeHalts == <<haltAt, haltSaw>>
claudeProc  == <<lives, fed, said, answering>>
claudeVars  == <<claudeFlag, claudeStatus, at, claudeHalts, ear, shutting, claudeProc>>

InService == {"accepted", "reset", "written", "claimed", "failing", "dropping"}

ClaudeInit ==
  /\ claudeActive = FALSE /\ claudeRequest = NoMessage /\ claudeStatus = "running"
  /\ at = [m \in Messages |-> "new"]
  /\ haltAt = [h \in Halts |-> "new"] /\ haltSaw = [h \in Halts |-> NoMessage]
  /\ ear = "idle" /\ shutting = "open"
  /\ lives = TRUE /\ fed = <<>> /\ said = <<>> /\ answering = NoMessage

Steps(m, from, to) == at[m] = from /\ at' = [at EXCEPT ![m] = to]

-----------------------------------------------------------------------------
(* claudePrompt *)

AtRest == /\ ~claudeActive /\ ear = "idle" /\ said = <<>>
          /\ \A m \in Messages : at[m] \notin InService

TakeMessage(m) ==
  /\ Patience => AtRest
  /\ Steps(m, "new", IF lives THEN "accepted" ELSE "not_running")
  /\ UNCHANGED <<claudeFlag, claudeStatus, claudeHalts, ear, shutting, claudeProc>>

\* what the turn before left is dropped
ResetTurn(m) ==
  /\ Steps(m, "accepted", "reset")
  /\ claudeStatus' = "running"
  /\ UNCHANGED <<claudeFlag, claudeHalts, ear, shutting, claudeProc>>

CanWrite == lives /\ shutting = "open"

WriteMessage(m) ==
  /\ Steps(m, "reset", IF CanWrite THEN "written" ELSE "failing")
  /\ fed' = IF CanWrite THEN Append(fed, m) ELSE fed
  /\ UNCHANGED <<claudeFlag, claudeStatus, claudeHalts, ear, shutting, lives, said, answering>>

\* pushEvent turn/start after the write, in two halves
ClaimFlag(m) ==
  /\ Steps(m, "written", "claimed")
  /\ claudeRequest' = IF claudeActive THEN claudeRequest ELSE m
  /\ UNCHANGED <<claudeActive, claudeStatus, claudeHalts, ear, shutting, claudeProc>>

RaiseFlag(m) ==
  /\ Steps(m, "claimed", "submitted")
  /\ claudeActive' = TRUE
  /\ UNCHANGED <<claudeRequest, claudeStatus, claudeHalts, ear, shutting, claudeProc>>

\* the catch block
DropFailed(m) ==
  /\ Steps(m, "failing", "dropping")
  /\ claudeStatus' = "error" /\ claudeActive' = FALSE
  /\ UNCHANGED <<claudeRequest, claudeHalts, ear, shutting, claudeProc>>

ClearFailed(m) ==
  /\ Steps(m, "dropping", "error")
  /\ claudeRequest' = NoMessage
  /\ UNCHANGED <<claudeActive, claudeStatus, claudeHalts, ear, shutting, claudeProc>>

-----------------------------------------------------------------------------
(* handleClaudeStreamLine on the stdout reader thread *)

Hears(kind) ==
  /\ ear = "idle" /\ said # <<>> /\ Head(said) = kind
  /\ said' = Tail(said)
  /\ UNCHANGED <<claudeFlag, at, claudeHalts, lives, fed, answering>>

\* system/init with its servers connected
HearInit ==
  /\ Hears("init")
  /\ UNCHANGED <<claudeStatus, ear, shutting>>

\* fault: the missing server is reported and the process left running
HearBareInitOnly ==
  /\ Hears("bareInit")
  /\ claudeStatus' = "error"
  /\ ear' = "drop"
  /\ UNCHANGED shutting

\* system/init without the Convertigo server: turn/error, then stopEntry
HearBareInit ==
  /\ Hears("bareInit")
  /\ claudeStatus' = "error"
  /\ ear' = "dropAndStop"
  /\ UNCHANGED shutting

\* a result that is an error, or reads like a failed authentication
HearFailure ==
  /\ Hears("failure")
  /\ claudeStatus' = "error"
  /\ ear' = "drop"
  /\ UNCHANGED shutting

\* fault: only the end of a turn that failed is reported
HearResultSilently ==
  /\ Hears("result")
  /\ claudeStatus' = "completed"
  /\ UNCHANGED <<ear, shutting>>

HearResult ==
  /\ Hears("result")
  /\ claudeStatus' = "completed"
  /\ ear' = "drop"
  /\ UNCHANGED shutting

\* turn/end and turn/error carry no request id: they end any turn
DropTurn ==
  /\ ear \in {"drop", "dropAndStop"}
  /\ claudeActive' = FALSE
  /\ ear' = IF ear = "drop" THEN "clear" ELSE "clearAndStop"
  /\ UNCHANGED <<claudeRequest, claudeStatus, at, claudeHalts, shutting, claudeProc>>

ClearDropped ==
  /\ ear \in {"clear", "clearAndStop"}
  /\ claudeRequest' = NoMessage
  /\ ear' = IF ear = "clear" THEN "idle" ELSE "stop"
  /\ UNCHANGED <<claudeActive, claudeStatus, at, claudeHalts, shutting, claudeProc>>

Dies == /\ lives' = FALSE /\ answering' = NoMessage /\ fed' = <<>>
        /\ UNCHANGED said

\* stopEntry(entry, false): the entry stays registered
StopItself ==
  /\ ear = "stop"
  /\ ear' = "close"
  /\ shutting' = IF shutting = "open" THEN "killed" ELSE shutting
  /\ Dies
  /\ UNCHANGED <<claudeFlag, claudeStatus, at, claudeHalts>>

CloseItself ==
  /\ ear = "close"
  /\ ear' = "idle"
  /\ shutting' = "closed"
  /\ claudeStatus' = IF claudeStatus = "error" THEN "error" ELSE "closed"
  /\ claudeActive' = FALSE /\ claudeRequest' = NoMessage
  /\ UNCHANGED <<at, claudeHalts, claudeProc>>

HearEnd ==
  /\ ear = "idle" /\ said = <<>> /\ ~lives
  /\ ear' = "ended"
  /\ claudeStatus' \in IF claudeStatus \in {"closed", "completed", "error"}
                       THEN {claudeStatus} ELSE {claudeStatus, "exited"}
  /\ UNCHANGED <<claudeFlag, at, claudeHalts, shutting, claudeProc>>

-----------------------------------------------------------------------------
(* interrupt, and stopEntry called by another thread *)

StartHalt(h) ==
  /\ haltAt[h] = "new"
  /\ haltAt' = [haltAt EXCEPT ![h] = IF ~lives THEN "exited"
                                     ELSE IF claudeActive THEN "stopping" ELSE "idle"]
  /\ haltSaw' = [haltSaw EXCEPT ![h] = claudeRequest]
  /\ UNCHANGED <<claudeFlag, claudeStatus, at, ear, shutting, claudeProc>>

\* the claude-stream-json adapter: a control request that names no turn
WriteHalt(h) ==
  /\ haltAt[h] = "stopping"
  /\ haltAt' = [haltAt EXCEPT ![h] = IF CanWrite THEN "waiting" ELSE "error"]
  /\ fed' = IF CanWrite THEN Append(fed, NoMessage) ELSE fed
  /\ UNCHANGED <<claudeFlag, claudeStatus, at, haltSaw, ear, shutting, lives, said, answering>>

\* fault: the deadline is taken for an answer
EndHaltEarly(h) ==
  /\ haltAt[h] = "waiting"
  /\ haltAt' = [haltAt EXCEPT ![h] = IF ~lives THEN "exited" ELSE "interrupted"]
  /\ UNCHANGED <<claudeFlag, claudeStatus, at, haltSaw, ear, shutting, claudeProc>>

EndHalt(h) ==
  /\ haltAt[h] = "waiting"
  /\ haltAt' = [haltAt EXCEPT ![h] = IF ~lives THEN "exited"
                                     ELSE IF claudeActive THEN "timeout" ELSE "interrupted"]
  /\ UNCHANGED <<claudeFlag, claudeStatus, at, haltSaw, ear, shutting, claudeProc>>

StopByOther ==
  /\ shutting = "open"
  /\ shutting' = "killedByOther"
  /\ Dies
  /\ UNCHANGED <<claudeFlag, claudeStatus, at, claudeHalts, ear>>

CloseByOther ==
  /\ shutting = "killedByOther"
  /\ shutting' = "closed"
  /\ claudeStatus' = IF claudeStatus = "error" THEN "error" ELSE "closed"
  /\ claudeActive' = FALSE /\ claudeRequest' = NoMessage
  /\ UNCHANGED <<at, claudeHalts, ear, claudeProc>>

-----------------------------------------------------------------------------
(* Claude Code: it takes a user message when it is in no turn *)

ClaudeTakesMessage ==
  /\ lives /\ fed # <<>> /\ Head(fed) # NoMessage /\ answering = NoMessage
  /\ answering' = Head(fed) /\ fed' = Tail(fed)
  /\ said' \in {Append(said, "init"), Append(said, "bareInit")}
  /\ UNCHANGED <<claudeFlag, claudeStatus, at, claudeHalts, ear, shutting, lives>>

\* an interrupt that meets no turn changes nothing
ClaudeTakesHalt ==
  /\ lives /\ fed # <<>> /\ Head(fed) = NoMessage
  /\ fed' = Tail(fed)
  /\ answering' = NoMessage
  /\ said' = IF answering = NoMessage THEN said ELSE Append(said, "failure")
  /\ UNCHANGED <<claudeFlag, claudeStatus, at, claudeHalts, ear, shutting, lives>>

ClaudeAnswers ==
  /\ lives /\ answering # NoMessage
  /\ answering' = NoMessage
  /\ said' \in {Append(said, "result"), Append(said, "failure")}
  /\ UNCHANGED <<claudeFlag, claudeStatus, at, claudeHalts, ear, shutting, lives, fed>>

ClaudeExits ==
  /\ lives /\ Dies
  /\ UNCHANGED <<claudeFlag, claudeStatus, at, claudeHalts, ear, shutting>>

-----------------------------------------------------------------------------
Hear == \/ HearInit \/ HearBareInit \/ HearFailure \/ HearResult \/ DropTurn
        \/ ClearDropped \/ StopItself \/ CloseItself \/ HearEnd

ClaudeNext ==
  \/ \E m \in Messages : \/ TakeMessage(m) \/ ResetTurn(m) \/ WriteMessage(m)
                         \/ ClaimFlag(m) \/ RaiseFlag(m) \/ DropFailed(m) \/ ClearFailed(m)
  \/ Hear
  \/ \E h \in Halts : StartHalt(h) \/ WriteHalt(h) \/ EndHalt(h)
  \/ StopByOther \/ CloseByOther
  \/ ClaudeTakesMessage \/ ClaudeTakesHalt \/ ClaudeAnswers \/ ClaudeExits

ClaudeSpec == ClaudeInit /\ [][ClaudeNext]_claudeVars
ClaudeFair == WF_claudeVars(Hear) /\ WF_claudeVars(ClaudeAnswers)

-----------------------------------------------------------------------------
ClaudeTypeOK ==
  /\ claudeActive \in BOOLEAN /\ lives \in BOOLEAN
  /\ {claudeRequest, answering} \subseteq Messages \cup {NoMessage}
  /\ claudeStatus \in {"running", "completed", "error", "exited", "closed"}
  /\ at \in [Messages -> {"new", "not_running", "submitted", "error"} \cup InService]
  /\ haltAt \in [Halts -> {"new", "exited", "idle", "stopping", "waiting", "error",
                           "timeout", "interrupted"}]
  /\ haltSaw \in [Halts -> Messages \cup {NoMessage}]
  /\ ear \in {"idle", "drop", "clear", "dropAndStop", "clearAndStop", "stop", "close", "ended"}
  /\ shutting \in {"open", "killed", "killedByOther", "closed"}
  /\ fed \in Seq(Messages \cup {NoMessage})
  /\ said \in Seq({"init", "bareInit", "failure", "result"})

\* An interrupt that answers "interrupted" has ended the turn whose request
\* held the flag, unless the reader thread is on its way to stop the process.
HaltEndsTurn ==
  \A h \in Halts, m \in Messages :
    haltAt[h] = "interrupted" /\ haltSaw[h] = m
      => \/ answering # m /\ \A k \in DOMAIN fed : fed[k] # m
         \/ ear \in {"dropAndStop", "clearAndStop", "stop"}

\* Without the Convertigo MCP server the agent must stop instead of improvising
\* (comment of handleClaudeStreamLine): the process is stopped once the reader
\* meets the system/init that lacks it.
BareProcessStops == (said # <<>> /\ Head(said) = "bareInit") ~> ~lives

\* A submitted turn that runs gives the flag back, unless the process dies.
ClaudeReleasesFlag ==
  \A m \in Messages :
    (answering = m /\ at[m] = "submitted" /\ claudeActive) ~> (~claudeActive \/ ~lives)
=============================================================================
