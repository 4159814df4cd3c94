----------------------------- MODULE AgentTurns -----------------------------
(***************************************************************************)
(* The turns of one running ACP agent process (Vibe): the prompt calls,    *)
(* the interrupt calls and the stop of the process, each on a thread of    *)
(* its own, the thread that reads the agent's stdout, and the agent.       *)
(*                                                                         *)
(* The threads share the entry's turnActive / turnRequestId flag with no   *)
(* lock, so each read-modify-write of it is as many steps as the code has  *)
(* accesses that another thread may separate.  So they do the counter that *)
(* numbers the requests, which vibeClose (session/close) and a vibeStart   *)
(* that finds the process (session/set_config_option) also draw from while *)
(* a prompt is served.  A prompt call and each of those other requests are *)
(* one shot, and a pending object is identified with its request.          *)
(* Request id 0 stands for the empty string.                               *)
(***************************************************************************)
EXTENDS Naturals, Sequences, FiniteSets

CONSTANTS
  Calls,       \* the vibePrompt calls made to this process
  Others,      \* the session/close and session/set_config_option requests
  Interrupts,  \* the interrupt calls
  Waits,       \* the values of waitForCompletion the calls may carry
  Load,        \* bound: how many calls and other requests are made in all
  Overlap,     \* may a prompt call arrive while another one is being served?
  NoCall       \* no call; as a message on stdin, session/cancel

Requesters == Calls \cup Others

ASSUME ConstantsAssumption ==
  /\ NoCall \notin Requesters
  /\ Calls \cap Others = {}
  /\ Waits \subseteq BOOLEAN
  /\ Overlap \in BOOLEAN

VARIABLES
  turnActive,     \* entry.turnActive
  turnRequestId,  \* entry.turnRequestId, 0 when empty
  nextRequestId,  \* entry.nextRequestId
  pc,             \* where each prompt call or other request is
  waits,          \* a call's waitForCompletion
  id,             \* a request's id, 0 before it has one
  filed,          \* is its pending object the one entry.pending holds under id?
  answer,         \* pending.response: "none" until pending.done
  crossed,        \* history: have two requests drawn their ids at once?
  reader,         \* where the stdout reader thread is
  reading,        \* the call whose turn/end it is pushing
  ipc,            \* where each interrupt call is
  target,         \* the turn an interrupt call saw running
  stopping,       \* where stopEntry is
  status,         \* entry.status
  alive,          \* processAlive(entry.process)
  stdin,          \* lines written and not yet read by the agent
  stdout,         \* lines printed by the agent and not yet read
  agentTurn       \* the call whose turn the agent is running

callVars  == <<pc, waits, id, filed, answer, nextRequestId, crossed>>
flagVars  == <<turnActive, turnRequestId>>
readVars  == <<reader, reading>>
intrVars  == <<ipc, target>>
stopVars  == <<stopping, status>>
agentVars == <<alive, stdin, stdout, agentTurn>>
vars == <<callVars, flagVars, readVars, intrVars, stopVars, agentVars>>

(* Where a call may be between its arrival and its answer. *)
Served == {"describing", "cleared", "numbered", "filed", "written", "claimed",
           "waiting", "failing", "dropping"}
Outcomes == {"busy", "submitted", "completed", "error", "not_running"}

Response == [call : Requesters, kind : {"result", "error"}]

\* initialize and session/new took the ids 1 and 2
Init ==
  /\ turnActive = FALSE
  /\ turnRequestId = 0
  /\ nextRequestId = 3
  /\ pc = [r \in Requesters |-> "new"]
  /\ waits = [c \in Calls |-> FALSE]
  /\ id = [r \in Requesters |-> 0]
  /\ filed = [r \in Requesters |-> FALSE]
  /\ answer = [r \in Requesters |-> "none"]
  /\ crossed = FALSE
  /\ reader = "idle"
  /\ reading = NoCall
  /\ ipc = [i \in Interrupts |-> "new"]
  /\ target = [i \in Interrupts |-> 0]
  /\ stopping = "open"
  /\ status = "running"
  /\ alive = TRUE
  /\ stdin = <<>>
  /\ stdout = <<>>
  /\ agentTurn = NoCall

Goto(c, from, to) ==
  /\ pc[c] = from
  /\ pc' = [pc EXCEPT ![c] = to]

-----------------------------------------------------------------------------
(* vibePrompt *)

\* bound: one more call or request may come
Room == Cardinality({r \in Requesters : pc[r] # "new"}) < Load

Receive(c) ==
  /\ Room
  /\ Overlap \/ \A d \in Calls : pc[d] \notin Served
  /\ \/ /\ alive /\ status = "running"
        /\ Goto(c, "new", "describing")
        /\ \E w \in Waits : waits' = [waits EXCEPT ![c] = w]
     \/ /\ ~alive \/ status # "running"
        /\ Goto(c, "new", "not_running")
        /\ UNCHANGED waits
  /\ UNCHANGED <<id, filed, answer, nextRequestId, crossed>>
  /\ UNCHANGED <<flagVars, readVars, intrVars, stopVars, agentVars>>

\* fault: the guard on turnActive is missing
CheckBusyUnguarded(c) ==
  /\ Goto(c, "describing", "cleared")
  /\ UNCHANGED <<waits, id, filed, answer, nextRequestId, crossed>>
  /\ UNCHANGED <<flagVars, readVars, intrVars, stopVars, agentVars>>

\* the images have been described; a prompt met by a running turn is not sent
CheckBusy(c) ==
  /\ Goto(c, "describing", IF turnActive THEN "busy" ELSE "cleared")
  /\ UNCHANGED <<waits, id, filed, answer, nextRequestId, crossed>>
  /\ UNCHANGED <<flagVars, readVars, intrVars, stopVars, agentVars>>

-----------------------------------------------------------------------------
(* sendAcpRequest, for a prompt past the busy guard; for a close; and for a   *)
(* start that finds the process and configures its session                   *)

\* a close or a start asks only a process it has found alive
Asks(r) == IF r \in Calls THEN Goto(r, "cleared", "numbered")
                          ELSE Room /\ alive /\ Goto(r, "new", "numbered")

\* var id = entry.nextRequestId++ reads the counter, then stores it
ReadRequestId(r) ==
  /\ Asks(r)
  /\ id' = [id EXCEPT ![r] = nextRequestId]
  /\ crossed' = (crossed \/ \E s \in Requesters : pc[s] = "numbered")
  /\ UNCHANGED <<waits, filed, answer, nextRequestId>>
  /\ UNCHANGED <<flagVars, readVars, intrVars, stopVars, agentVars>>

\* entry.pending holds under an id the object last put there
FiledAfter(r) == [s \in Requesters |-> s = r \/ (filed[s] /\ id[s] # id[r])]

\* fault: the counter is not stored back
FilePendingUncounted(r) ==
  /\ Goto(r, "numbered", "filed")
  /\ nextRequestId' = id[r]
  /\ filed' = FiledAfter(r)
  /\ UNCHANGED <<waits, id, answer, crossed>>
  /\ UNCHANGED <<flagVars, readVars, intrVars, stopVars, agentVars>>

\* entry.pending.put replaces the object another request filed under the same id
FilePending(r) ==
  /\ Goto(r, "numbered", "filed")
  /\ nextRequestId' = id[r] + 1
  /\ filed' = FiledAfter(r)
  /\ UNCHANGED <<waits, id, answer, crossed>>
  /\ UNCHANGED <<flagVars, readVars, intrVars, stopVars, agentVars>>

Writable == alive /\ stopping = "open"

\* the caller of sendAcpRequest goes on: a prompt to its turn/start, the others
\* (acpRequest) to the wait; a failure of theirs is a warning
WriteRequest(r) ==
  /\ IF Writable
     THEN /\ Goto(r, "filed", IF r \in Calls THEN "written" ELSE "waiting")
          /\ stdin' = Append(stdin, r)
     ELSE /\ Goto(r, "filed", IF r \in Calls THEN "failing" ELSE "error")
          /\ UNCHANGED stdin
  /\ UNCHANGED <<waits, id, filed, answer, nextRequestId, crossed>>
  /\ UNCHANGED <<alive, stdout, agentTurn>>
  /\ UNCHANGED <<flagVars, readVars, intrVars, stopVars>>

(* waitForPending *)

\* it finds pending.done: the object is dropped by its id
TakeAnswer(r) ==
  /\ answer[r] # "none"
  /\ Goto(r, "waiting", IF answer[r] = "result" THEN "completed"
                        ELSE IF r \in Calls THEN "failing" ELSE "error")
  /\ filed' = [s \in Requesters |-> filed[s] /\ id[s] # id[r]]
  /\ UNCHANGED <<waits, id, answer, nextRequestId, crossed>>
  /\ UNCHANGED <<flagVars, readVars, intrVars, stopVars, agentVars>>

\* the process is gone, or the deadline passes; the pending object stays filed
GiveUp(r) ==
  /\ Goto(r, "waiting", IF r \in Calls THEN "failing" ELSE "error")
  /\ UNCHANGED <<waits, id, filed, answer, nextRequestId, crossed>>
  /\ UNCHANGED <<flagVars, readVars, intrVars, stopVars, agentVars>>

-----------------------------------------------------------------------------
(* vibePrompt, once its prompt is written *)

\* pushEvent turn/start, first half: the turn takes the flag unless one holds it
ClaimTurn(c) ==
  /\ Goto(c, "written", "claimed")
  /\ turnRequestId' = IF turnActive THEN turnRequestId ELSE id[c]
  /\ UNCHANGED <<waits, id, filed, answer, nextRequestId, crossed, turnActive>>
  /\ UNCHANGED <<readVars, intrVars, stopVars, agentVars>>

\* fault: turn/start records its request and raises no flag
RaiseTurnSilently(c) ==
  /\ Goto(c, "claimed", IF waits[c] THEN "waiting" ELSE "submitted")
  /\ UNCHANGED <<waits, id, filed, answer, nextRequestId, crossed, turnRequestId, turnActive>>
  /\ UNCHANGED <<readVars, intrVars, stopVars, agentVars>>

\* pushEvent turn/start, second half
RaiseTurn(c) ==
  /\ Goto(c, "claimed", IF waits[c] THEN "waiting" ELSE "submitted")
  /\ turnActive' = TRUE
  /\ UNCHANGED <<waits, id, filed, answer, nextRequestId, crossed, turnRequestId>>
  /\ UNCHANGED <<readVars, intrVars, stopVars, agentVars>>

\* the catch block pushes turn/error with no requestId: it ends any turn
FailDrop(c) ==
  /\ Goto(c, "failing", "dropping")
  /\ turnActive' = FALSE
  /\ UNCHANGED <<waits, id, filed, answer, nextRequestId, crossed, turnRequestId>>
  /\ UNCHANGED <<readVars, intrVars, stopVars, agentVars>>

FailClear(c) ==
  /\ Goto(c, "dropping", "error")
  /\ turnRequestId' = 0
  /\ UNCHANGED <<waits, id, filed, answer, nextRequestId, crossed, turnActive>>
  /\ UNCHANGED <<readVars, intrVars, stopVars, agentVars>>

-----------------------------------------------------------------------------
(* handleAcpLine on the stdout reader thread *)

\* the requests whose pending object is on file under the id of a response
Found(response) ==
  {r \in Requesters : filed[r] /\ id[r] = id[response.call]}

\* a response: its pending object, if any, is done, and a prompt's ends a turn
Deliver ==
  /\ reader = "idle" /\ stdout # <<>>
  /\ answer' = [r \in Requesters |->
                  IF r \in Found(Head(stdout)) THEN Head(stdout).kind ELSE answer[r]]
  /\ \/ /\ reading' \in Found(Head(stdout)) \cap Calls
        /\ reader' = "delivered"
     \/ /\ Found(Head(stdout)) \cap Calls = {}
        /\ UNCHANGED readVars
  /\ stdout' = Tail(stdout)
  /\ UNCHANGED <<pc, waits, id, filed, nextRequestId, crossed, alive, stdin, agentTurn>>
  /\ UNCHANGED <<flagVars, intrVars, stopVars>>

\* fault: the end of a turn that has a request id is never its own
EndsTurnUnclaimed(c) == turnRequestId = 0

\* pushEvent: only the end of the running turn's request ends it
EndsTurn(c) == turnRequestId \in {0, id[c]}

EndTurn ==
  /\ reader = "delivered"
  /\ IF EndsTurn(reading)
     THEN /\ turnActive' = FALSE
          /\ reader' = "clearing"
     ELSE /\ reader' = "idle"
          /\ UNCHANGED turnActive
  /\ reading' = NoCall
  /\ UNCHANGED <<callVars, turnRequestId, intrVars, stopVars, agentVars>>

ClearTurn ==
  /\ reader = "clearing"
  /\ reader' = "idle"
  /\ turnRequestId' = 0
  /\ UNCHANGED <<callVars, turnActive, reading, intrVars, stopVars, agentVars>>

\* end of the stream: the finally block of the reader thread.  isAlive may
\* still be true when the stream ends, and then the status stays
ReaderExit ==
  /\ reader = "idle" /\ stdout = <<>> /\ ~alive
  /\ reader' = "ended"
  /\ status' \in IF status = "closed" THEN {status} ELSE {status, "exited"}
  /\ UNCHANGED <<callVars, flagVars, reading, intrVars, stopping, agentVars>>

-----------------------------------------------------------------------------
(* interrupt *)

StartInterrupt(i) ==
  /\ ipc[i] = "new"
  /\ ipc' = [ipc EXCEPT ![i] = IF ~alive THEN "exited"
                               ELSE IF turnActive THEN "stopping" ELSE "idle"]
  /\ target' = [target EXCEPT ![i] = turnRequestId]
  /\ UNCHANGED <<callVars, flagVars, readVars, stopVars, agentVars>>

\* the acp adapter writes session/cancel, which names no turn
WriteCancel(i) ==
  /\ ipc[i] = "stopping"
  /\ IF Writable
     THEN /\ stdin' = Append(stdin, NoCall)
          /\ ipc' = [ipc EXCEPT ![i] = "waiting"]
     ELSE /\ ipc' = [ipc EXCEPT ![i] = "error"]
          /\ UNCHANGED stdin
  /\ UNCHANGED <<target, alive, stdout, agentTurn>>
  /\ UNCHANGED <<callVars, flagVars, readVars, stopVars>>

\* fault: the deadline is taken for an answer
EndInterruptEarly(i) ==
  /\ ipc[i] = "waiting"
  /\ ipc' = [ipc EXCEPT ![i] = IF ~alive THEN "exited" ELSE "interrupted"]
  /\ UNCHANGED <<target, callVars, flagVars, readVars, stopVars, agentVars>>

\* the wait ends: the flag fell, the process died or the deadline passed
EndInterrupt(i) ==
  /\ ipc[i] = "waiting"
  /\ ipc' = [ipc EXCEPT ![i] = IF ~alive THEN "exited"
                               ELSE IF turnActive THEN "timeout" ELSE "interrupted"]
  /\ UNCHANGED <<target, callVars, flagVars, readVars, stopVars, agentVars>>

-----------------------------------------------------------------------------
(* stopEntry, for a close, a sweep or a restart *)

CloseWriter ==
  /\ stopping = "open"
  /\ stopping' = "writer_closed"
  /\ UNCHANGED <<status, callVars, flagVars, readVars, intrVars, agentVars>>

\* the agent is gone, with its turn and what it had not read
Gone == /\ alive' = FALSE
        /\ agentTurn' = NoCall
        /\ stdin' = <<>>
        /\ UNCHANGED stdout

KillTree ==
  /\ stopping = "writer_closed"
  /\ stopping' = "killed"
  /\ Gone
  /\ UNCHANGED <<status, callVars, flagVars, readVars, intrVars>>

\* status, then pushEvent system/closed, in two halves as above
CloseDrop ==
  /\ stopping = "killed"
  /\ stopping' = "dropping"
  /\ status' = "closed"
  /\ turnActive' = FALSE
  /\ UNCHANGED <<turnRequestId, callVars, readVars, intrVars, agentVars>>

CloseClear ==
  /\ stopping = "dropping"
  /\ stopping' = "stopped"
  /\ turnRequestId' = 0
  /\ UNCHANGED <<status, turnActive, callVars, readVars, intrVars, agentVars>>

-----------------------------------------------------------------------------
(* The agent: one turn at a time, a prompt during a turn is refused *)

AgentTakesPrompt ==
  /\ alive /\ stdin # <<>> /\ Head(stdin) \in Calls
  /\ stdin' = Tail(stdin)
  /\ IF agentTurn = NoCall
     THEN /\ agentTurn' = Head(stdin)
          /\ UNCHANGED stdout
     ELSE /\ stdout' = Append(stdout, [call |-> Head(stdin), kind |-> "error"])
          /\ UNCHANGED agentTurn
  /\ UNCHANGED <<alive, callVars, flagVars, readVars, intrVars, stopVars>>

\* the agent answers a session/close or a session/set_config_option at once
AgentTakesRequest ==
  /\ alive /\ stdin # <<>> /\ Head(stdin) \in Others
  /\ stdin' = Tail(stdin)
  /\ \E kind \in {"result", "error"} :
       stdout' = Append(stdout, [call |-> Head(stdin), kind |-> kind])
  /\ UNCHANGED <<agentTurn, alive, callVars, flagVars, readVars, intrVars, stopVars>>

AgentTakesCancel ==
  /\ alive /\ stdin # <<>> /\ Head(stdin) = NoCall
  /\ stdin' = Tail(stdin)
  /\ agentTurn' = NoCall
  /\ stdout' = IF agentTurn = NoCall THEN stdout
               ELSE Append(stdout, [call |-> agentTurn, kind |-> "result"])
  /\ UNCHANGED <<alive, callVars, flagVars, readVars, intrVars, stopVars>>

AgentEndsTurn ==
  /\ alive /\ agentTurn # NoCall
  /\ \E kind \in {"result", "error"} :
       stdout' = Append(stdout, [call |-> agentTurn, kind |-> kind])
  /\ agentTurn' = NoCall
  /\ UNCHANGED <<alive, stdin, callVars, flagVars, readVars, intrVars, stopVars>>

AgentExits ==
  /\ alive
  /\ Gone
  /\ UNCHANGED <<callVars, flagVars, readVars, intrVars, stopVars>>

-----------------------------------------------------------------------------
CallStep(c) ==
  \/ Receive(c) \/ CheckBusy(c) \/ ReadRequestId(c) \/ FilePending(c)
  \/ WriteRequest(c) \/ ClaimTurn(c) \/ RaiseTurn(c)
  \/ TakeAnswer(c) \/ GiveUp(c) \/ FailDrop(c) \/ FailClear(c)

OtherStep(q) ==
  \/ ReadRequestId(q) \/ FilePending(q) \/ WriteRequest(q)
  \/ TakeAnswer(q) \/ GiveUp(q)

ReaderStep == Deliver \/ EndTurn \/ ClearTurn \/ ReaderExit
InterruptStep(i) == StartInterrupt(i) \/ WriteCancel(i) \/ EndInterrupt(i)
StopStep == CloseWriter \/ KillTree \/ CloseDrop \/ CloseClear
AgentStep ==
  AgentTakesPrompt \/ AgentTakesRequest \/ AgentTakesCancel \/ AgentEndsTurn

Next ==
  \/ \E c \in Calls : CallStep(c)
  \/ \E q \in Others : OtherStep(q)
  \/ ReaderStep
  \/ \E i \in Interrupts : InterruptStep(i)
  \/ StopStep
  \/ AgentStep
  \/ AgentExits

Spec == Init /\ [][Next]_vars

\* the reader thread runs, and the agent reads its stdin and ends its turns
Fairness ==
  WF_vars(ReaderStep) /\ WF_vars(AgentStep) /\ WF_vars(AgentEndsTurn)

FairSpec == Spec /\ Fairness

-----------------------------------------------------------------------------
(* Properties *)

CallsOK ==
  /\ turnRequestId \in Nat /\ nextRequestId \in Nat
  /\ pc \in [Requesters -> {"new"} \cup Served \cup Outcomes]
  /\ waits \in [Calls -> BOOLEAN]
  /\ id \in [Requesters -> Nat]
  /\ filed \in [Requesters -> BOOLEAN]
  /\ answer \in [Requesters -> {"none", "result", "error"}]
  /\ crossed \in BOOLEAN

ThreadsOK ==
  /\ reader \in {"idle", "delivered", "clearing", "ended"}
  /\ reading \in IF reader = "delivered" THEN Calls ELSE {NoCall}
  /\ ipc \in [Interrupts -> {"new", "idle", "stopping", "waiting", "error",
                             "exited", "timeout", "interrupted"}]
  /\ target \in [Interrupts -> Nat]
  /\ stopping \in {"open", "writer_closed", "killed", "dropping", "stopped"}
  /\ status \in {"running", "exited", "closed"}

PipesOK ==
  /\ stdin \in Seq(Requesters \cup {NoCall})
  /\ stdout \in Seq(Response)
  /\ agentTurn \in Calls \cup {NoCall}

TypeOK ==
  /\ turnActive \in BOOLEAN /\ alive \in BOOLEAN
  /\ CallsOK /\ ThreadsOK /\ PipesOK

Sent(c) == \E k \in DOMAIN stdin : stdin[k] = c

\* no call has asked to wait for its answer (the deadline of one that has may
\* lower the flag of another turn: OnlyOwnEndDropsFlag)
NoneWaits == \A c \in Calls : ~waits[c]

\* While a turn runs, no other prompt reaches the agent: the Bridge answers
\* busy instead (vibePrompt's guard, docs/bridge-contract.md:237).
OneTurnAtATime ==
  agentTurn # NoCall => \A c \in Calls : ~Sent(c)

\* A turn the agent runs, and whose prompt call has answered "submitted",
\* holds the flag up: interrupt finds it and the sweep gives it its longer TTL.
SubmittedTurnHoldsFlag ==
  \A c \in Calls : agentTurn = c /\ pc[c] = "submitted" => turnActive

\* Until a call waits for its answer, an interrupt that answers "interrupted"
\* leaves no trace of the turn it saw running: the agent is not in it and no
\* longer has it to do (as long as no two requests have drawn one id).
InterruptedTurnIsOver ==
  NoneWaits /\ ~crossed => \A i \in Interrupts, c \in Calls :
    ipc[i] = "interrupted" /\ id[c] = target[i] => agentTurn # c /\ ~Sent(c)

\* Until two requests draw their ids at once, each takes the answer to its own:
\* a prompt is completed neither by the late answer of one that gave up nor by
\* the answer to a close or a configuration, though all are on file together.
AnswersOwnPrompt ==
  [][ \A r \in Requesters :
        ~crossed /\ answer'[r] # answer[r] =>
          Head(stdout).call = r /\ pc[r] \notin {"new", "describing", "cleared"} ]_vars

\* As long as the process lives, the flag falls only once the running turn's
\* own end has been read (docs/bridge-contract.md:238, pushEvent's comment).
OnlyOwnEndDropsFlag ==
  [][ alive /\ turnActive /\ ~turnActive' /\ agentTurn # NoCall
        => turnRequestId # id[agentTurn] ]_vars

\* A turn that runs under its own flag gives the flag back, unless the process
\* dies first or two requests draw one id: then the answer that ends the turn
\* may find the object of the other.
RunningTurnReleasesFlag ==
  \A c \in Calls :
    (agentTurn = c /\ turnActive /\ turnRequestId = id[c] /\ pc[c] = "submitted")
      ~> (~turnActive \/ ~alive \/ crossed)

-----------------------------------------------------------------------------
(* The inductive invariant behind OneTurnAtATime and SubmittedTurnHoldsFlag *)
(* when calls are served one at a time and none of them waits.             *)

Answered(c) == \E k \in DOMAIN stdout : stdout[k].call = c
Handled(c) == reader = "delivered" /\ reading = c
InFlight(c) == Sent(c) \/ agentTurn = c \/ Answered(c) \/ Handled(c)

\* past the busy guard, with the turn not yet announced
Cleared == {"cleared", "numbered", "filed", "written", "claimed", "failing", "dropping"}
\* the prompt was never written
Unwritten == {"new", "describing", "cleared", "numbered", "filed", "failing",
              "dropping", "busy", "error", "not_running"}

ServedAlone == \A c, d \in Calls : pc[c] \in Served /\ pc[d] \in Served => c = d
NoWaiter == \A c \in Calls : ~waits[c] /\ pc[c] \notin {"waiting", "completed"}
UnwrittenNotInFlight == \A c \in Calls : pc[c] \in Unwritten => ~InFlight(c)
ClearedSeesNoTurn == alive => \A c \in Calls : pc[c] \in Cleared => ~turnActive
InFlightHoldsFlag ==
  alive => \A c \in Calls : InFlight(c) /\ pc[c] = "submitted" => turnActive
OneInFlight == alive => \A c, d \in Calls : InFlight(c) /\ InFlight(d) => c = d
OnePlace ==
  \A c \in Calls :
    /\ Sent(c) => agentTurn # c /\ ~Answered(c) /\ ~Handled(c)
    /\ agentTurn = c => ~Answered(c) /\ ~Handled(c)
    /\ Answered(c) => ~Handled(c)
    /\ \A k, l \in DOMAIN stdin : stdin[k] = c /\ stdin[l] = c => k = l
    /\ \A k, l \in DOMAIN stdout : stdout[k].call = c /\ stdout[l].call = c => k = l
DeadIsEmpty ==
  /\ stopping \in {"killed", "dropping", "stopped"} => ~alive
  /\ ~alive => agentTurn = NoCall /\ stdin = <<>>

SerialInv ==
  /\ ServedAlone /\ NoWaiter /\ UnwrittenNotInFlight /\ ClearedSeesNoTurn
  /\ InFlightHoldsFlag /\ OneInFlight /\ OnePlace /\ DeadIsEmpty

\* While calls come one at a time, until one waits for its answer or two requests
\* draw one id: no prompt reaches the agent during a turn, and a submitted turn
\* that runs holds the flag (vibePrompt, pushEvent), with the inductive invariant
\* they follow from.
TurnFlagInv ==
  TypeOK /\ (NoneWaits /\ ~crossed =>
               SerialInv /\ OneTurnAtATime /\ SubmittedTurnHoldsFlag)
=============================================================================
