---------------------------- MODULE ClaudeSession ----------------------------
(***************************************************************************)
(* The starts and the prompts of one conversation with Claude Code, and    *)
(* what its process runs with.  A model, the reveal mode, the MCP token    *)
(* and the viewer endpoint are read by Claude Code when it starts: to      *)
(* change one of them the bridge stops the process and starts another that *)
(* resumes the session.  Calls come one at a time (AgentRegistry has those *)
(* that overlap).  The effort is treated as the model is.                  *)
(***************************************************************************)
EXTENDS Naturals

CONSTANTS
  Models,      \* models a call may ask for
  Ports,       \* viewer ports, LeasedPort among them
  LeasedPort,  \* the port ensureManagedViewerDebugPort leases to the conversation
  Changes,     \* how often the token, and the skill bundle, may change
  NotGiven,    \* an option the call leaves out
  Missing      \* no entry, no process

ASSUME SessionAssumption == LeasedPort \in Ports /\ Changes \in Nat
ASSUME MissingIsNoEntry ==
  Missing \notin [model : Models \cup {NotGiven}, reveal : BOOLEAN, token : Nat,
                  port : Ports, bundle : Nat, session : Nat]

VARIABLES
  entry,       \* the entry registered under the handle
  agent,       \* what the live process was started with
  call,        \* the call being served, or the answer of the last one
  token,       \* the secret behind the token handle
  bundle,      \* the skill bundle of the home
  sessions     \* sessions Claude Code has opened

sessionVars == <<entry, agent, call, token, bundle, sessions>>

NoSession == 0
Requests == [model : Models \cup {NotGiven}, reveal : BOOLEAN \cup {NotGiven},
             port : Ports \cup {NotGiven}]

\* wanted: as the client sent it; asked: as the code goes on with it
NoAsk == [model |-> NotGiven, reveal |-> NotGiven, port |-> NotGiven, session |-> NoSession]
NoCallNow == [stage |-> "idle", prompt |-> FALSE, wanted |-> NoAsk, asked |-> NoAsk,
              resume |-> NoSession, retried |-> FALSE, status |-> "none"]

SessionInit ==
  /\ entry = Missing /\ agent = Missing
  /\ call = NoCallNow
  /\ token = 0 /\ bundle = 0 /\ sessions = 0

RevealOf(o, default) == IF o.reveal = NotGiven THEN default ELSE o.reveal
PortOf(o, default) == IF o.port = NotGiven THEN default ELSE o.port
Differs(asked, current) == asked # NotGiven /\ asked # current
Registers == entry # Missing
Runs == agent # Missing

Reply(status) == call' = [NoCallNow EXCEPT !.status = status]

-----------------------------------------------------------------------------
\* a client that keeps the session id may send it with a start
StartArrives(r) ==
  /\ call.stage = "idle"
  /\ \E s \in {NoSession, sessions} :
       LET o == [model |-> r.model, reveal |-> r.reveal, port |-> r.port, session |-> s]
       IN call' = [NoCallNow EXCEPT !.stage = "start", !.wanted = o, !.asked = o]
  /\ UNCHANGED <<entry, agent, token, bundle, sessions>>

PromptArrives(r) ==
  /\ call.stage = "idle"
  /\ LET o == [model |-> r.model, reveal |-> r.reveal, port |-> r.port, session |-> NoSession]
     IN call' = [NoCallNow EXCEPT !.stage = "prompt", !.prompt = TRUE, !.wanted = o, !.asked = o]
  /\ UNCHANGED <<entry, agent, token, bundle, sessions>>

-----------------------------------------------------------------------------
(* claudeStart, also when claudePrompt calls it *)

MustRestart(o) ==
  \/ token # entry.token
  \/ RevealOf(o, entry.reveal) # entry.reveal
  \/ Differs(o.model, entry.model)
  \/ PortOf(o, LeasedPort) # entry.port

ReuseAgent ==
  /\ call.stage = "start" /\ Registers /\ Runs
  /\ ~MustRestart(call.asked)
  /\ Reply("already_running")
  /\ UNCHANGED <<entry, agent, token, bundle, sessions>>

\* fault: the process is replaced without its session
StopToRestartAnew ==
  /\ call.stage = "start" /\ Registers /\ Runs
  /\ MustRestart(call.asked)
  /\ call' = [call EXCEPT !.stage = "setup", !.resume = entry.session]
  /\ entry' = Missing /\ agent' = Missing
  /\ UNCHANGED <<token, bundle, sessions>>

\* the session goes on, unless the client names one
StopToRestart ==
  /\ call.stage = "start" /\ Registers /\ Runs
  /\ MustRestart(call.asked)
  /\ LET kept == IF call.asked.session # NoSession THEN call.asked.session ELSE entry.session
     IN call' = [call EXCEPT !.stage = "setup", !.asked.session = kept, !.resume = entry.session]
  /\ entry' = Missing /\ agent' = Missing
  /\ UNCHANGED <<token, bundle, sessions>>

StartAfresh ==
  /\ call.stage = "start" /\ ~(Registers /\ Runs)
  /\ call' = [call EXCEPT !.stage = "setup"]
  /\ UNCHANGED <<entry, agent, token, bundle, sessions>>

\* a claudePrompt that was told the session is unknown starts once more without
StartFails(unknown) ==
  IF call.prompt /\ unknown /\ ~call.retried
  THEN call' = [call EXCEPT !.stage = "start", !.retried = TRUE, !.asked.session = NoSession]
  ELSE Reply("error")

SetupFailed ==
  /\ call.stage = "setup"
  /\ StartFails(FALSE)
  /\ UNCHANGED <<entry, agent, token, bundle, sessions>>

\* claudeSetup is done: the entry is created and registered
Create ==
  /\ call.stage = "setup"
  /\ entry' = [model |-> call.asked.model, reveal |-> RevealOf(call.asked, FALSE),
               token |-> token, port |-> PortOf(call.asked, LeasedPort),
               bundle |-> bundle, session |-> call.asked.session]
  /\ call' = [call EXCEPT !.stage = "launch"]
  /\ UNCHANGED <<agent, token, bundle, sessions>>

\* fault: a prompt goes on with the options of the client
LaunchClaudeAskedAgain ==
  /\ call.stage = "launch"
  /\ agent' = entry
  /\ IF call.prompt THEN call' = [call EXCEPT !.stage = "prompt", !.asked = call.wanted]
                    ELSE Reply("started")
  /\ UNCHANGED <<entry, token, bundle, sessions>>

\* a prompt goes on with the options of its restart
LaunchClaude ==
  /\ call.stage = "launch"
  /\ agent' = entry
  /\ IF call.prompt THEN call' = [call EXCEPT !.stage = "prompt"]
                    ELSE Reply("started")
  /\ UNCHANGED <<entry, token, bundle, sessions>>

\* stopEntry(entry, false): the entry stays registered
LaunchFails ==
  /\ call.stage = "launch"
  /\ \E unknown \in BOOLEAN : StartFails(unknown)
  /\ UNCHANGED <<entry, agent, token, bundle, sessions>>

-----------------------------------------------------------------------------
(* claudePrompt *)

RefusePrompt ==
  /\ call.stage = "prompt"
  /\ \/ ~Registers /\ Reply("not_found")
     \/ Registers /\ ~Runs /\ Reply("not_running")
  /\ UNCHANGED <<entry, agent, token, bundle, sessions>>

NeedsRestart(o) ==
  \/ PortOf(o, entry.port) # entry.port
  \/ Differs(o.model, entry.model)
  \/ bundle # entry.bundle

\* the reveal mode and the bundle of the entry follow, whatever the process has
Refreshed(o) == [entry EXCEPT !.reveal = RevealOf(o, entry.reveal), !.bundle = bundle]

\* fault: the restart is asked for before the model is stored
RestartWithOldModel ==
  /\ call.stage = "prompt" /\ Registers /\ Runs
  /\ NeedsRestart(call.asked)
  /\ call' = [call EXCEPT !.stage = "start", !.resume = entry.session, !.retried = FALSE,
                          !.asked = [model |-> entry.model, port |-> entry.port,
                                     reveal |-> Refreshed(call.asked).reveal,
                                     session |-> entry.session]]
  /\ entry' = Missing /\ agent' = Missing
  /\ UNCHANGED <<token, bundle, sessions>>

\* claudeRestartOptions are those of the entry, the port of the old process
\* included; the process is stopped, and the start finds none
RestartForPrompt ==
  /\ call.stage = "prompt" /\ Registers /\ Runs
  /\ NeedsRestart(call.asked)
  /\ LET model == IF call.asked.model # NotGiven THEN call.asked.model ELSE entry.model
     IN call' = [call EXCEPT !.stage = "start", !.resume = entry.session, !.retried = FALSE,
                             !.asked = [model |-> model, port |-> entry.port,
                                        reveal |-> Refreshed(call.asked).reveal,
                                        session |-> entry.session]]
  /\ entry' = Missing /\ agent' = Missing
  /\ UNCHANGED <<token, bundle, sessions>>

SubmitPrompt ==
  /\ call.stage = "prompt" /\ Registers /\ Runs
  /\ ~NeedsRestart(call.asked)
  /\ entry' = Refreshed(call.asked)
  /\ Reply("submitted")
  /\ UNCHANGED <<agent, token, bundle, sessions>>

-----------------------------------------------------------------------------
(* Claude Code, and what changes around it *)

\* system/init names the session, a new one unless one was resumed
NamesSession ==
  /\ Runs /\ entry.session = NoSession /\ sessions < Changes
  /\ sessions' = sessions + 1
  /\ entry' = [entry EXCEPT !.session = sessions']
  /\ agent' = [agent EXCEPT !.session = sessions']
  /\ UNCHANGED <<call, token, bundle>>

AgentDies ==
  /\ Runs
  /\ agent' = Missing
  /\ UNCHANGED <<entry, call, token, bundle, sessions>>

TokenRenewed ==
  /\ token < Changes
  /\ token' = token + 1
  /\ UNCHANGED <<entry, agent, call, bundle, sessions>>

BundleChanges ==
  /\ bundle < Changes
  /\ bundle' = bundle + 1
  /\ UNCHANGED <<entry, agent, call, token, sessions>>

-----------------------------------------------------------------------------
CallStep == \/ ReuseAgent \/ StopToRestart \/ StartAfresh \/ SetupFailed \/ Create
            \/ LaunchClaude \/ LaunchFails
            \/ RefusePrompt \/ RestartForPrompt \/ SubmitPrompt

SessionNext ==
  \/ \E r \in Requests : StartArrives(r) \/ PromptArrives(r)
  \/ CallStep
  \/ NamesSession \/ AgentDies \/ TokenRenewed \/ BundleChanges

SessionSpec == SessionInit /\ [][SessionNext]_sessionVars
SessionFair == WF_sessionVars(CallStep)

-----------------------------------------------------------------------------
Answers(status) == call.stage # "idle" /\ call'.stage = "idle" /\ call'.status = status

\* A prompt is submitted to a process that runs the model asked for, with the
\* skill bundle last read (claudePrompt: Claude Code restarts before the next turn).
SubmittedAsChosen ==
  [][ Answers("submitted") =>
        /\ ~Differs(call.wanted.model, agent.model)
        /\ agent.bundle = entry'.bundle ]_sessionVars

\* A process that replaces a live one resumes its session, or one the client
\* named, unless Claude Code does not know it any more.
RestartResumes ==
  [][ agent' # Missing /\ agent = Missing /\ call.resume # NoSession /\ ~call.retried
        => agent'.session \in {call.resume, call.wanted.session} \ {NoSession} ]_sessionVars

\* Every call is answered: a prompt restarts the process for each change once.
CallIsAnswered == (call.stage # "idle") ~> (call.stage = "idle")

\* docs/bridge-contract.md: agent_claude_start restarts the process when the
\* model, the effort, the reveal mode or the MCP token changes; what it leaves
\* running has those it was asked for.
ReusedAsAsked ==
  [][ Answers("already_running") =>
        /\ RevealOf(call.asked, agent.reveal) = agent.reveal
        /\ ~Differs(call.asked.model, agent.model)
        /\ agent.token = token ]_sessionVars

\* A restart for other options loses neither the options nor the session.
RestartsAsAsked == SubmittedAsChosen /\ RestartResumes
=============================================================================
