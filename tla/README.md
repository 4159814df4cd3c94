# Agent Bridge in TLA+

The Agent Bridge (`c8oprj-lib-convertigo-agent-bridge`) lets a Convertigo engine
run coding agents (Vibe, Codex, Claude) as child processes and gives the Studio
and No Code front ends a small HTTP interface to them: start, prompt, events,
interrupt, status, close.  The engine serves every request on a thread of its
own, every agent process has reader threads, and one more thread reaps idle
processes.  All of them share plain Java maps, JavaScript objects and files of
the workspace, mostly without locks.  This directory models what those threads
do to each other, and what they make of the streams the agents write.

The specifications are translated from `src/js/*.js`; `PROJECT.json` ("map")
names the lines each definition stands for.  Line numbers below are those of
`js/agent_bridge_common.js` unless another file is named (`vibe:`, `codex:` and
`claude:` stand for `js/agent_bridge_vibe.js` and so on).

## 1. The system

| Component | State | Operations | Interacts with |
| --- | --- | --- | --- |
| Vibe turns (`vibePrompt`, `sendAcpRequest`, `handleAcpLine`, `interrupt`, `stopEntry`) | `turnActive`, `turnRequestId`, `nextRequestId`, `pending`, `status`, the pipes | prompt, interrupt, stop; the reader thread's lines; the end of the stream | event buffer (each `pushEvent` also moves the turn flag), registry |
| Event buffer (`pushEvent`, `events`) | `nextIndex`, `firstIndex`, the list | push with trimming; long poll with a cursor | every producer thread, the client |
| Registry (`vibeStart`, `vibeClose`, `sweepRegistry`, `enforceUserLimit`) | handle -> entry map; status, prewarm, last access of the entries | start, prewarm, close, sweep, user limit | turns, reaper, guard |
| Process lifecycle (`startProcess`, PID files, guard, shutdown hook) | PID files on disk, guard processes, hooks | launch with its sweep of orphans, stop, normal exit, crash | several engines on one workspace |
| Reaper (`ensureAgentReaper`, `reaperTick`) | a system property `revision:id:beat` | ensure, tick | the registry's sweeps |
| Codex turns and items (`codexPrompt`, the app-server's notifications) | the flag, `codexTurnEnded`, `activeTurnId`, the streaming maps | prompt, interrupt, turn and item notifications | events, stops |
| Codex exec (`codexPrompt` without app-server, the session file watcher) | the line count and keys of the file, the watcher, the process | one process per prompt, two readers of one turn | events |
| Codex starts (`codexStart`) | the entry, the thread, the skill bundle | start, initialize, open or resume a thread, restart | skills, leases |
| Claude turns and stream (`claudePrompt`, stream-json) | the flag, content blocks, narration, tool calls | prompt, interrupt, lines, result | events, stops |
| Claude starts (`claudeStart`) | options of the entry and of the process, the session | start, restart with other options, resume | skills, leases, token |
| Managed skills | files of the home, their acknowledged versions, what the agent has read | install, open, turn, read | starts and prompts of Codex and Claude |
| Homes (`vibeSetup`, `codexSetup`, `claudeSetup`) | `config.toml`, MCP servers, skills, the intent file, the virtual environment | set up, bootstrap, patch | the user, Vibe, the loaded projects |
| Runtime installation | the managed runtimes, the Playwright package, lock files | detect, lock, download, install | every conversation of a workspace |
| Storage clean-up | homes, records, PID files, the sweep's marker | sweep, exact cleanup | starts, records, PID files |
| Viewer debug ports | one lease file per conversation | lease, release | starts, storage sweep |
| Cache file and file locks | a JSON file, its lock | lock with time-out, read, write | every thread and engine |
| Claude authentication cache | a verdict in the store and in a file | probe, keep, sign in, forget | settings calls |
| Logins | login processes and their registry, credentials | start, status, expiry, logout | the user |
| Credential copies | credentials of workstation, user and conversation homes, the Keychain | copy the newest, sign in and out | home set-ups, the CLIs |
| Vibe journal | segments, the state file of the totals | resume, count, save | Vibe, which appends, removes and rewrites |
| Session updates and permissions (`handleAcpLine`, `handleAgentRequest`) | the replay flag, the last 200 tool titles | drop replayed updates, remember titles, grant or refuse | Vibe's starts, its reader thread |
| Sweep clock, server store; Vibe settings; access and resources; plan synchronisation; sandbox; sequences; demonstration page; build | see section 6 | | |

What is hard in it, and what makes each part correct:

* **Turns.**  The busy guard of Vibe, the write of the prompt and the raise of the
  flag are three steps; the reader thread may report the end of the turn between any
  two of them.  Codex and Claude have no busy guard, and what ends their turns names
  no request.  Correct: the agent gets no prompt during a turn, a running turn
  holds the flag and gives it back, every end is reported once, an interrupt that
  reports success has stopped what it saw.
* **Streams.**  A text comes in pieces, then whole, then listed again, and only later
  is it known to be the answer.  Correct: the client is shown each text once and whole,
  each tool with one end.
* **Events.**  Two unsynchronized counters, a synchronized list that several
  threads append to and trim, and a reader that makes one read after another.
  Correct: indexes increase, nothing is delivered twice or out of order, the
  client catches up.
* **Registry.**  The map is read before a set-up that takes seconds and written
  after it; victims are chosen from a snapshot and stopped one by one; a
  removal goes by handle, whatever the handle now leads to.  Correct: a
  conversation has one process, a live process can be reached, a sweep stops
  neither a turn nor a start, the user limit comes back.
* **Restarts.**  A prompt restarts a process that died, or that runs with other options
  or older skills.  Correct: the conversation resumes the thread it had, with what was
  asked for, and a start that fails leaves nothing behind.
* **Lifecycle.**  Any engine may crash between the spawn of a process and its
  PID file, several engines share the PID files, the hook works from a snapshot.
  Correct: orphans are stopped, the processes of a live engine are not.
* **Reaper.**  Callers and reapers read and write one property with nothing in
  between.  Correct: one reaper in the end, and a reaper is not doubled while it
  beats.
* **Files.**  Homes, caches, leases, credentials and journals are read whole, changed and
  written whole by several threads and by programs the bridge does not control, and any
  of these may stop in between.  Correct: what a write must keep is kept, what serves a
  conversation is not deleted, what cannot be parsed is taken for nothing, usage is counted
  once.

`PROJECT.json` lists each of these hazards at its line, with the properties that
cover it, and every component with what is modelled of it.

## 2. The modules

| Module | Models |
| --- | --- |
| `AgentTurns` (+ `_proofs`) | the turns of one Vibe process |
| `EventLog`, `AgentEvents` (+ `_proofs`) | what `agent_events` promises; the event buffer and the polls that implement it |
| `AgentRegistry` (+ `_proofs`) | registry, starts, closes, sweeps and the user limit (Vibe) |
| `AgentGuard` (+ `_proofs`) | PID files, orphan sweep, guard, shutdown hook |
| `AgentReaper` | the reaper thread and its property |
| `CodexTurns`, `ClaudeTurns` | the turns of a resident Codex and of a resident Claude Code |
| `TextDelivery`, `CodexItems`, `ClaudeStream` | what a stream promises for each text; the two streams that implement it |
| `CodexExec` | a Codex process per prompt, and the watcher of its session file |
| `CodexSession`, `ClaudeSession` | starts, restarts and prompts of one conversation |
| `SkillBundle` | managed skills: installation, acknowledgement, reads |
| `VibeSetup`, `HomeSetup` | the set-up of a Vibe home, and of a Codex or Claude home |
| `RuntimeInstall` | installation of the managed runtimes |
| `AgentStorage`, `ViewerLeases` | homes, their sweep and their cleanup; the leases of the viewer's ports |
| `SharedCacheFile`, `ClaudeAuthCache` | the locked cache file; the cached authentication verdict |
| `ProviderLogins`, `CredentialCopies` | browser sign-ins; copies of credentials between homes |
| `SessionUpdates` | replayed sessions, titles of tool calls, permission requests (Vibe) |
| `JournalUsage` (+ `_proofs`) | usage and measures read from Vibe's journal |
| `MCAgentTurns`, `MCAgentEvents`, `MCAgentRegistry`, `MCAgentGuard`, `MCClaudeSession` | instances of one module, with their symmetries |
| `MCThreads`, `MCAgents`, `MCEngine` | instances that put several modules side by side |
| `Threads_proofs`, `Agents_proofs`, `Engine_proofs` | the proofs about the modules of `MCThreads`, `MCAgents` and `MCEngine` |

Operators under a comment that starts with `fault:` are not part of a
specification: each is a definition with a plausible bug in it, used to see that
a property notices it.

**Side by side.**  `MCThreads`, `MCAgents` and `MCEngine` hold several machines
that share no variable.  A variable `scene` is drawn in the initial state; a behaviour
is one of that machine, with the fairness of that machine, while the others stand still.
They are not products: the number of states is the sum of those of the scenes.  The machines
of a group ask one question together (what threads must get done, what conversations keep,
what an engine shares), which is the run's.  What the components do share in the code
reaches each module as its environment: `AgentStorage` has starts, `CodexSession` skill
bundles that change, `ClaudeSession` tokens and leased ports, `ViewerLeases` the storage
sweep.

**Composed properties.**  A property of a run may be the conjunction of named parts
(`TurnsInv`, `ConversationIsKept`, ...).  Each part is a definition with its own comment in the
module it is about, beside the `fault:` operator that breaks it; `PROJECT.json` names one
of these faults for each property, the others can be put in place of the definition they follow in
the same way.

### AgentTurns

A prompt call (`Calls`) is one `agent_vibe_prompt` request; `pc[c]` is where its
thread is.  `describing` is the description of its images, during which the
flag may change; `CheckBusy` is the guard on `turnActive`
(vibe:1049), read once, after it.  `ReadRequestId` and
`FilePending` are the two halves of `entry.nextRequestId++` with the `put` in
`pending`.  Two other threads draw from that counter while a prompt is served: `vibeClose` for its
`session/close` (vibe:1120) and a `vibeStart` that finds the process and configures its session
(vibe:487); their requests are `Others`, one shot each, and fewer requests than names are made (`Load`).
Two requests that took the same id replace each other's pending object,
which is why `filed` says whose object the map holds; `crossed` remembers that two were between the read
and the write of the counter at once.  `WriteRequest` is the
write on stdin.  `ClaimTurn` and `RaiseTurn` are the two assignments of
`pushEvent` for `turn/start` (10876-10880).  A call that waits goes on with
`TakeAnswer` (as the other requests do), or `GiveUp` when its deadline passes or its process is gone, and its
`catch` block is `FailDrop` and `FailClear`: `turn/error` without request id.
The reader thread is `Deliver` (the pending object found under the id of the response is done), `EndTurn` and
`ClearTurn` (`pushEvent` for `turn/end`, which only the running turn's request
id, or an empty one, lets through) and `ReaderExit`.  An interrupt reads the flag,
writes `session/cancel`, which names no turn, and polls the flag.  `stopEntry`
closes the writer, kills the tree and pushes `system/closed`.  The agent is an
environment: one turn at a time, a second prompt is refused with an error, a cancel
ends the turn it finds, a close or a configuration is answered at once.  stdin and stdout are the sequences of what was written and
not yet read.

### AgentEvents and EventLog

`pushEvent` is `ReadNextIndex`, `StoreNextIndex`, `AddEvent`, then the trimming
loop `CheckSize`, `RemoveOldest`, `ReadFirstIndex`, `StoreFirstIndex`: each `++`
is a read and a write.  `events()` is `Clamp` (first read of `firstIndex`),
`ComputeOffset` (second read), `ReadSize`, one `GetEvent` per element, and
`Answer`; `GetFails` is the exception of `get(i)` on a list that has shrunk, after
which the client polls again with the same cursor.  `EventLog` is the promise of
`docs/bridge-contract.md:207-213`: events are added at the end of one log with
increasing indexes, and an answer carries the next ones.

### AgentRegistry

A thread serves one call at a time, `call[t]`.  A start sweeps when the sweep is
due, looks its handle up, waits for a start under way (`AwaitStart`), takes,
restarts or replaces what it finds, sets up, puts its entry (`PutEntry`), enforces
the limit entry by entry (`EnforceUserLimit`, `JudgeOther`, `StopAboveLimit`),
spawns and initializes (`Spawn`, `Ready`, `StartFails`).  A sweep judges entry
by entry and stops as it goes (`Judge`), then brings the user back within the
limit (`SweepUserLimit`); each stop is a kill, a close and a removal by handle
(`KillVictim`, `CloseVictim`, `RemoveVictim`), seconds apart in the code.  An
events read may sweep too, and keeps its own conversation.  Idle times are ranks:
0 recent, 1 above the prewarm TTL, 2 above the No Code TTL, 3 above the hour a turn is
given.

### AgentGuard

`Launch` to `RecordPid` is `startProcess`: the sweep of the PID files reads each
record (`ReadPidFile`), judges it against the registry and the owner
(`JudgePidFile`, with `StopVerdict` for `pidRecordVerdict`), destroys the orphan
and deletes the file, then the agent is spawned, under its guard or alone, and its
pid recorded.  A stop goes through the guard first.  An engine may crash at any
step; a normal exit runs the shutdown hook (`HookBegins` to `HookEnds`, two seconds) and then
halts.  A guard watches the owner's pid, and when it is gone, or when its child
exits or it is told to stop, sweeps everything of its group and exits.  `Posix` tells
the hosts apart: on Windows `sweep()` returns at once (11292) and `taskkill /T` (11307) reaches the child's tree only,
so that what the agent detached stays.  Each engine
and each process has an identity of its own: the reuse of a pid by the operating
system is not modelled.

### AgentReaper

Time goes by periods of a minute.  A caller that finds the property missing, of
another revision or stale draws an id (`ReadProperty`), writes the property
(`NameReaper`) and starts the thread (`StartReaper`).  A reaper that wakes up
checks that the property names it (`CheckName`), writes its beat (`Beat`) and
sweeps.  `Deploy` installs newer code; a reaper keeps the revision it started with.

### CodexTurns and ClaudeTurns

The shape is that of `AgentTurns`, the differences are the point.  `codexPrompt` and
`claudePrompt` have no busy guard; they drop the state of the turn before (`Reset`,
`ResetTurn`), write, then raise the flag.  The `turn/end` of both carries no request id.
In Codex, `entry.codexTurnEnded` is all that tells an end that was reported
from one that was not: `ReadCompleted` is the test, `EndTurn` the rest of
`pushCodexTurnEnd`, and a `turn/started` raises the flag too (`ReadStarted`,
`RaiseStarted`).  `turn/interrupt` names the turn id last seen, Claude's interrupt none.
The app-server keeps accepted turns in a queue (`waiting`) and may report an
error of the turn it runs, which lowers the flag while the turn goes on (`CodexReportsError`, once a turn; `failed` says of which),
Claude Code reads its stdin when its
turn is over.  A `system/init` without the Convertigo server (`HearBareInit`) makes the reader
thread report the error and then stop the process itself.  `Patient` and `Patience` say whether the client
prompts only when the last turn is over and its end has been read, as the front ends do; a patient client of Codex does not take
an error for that end.

### CodexExec

Every prompt is a process.  Its stdout and the session file, to which all turns of the conversation
append, report the same turn to two threads.  `Announce`, `Forget`, `Baseline` and `Exec` are the steps of a
prompt: the flag, the watcher's state dropped, the lines of the turns before skipped, the
process started.  The watcher takes a snapshot of the complete lines, handles those above its count and not
among the keys it has seen, and outlives the process by `Grace` polls.  Lines carry their run, so that
one can tell for which turn an end is reported.  `Settled` says that the client prompts only once the watcher has
ended.

### CodexItems, ClaudeStream and TextDelivery

A text is a sequence of numbered pieces.  `TextDelivery` is the promise: the client is shown the pieces in
their order, each once, and all by the time the text is closed.  In `CodexItems` a delta goes to a pending
buffer that may be flushed at any of its breaks, a completed item is shown as what is left of it, and
`turn/completed` may list it again (`ListItem`) before the turn ends; a streamed final answer is pushed twice, as an answer chunk
and as a progress message (codex:1219-1220): `shown` counts the first and `told` the second; an `agentMessage` whose phase comes late, or never,
waits.  In `ClaudeStream` a block is streamed, stopped, and repeated by an
assistant message, in either order, or comes whole; texts wait in `narration` until a tool call shows them as
a commentary (`ShowNarration`) or the result of the turn repeats the last one as the answer.  Where the code breaks a
text into events is left open, and the texts of two items differ.

### CodexSession and ClaudeSession

One call at a time, in stages: `codexStart` sets up, launches, initializes the app-server, opens or resumes the thread,
and lists its MCP servers; each stage may fail, and the failure stops the process and removes the entry.  The
app-server knows a thread in another process only when a turn of it was accepted (`kept`).  A prompt whose process is
dead or whose home has a newer skill bundle restarts with the thread of the entry.  `ClaudeSession` has the options a
process reads when it starts (model, reveal mode, token, viewer port): `entry` holds what was wished, `agent` what
the process was started with, and a call that finds them different stops and starts with `--resume`.  A session Claude
does not know any more is tried once, then a new one begun.

### SkillBundle, VibeSetup and HomeSetup

`SkillBundle` installs managed skills (each file a version), takes the bundle when a conversation opens, asks a turn
to read it when a version changed, and records the reads the agent's tool calls show: for codex exec a command that names the file,
for Claude a read tool or a skill tool.  The app-server's items are not looked at for reads (codex:1331-1345), and Vibe has no managed bundle.  The bundle is acknowledged when all it asks for was read.

`VibeSetup` is `vibeSetup`: read the configuration, compare it with what is wanted and with the recorded
intent, write both one after the other (the file is truncated, then filled; an intent may be lost), migrate the presets of an older
version (`MigrateConfig`), and build the virtual environment, while other setups run, the engine
stops, the user edits the file and `lib_ConvertigoMCP` rewrites the query of the url.  `HomeSetup` is the sequence of
reads and whole-file writes of `config.toml` (Codex) or the generated file (Claude), the Flow server
and skills that come and go with the loaded projects, and the router skill.

### RuntimeInstall, SharedCacheFile, ProviderLogins

`RuntimeInstall` detects, takes the install lock file, detects again, installs, and installs the Playwright
package; what is partly there may pass for installed, a user's own command is the fallback, and stops leave partial files.
`SharedCacheFile` reads a first time, waits for the lock file with a time-out after which the write is
dropped, reads again, truncates, writes.  `ProviderLogins` is the start of a browser login (registry, credentials,
logout for Codex, spawn, each a step), its status poll and the expiry after ten minutes that Codex lacks.

### AgentStorage, ViewerLeases

`AgentStorage` has the periodic sweep (`BeginStorageSweep` takes the references, `SweepHome` deletes later, home by home)
and the exact cleanup of one conversation (`ReadPidFile`, `CleanAgent`, `CleanHomes`), which matches the home that holds the session only when the call names the session (9679);
with starts, agents that outlive
their engine, records that are marked deleted and expire, and homes that bear no conversation's name.
`ViewerLeases` reads the ports of the others (`AskPort`), then keeps or writes its own (`GrantPort`); the storage sweep drops old
leases of conversations unknown to its snapshot.

### ClaudeAuthCache, CredentialCopies

`ClaudeAuthCache` keeps a verdict in the engine's store and in a file, each read and written in a step of its own; the answer to
a sign-in asks the CLI and forgets both (`ForgetStore`, `ForgetFile`).  `CredentialCopies` numbers sessions by their expiry and
keeps the order in which files were last written, which is what the bridge goes by: `ChooseSource` judges the sources, `CopyFrom` copies
later, `CopyStops` leaves a torn file; a Claude session past its time that carries a refresh token (`renews`) is stale,
still usable and not replaced by force; the CLIs rewrite files of their own, and the Keychain of macOS is written over a home.

### SessionUpdates

The thread of a start raises the replay flag, waits for `session/load` and lowers the flag (`EndLoad`), while the reader
thread takes what the agent prints: updates, the answer to the load, permission requests.  Titles of tool calls are kept, the oldest
forgotten first (`Remember`); a request is judged by its own title, by the one kept, or by an id that names the tool
(`TitleIsKnown`), and answered at once.

### JournalUsage

Vibe appends records to the last segment, opens segments, removes the oldest and rewrites some.  A call lists the segments, resumes
each at the offset of the state file, or starts again when a segment is shorter than that, counts by call id, and saves; the state file is
truncated before it is written, so that a call which begins while another saves may find none (`FilesFound`).  Two actions
stand for the session (a vision tool, and a later tool whose result repeats its usage): enough to tell a usage counted twice from one lost.

## 3. What the runs check

| Run | Question | Bounds |
| --- | --- | --- |
| `TurnsSerial` | When prompt calls come one at a time, does the turn flag of Vibe do its work until one waits, and does each call complete with its own answer although they wait and give up, beside a close or a configuration? | 2 calls, waiting or not, and another request, 2 of these 3 made; 1 interrupt, a stop, a death |
| `TurnsTimeout` | *(violated)* Does only the end of the running turn lower the flag? | 1 waiting call |
| `EventsTwoThreads` | *(violated)* Do indexes increase with two producers? | 2 threads, 2 events each |
| `RegistryAlone` | Are registry, sweeps and limit right when calls are served one after another? | 3 conversations, 3 entries, a limit of 2 |
| `RegistryLive` | Does the reaper restore the limit and clear the dead? | 2 conversations, 2 entries, a limit of 1 |
| `RegistryTwoStarts` | *(violated)* Does a conversation have one process when two starts overlap? | 2 threads, 2 entries |
| `RegistryOverlap` | When starts, closes, reads and sweeps of a conversation overlap, is a start spared? | 2 threads and the reaper, 1 entry |
| `GuardSweep` | Do sweeps of PID files, guards, hooks and crashes stop the right processes? | 2 engines, 2 processes, 2 conversations; Linux or macOS |
| `Agents` | Do Codex and Claude conversations keep flag, thread, session and options? | 2 prompts and 1 interrupt each; 2 bundles, 3 threads; 2 models, 2 ports, 1 change |
| `ClaudeReused` | *(violated)* Does `already_running` mean that the process runs as asked? | 2 models, 1 port |
| `Threads` | Are buffer, Codex command, reaper, installation, cache and logins safe, and do they end? | 5 events, a buffer of 2, answers of 2; 2 commands, 1 poll of grace; 4 reaper ids, 2 callers; 2 installers; 2 writers, 3 writes; 2 callers, 3 logins |
| `Engine` | What do overlapping setups, sweeps, sign-ins and readers do to the files they share, and what is shown of a stream? | 2 of each kind of call, 2 versions, ports, sessions and segments, 1 query of the MCP url; 1 conversation with a home of another name; 2 pieces a text; 2 tool calls, 1 title kept |

The calls and starts of a run are finite and processes end, so the systems may stop:
no run checks deadlock.

**Turns.**  `TurnFlagInv` is `OneTurnAtATime` (no prompt is on its way while a
turn runs), `SubmittedTurnHoldsFlag` (a running turn that was answered "submitted" is
seen by interrupt and by the sweep) and the inductive invariant `SerialInv` of section 5;
`InterruptedTurnIsOver`: an interrupt that answers
"interrupted" leaves nothing of the turn it saw, though `session/cancel` names none;
`RunningTurnReleasesFlag` is liveness.
These two hold until a call waits for its answer (`NoneWaits`): from then on its time-out
may lower the flag, which is what `TurnsTimeout` shows.  `AnswersOwnPrompt` holds with calls that
wait too: a call completes with the answer to its own prompt, a close or a configuration with its own.  All four hold
as long as no two requests are between the read and the write of `nextRequestId` at once (`crossed`): section 4
says what happens then.  The stop is independent of the close, which also comes from sweeps and restarts.
Two calls let a turn end while the next prompt is being described, an interrupt meet a turn that follows
the one it saw, and the answer to a call that gave up arrive while the next one waits; a third meets
no situation the second has not.  A call beside the other request is where their ids could meet; three at a time were too many states, and
the theorems of section 5 have no such bound.

**Registry.**  `RegistryAlone` needs three conversations and a limit of two for the choice
of the least recently used process to be one.  `RegistryInv` is `LiveIsRegistered` and `OnePrewarm`
(and that a conversation has one process follows); `SweepsSpareUse` (`SweepSparesTurns` and
`PollKeepsConversation`) and `LimitIsEnforced` are about steps.  `RegistryLive` adds
`LimitRestored` and `DeadIsSwept`, for which a second conversation and a limit of one are enough.
`RegistryOverlap` lets everything overlap on one conversation and its one process:
`SweepSparesStarts` still holds there, since a verdict against a start cannot be reached
within its grace and nothing goes back to `starting`.

**Guard.**  `GuardSweep` checks that a sweep spares what a live engine has registered
(`SweepSparesLive`), stops the recorded orphans before a spawn (`LaunchStopsOrphans` in `GuardInv`), and
that
guards stop the agents of dead engines and, on Linux and macOS, everything they
detached when no engine is left (`GuardsStopOrphans`; with `Posix = FALSE` what they detached stays, as `GuardSweepsTree` would have it everywhere).  Two engines and two processes give an own
and a foreign, a live and a dead record to judge.  One launch at a time is enough for these: a record
on file is always that of a launch that has ended.

**Agents.**  Two prompts are enough for an end to be taken for that of another turn, with an interrupt that saw either.
`TurnsInv`: a turn that runs holds the flag, an interrupt that answers "interrupted" has ended
what it saw, but for Codex turns of which an error was reported.  `EveryEndIsReported`: no `turn/completed` is dropped as already reported.  `ConversationIsKept`: a prompt reaches a process
that knows its thread, through failed starts and restarts (three threads: the one it has, one lost, one opened instead).
`RestartsAsAsked`: a prompt that was answered "submitted" was given to a process with the model asked for, and a restart resumes the session.
`TurnsEnd` and `CallsAreAnswered` are liveness, a Claude without its MCP server included.

**Threads.**  `BufferInv`: with one producer indexes increase, and nothing is received twice or out of order whatever is trimmed
between two reads of an answer; `NewestIsReceived`: the client catches up.  Five events in a buffer of two make
the trimming overtake a poll several times; an answer of two is needed for a removal
to fall inside an answer.  In a second scene of the same module nothing is trimmed, and `LogIsImplemented` is the refinement of
`EventLog`.  `LinesAreSorted`: two threads and two sources, each line handled once and each end given to its own turn, over two commands
that append to one file; `PrintedEndIsReported` its liveness.  `ReaperInv` and `OneReaperRemains`: a named reaper is never taken for dead; with no upgrade
one reaper is left (four ids are two reapers, and two that callers have drawn).
`InstallsAreWhole`: overlapping installations neither write over each other nor answer
"installed" with half a runtime.  `NothingIsUndone`: writers of different sections do not undo one another, whoever waits, times out or stops.
`LoginsAreSafe`: starts that do not cross keep to one login and remove no credentials unasked.  `CallsEnd`: each of these calls ends.

**Engine.**  `ReadsAreKnown` says that what is taken for read was read, and, for Claude and codex exec, that what was read is not asked again.  It, `ConfigIsJudged`, `HomeIsReady`, `StorageIsSafe`, `QuietCallIsAlone`, `CopiesBringSessions`, `SignInPrevails` and
`UsageIsCounted` say what is kept although reads and writes are apart.  Where the code gives no protection they are conditioned, by history variables, on what it
relies on: a setup that no other setup crossed (`alone`, `raced`, `quiet`), a journal of which no segment was rewritten or removed under a
call (`intact`), a PID file the sweep did not take (`lost`).  Section 4 says what happens without.  Two overlapping calls and two values are enough for each to be
lost; a conversation and a home with another name give the storage both kinds of home.  Two conversations with their own homes were checked apart and do
not fit beside the other scenes.  `TurnIsShown` and `TextsAreDelivered` are the refinements of `TextDelivery`, with texts of two pieces; the first adds that a streamed final answer is told in
progress messages as it is shown, and that tools end once.  One query of the MCP url is enough for `ConfigIsJudged`, since `_setupVibe` gives the url another.
`UpdatesAreJudged`: replayed history is not shown unless its load was given up, no update of a turn is taken for history, and a restricted session
allows no foreign tool whose title it still knows; with one title kept, each call can make the other forgotten.

**Fairness.**  `AgentTurns`, `CodexTurns`, `ClaudeTurns`: the stdout reader runs, and the agent reads stdin and ends its
turns, which is what makes it an agent; calls, interrupts and stops owe nothing.  `CodexSession`, `ClaudeSession`: a call that was received goes on,
each of its stages being bounded by a time-out in the code.
`AgentEvents`: the client keeps polling, a push once begun goes on (no step of it blocks).
`AgentRegistry`: a call once received is served, and the reaper's `Receive` is strongly fair: it
needs the moments at which no other call is served.  This assumes that the reaper wins the sweep clock again and
again; a client that polls one conversation without a pause could take the clock every
time with its own conversation kept.  `AgentGuard`: only the guards, which are processes of their own, make progress;
engines may stop at any point.  `AgentReaper`: the threads run, the agents are used, time passes.  `CodexExec`: both readers run.
`RuntimeInstall` and `SharedCacheFile`: a thread that took a lock goes on, or stops.  `ProviderLogins`: the user interface
polls the status, and ten minutes pass.  The modules of `Engine` need none.


## 4. Where the code and its documents disagree

Four runs end in a violation, and `PROJECT.json` quotes the line each contradicts.

* `TurnsTimeout`: a prompt call with `waitForCompletion` that reaches its deadline pushes
  `turn/error` without a request id, which `pushEvent` accepts as the end of any turn.  The flag falls
  while the agent goes on; `docs/bridge-contract.md:238` says that only the end of the running turn's request ends it.
* `EventsTwoThreads`: `entry.nextIndex++` and the addition to the list are not one step, and several
  threads push: two events get one index, or come in the wrong order;
  `docs/bridge-contract.md:207` promises a strictly increasing one.
* `RegistryTwoStarts`: a prewarm and a first message that both find no entry both start a process,
  since the entry is put after the set-up; vibe:395 means to wait "rather than start a second one".
* `ClaudeReused`: a prompt stores the reveal mode of its options on the entry and does not restart for it
  (claude:2272); a start that asks for this mode afterwards compares it with the entry (claude:1971) and
  answers `already_running`, while the process runs with the mode it was started with;
  `docs/bridge-contract.md:197-199` says that the process is restarted when that mode changes.

The models, and the reading they come from, show more interleavings that no property rules out.  Some appear when
a constant is set otherwise:

* **Turns.**  `Overlap = TRUE` in `AgentTurns` with two calls refutes `OneTurnAtATime`: both pass the busy guard before
  either raises the flag.  They may share a request id too, `nextRequestId++` being a read and a write (11913), and so may a lone prompt and the `session/close` of
  `vibeClose` (vibe:1120) or the `session/set_config_option` of a `vibeStart` that finds the process (vibe:487): the prompt is then
  completed, and its turn ended, by the answer to the other, or the end of its turn is lost.  The properties of run `TurnsSerial` leave such histories out (`crossed`).
  An agent that answers before `turn/start` is pushed leaves the flag up with no turn; that is why
  `SubmittedTurnHoldsFlag` is an implication and `RunningTurnReleasesFlag` starts from a turn that runs under its own flag.
  `vibePrompt` describes the images of a prompt before the busy guard refuses it (vibe:1018).
* **Events.**  One removal between two `GetEvent` shifts the list, and the cursor passes an event still in the buffer.
  Several threads that trim together each remove what they saw above the limit (10888).
* **Registry.**  `Overlap = TRUE` refutes `SweepSparesTurns` (a turn starts in a victim between its verdict and its kill),
  `LiveIsRegistered` (a removal by handle takes the entry put since) and `LimitIsEnforced`.
* **Guard.**  With two launchers on one handle, `DropPidFile` deletes the record another start has just written (11502); a start in
  flight when the hook takes its snapshot spawns an agent the hook does not stop (11167); an agent whose pid is not yet known to the hook
  loses its guard alone (`KilledAlone`, 11193).  On Windows nothing stops what an agent has detached (11292): `Posix = FALSE` shows it, and
  `GuardsStopOrphans` asks for it elsewhere only.
* **Reaper.**  A reaper of the older revision that has checked its name writes it over that of its newer successor (12555).
* **Codex turns.**  `Patient = FALSE` refutes `EveryEndIsReported`: with no busy guard, a late or overlapping
  `turn/completed` is dropped as already reported, or ends the turn after its own (codex:2329, codex:169).  An `error` notification in the middle of a turn lowers the flag while the turn goes on
  (codex:1556-1564): an interrupt then answers idle; `InterruptEndsTurn` and `RunningTurnHoldsFlag` leave such turns out.  A prompt empties the
  streaming maps of a turn that still runs; the pending objects of `turn/start` are never removed.
* **Codex exec.**  `Settled = FALSE` refutes `LinesHandledOnce` and `OwnLineEnds`: the poller replays lines of the turn
  before while the next is prepared (codex:864-883).  A poller that lags behind stdout handles `task_started` after the end of the turn
  and leaves the flag up; `codexTurnEnded` is tested and set by two threads (codex:170).
* **Claude turns.**  An overlapping prompt clears the narration of the turn that runs; a `result` without id ends any
  turn (claude:2892).  Two texts with no tool call between them: the first is not shown when the turn ends.
* **Skills.**  The app-server path never records a read (codex:1331-1345; only codex:436, 451 and 614 do, for `codex-jsonl`): there
  a skill that changed is asked for again at every turn although it was read, while the comment of claude:2738-2740 says that "Codex records them".
  `ReadSkillsAreNotAsked` leaves that protocol out.  A Codex command that names `SKILL.md` and fails counts as a read (codex:351-357); when a fingerprint cannot be
  computed, a change is not seen (codex:2437-2438).
* **Homes.**  `claudeSetup` may answer ready on the file of an earlier setup when the bootstrap failed (claude:1627), and `codexSetup`
  ignores the bootstrap's answer; overlapping Codex setups may leave a Flow server in `config.toml` although Flow is gone
  (4188-4225); Claude never removes the Flow skills.  In Vibe, a virtual environment left half built is not built again
  (vibe:186-197, while `docs/windows-runtime.md:30-31` speaks of a repair).
* **Runtimes.**  The Playwright package of a runtime that is reused is installed without a lock (7161); the first detection
  of Python, outside the lock, may accept what another call is unpacking (6762).
* **Storage.**  The sweep takes its references, then deletes (9495-9825): a conversation that starts in between
  can lose its home; a PID file that was rewritten since it was read is deleted (9596); the exact cleanup of a
  conversation removes a home of another name that also holds the session of another (9679-9681), and leaves the home that holds the session when
  the call does not name it (9607, 9650).
* **Leases.**  Reading the ports of the others and writing one's own have no lock (3491, 3517): two starts may take one port, unless
  one is alone, which is what `QuietCallIsAlone` says.
* **Cache file.**  A write that waited too long for the lock is dropped with no error (5870-5874); a stop in the middle leaves a file
  that cannot be parsed, taken for empty.
* **Authentication cache.**  A settings call under way during a sign-in may put "out" back after both copies were
  forgotten; hence `uncrossed`.
* **Logins.**  Two starts that cross spawn two login processes (codex:1691, 1725), and the logout of one may remove the credentials the
  other has just obtained (codex:1706).  A Codex login has no time limit (codex:1627).
* **Credential copies.**  The newest file goes by its time of writing: an expired copy written last replaces a home that
  was usable (4726-4753); a torn file with a newer time is kept (4693-4698).
* **Session updates.**  When `session/load` is not answered in time the flag falls and the history still being replayed reaches the
  conversation, although the comment at 11843 says that it must not; a title forgotten after 200 others lets a restricted session run a
  foreign tool.  What Vibe prints between its answer to the load and the moment the start's thread sees that answer is dropped as history
  (vibe:704), and the writer's three calls (11531-11533) are not one step between the threads that use it; neither is in the model.
* **Journal.**  A segment removed between the listing and its length counts as rewritten, and the totals start
  again (10771-10774); one rewritten to at least its old length is not noticed; two overlapping readers save one over the other; one that begins while another
  saves may find the file cut short, and starts over.

## 5. What is proved

The theorems hold for every value of the constants that the named assumption of their module
allows.  Each rests on an inductive invariant: it holds at the start, each step keeps it, and it
implies the property.  The properties and the invariants were checked by TLC first.  Every safety property of the
passing runs is the conclusion of a theorem.

| Theorem | States | Also assumes |
| --- | --- | --- |
| `AgentTurns_proofs!TypeCorrect` | `TypeOK` | - |
| `AgentTurns_proofs!SerialCorrect`, `OneTurn`, `FlagHeld`, together `FlagCorrect` | `SerialInv`, `OneTurnAtATime`, `SubmittedTurnHoldsFlag`, `TurnFlagInv` | calls come one at a time |
| `AgentTurns_proofs!NumbersCorrect`, `AnswersOwn` | `~crossed => NumbersInv`, `AnswersOwnPrompt` | - |
| `AgentTurns_proofs!InterruptCorrect` | `InterruptedTurnIsOver` | calls come one at a time |
| `AgentEvents_proofs!TypeCorrect`, `IndexIncreases`, `NothingReceivedTwice`, together `BufferCorrect` | `EventsTypeOK`, `IndexStrictlyIncreasing`, `NeverGoesBack`, `BufferInv` | one producer |
| `AgentEvents_proofs!ImplementsTheLog` | `ImplementsLog` | one producer, a buffer that holds every event |
| `AgentRegistry_proofs!TypeCorrect`, `StartsCorrect`, `StartsAreSpared` | `TypeOK`, `StartsInv`, `SweepSparesStarts` | - |
| `AgentRegistry_proofs!SerialCorrect`, `RegistryCorrect`, `OneProcess`, `UseIsNeverSwept`, `LimitCorrect` | `SerialInv`, `RegistryInv`, `OneProcessPerHandle`, `SweepsSpareUse`, `LimitIsEnforced` | calls come one at a time |
| `AgentGuard_proofs!TypeCorrect`, `OrphansStopped`, together `GuardCorrect`; `SparesLive` | `TypeOK`, `LaunchStopsOrphans`, `GuardInv`; `SweepSparesLive` | - |
| `Agents_proofs!TurnsCorrect`, `EndsReported` | `TurnsInv`, `EveryEndIsReported` | a client that prompts once the last turn is over and read |
| `Agents_proofs!ConversationKept`, `RestartsCorrect` | `ConversationIsKept`, `RestartsAsAsked` | - |
| `Agents_proofs!AgentsCorrect` | the four of run `Agents`, of its own specification | the same client |
| `Threads_proofs!ReaperTypes`, `NamedBeats`, together `ReaperCorrect` | `ReaperTypeOK`, `NamedReaperBeats`, `ReaperInv` | - |
| `Threads_proofs!WritesAreKept`, `InstallationIsWhole`, `LoginsDoNotMeet` | `NothingIsUndone`, `InstallsAreWhole`, `LoginsAreSafe` | - |
| `Threads_proofs!LinesSorted` | `LinesAreSorted` | `Settled`, `Grace > 0` |
| `Threads_proofs!ThreadsCorrect` | the seven safety properties of run `Threads`, of its own specification | one producer, `Settled`, `Grace > 0` |
| `Engine_proofs!SignInIsKept`, `ReadsCorrect`, `HomeCorrect`, `LeasesCorrect`, `StorageCorrect`, `ConfigCorrect`, `CopiesCorrect`, `UpdatesCorrect` | `SignInPrevails`, `ReadsAreKnown`, `HomeIsReady`, `QuietCallIsAlone`, `StorageIsSafe`, `ConfigIsJudged`, `CopiesBringSessions`, `UpdatesAreJudged` | - |
| `Engine_proofs!ItemsCorrect`, `StreamCorrect` | `TurnIsShown`, `TextsAreDelivered` | - |
| `JournalUsage_proofs!UsageCorrect` | `UsageIsCounted` | - |
| `Engine_proofs!EngineCorrect` | these eleven, of the specification of run `Engine` | - |

**Assumptions on the constants.**  Each is named in its module and evaluated by TLC.  Most say that a bound is a
natural number and that the value for "nobody" is none of the actors.  `UnsetIsNoEntry` and `MissingIsNoEntry` (no entry
is not an entry), `HomeNames` (the name of a home of an older version is not the id of a conversation), `ItemAssumption` and
`BlockAssumption` (an item, or a block, is of one kind), `VisibleAssumption` (a set of tools is neither the file's absence nor its edit) and
`TitlesAssumption` (titles are kept at all; the code keeps 200) are of the same sort.

**Turns.**  Two overlapping calls both pass the busy guard, so the assumption is necessary; and the three properties of `TurnFlagInv`
are stated until a call waits for its answer (`NoneWaits`), because `TurnsTimeout` shows a waiting call lower another
turn's flag, and until two requests draw one id.  Why the flag is right
until then: a prompt that the agent has not yet answered to the reader is *in flight*, in
stdin, in the agent, in stdout or in the reader's hands (`InFlight`).  `InFlightHoldsFlag` says that a prompt in
flight whose call has come back holds the flag, and `ClearedSeesNoTurn` that a
call past the busy guard found it down; so nothing is in flight when a prompt is written, which is
`OneInFlight`.  `OnePlace` (a prompt is in flight at one place only) makes the end the reader handles the end of the
turn the flag stands for.  `ServedAlone` carries the assumption to the states, `UnwrittenNotInFlight`
starts each prompt outside the pipes, and `DeadIsEmpty` keeps the pipes of a dead process out
of the argument.  A call that waits goes on waiting (`WaitsStay`), so the steps before the first of them are all
the invariant needs.  `NumbersInv` (one request at most is between the read and the write of the counter, its id is the counter's value and above all ids in use) needs neither
limit: it holds for any number of prompts, closes and configurations, overlapping or not, until two of them draw at once, which is why
`AnswersOwn` holds for waiting calls and late answers too, whatever requests are on file together; with it, `InterruptsInv` says that the turn an interrupt saw holds the
flag the interrupt polls, as long as that turn is in flight.

**Events.**  `WindowInv`: the buffer is a window of the numbering, and `firstIndex` is its start, except
between a removal and its count, where it is one behind.  The reads of a poll are therefore placed with
an offset that is right or late, never early (`PollInv`: what the next `GetEvent` reads comes after all that
the batch holds, and that is not below the cursor), which is why nothing comes twice, while one
event may be passed over.  For the refinement, `WholeInv` adds that nothing leaves a buffer as large as what is
pushed: `AddEvent` is the log's report, `Answer` its answer, every other step a stutter.

**Registry.**  Two invariants.  `StartsInv` holds however many calls overlap: what is registered or in a call's hands has been created
(`KnownIsUsed`), and what a limit has condemned, or a sweep is about to kill, is not starting within its grace (`SparesStart`).  `SerialInv` is about
calls that come one at a time (`Alone`): every live process is registered (`Reachable`), the entry a start has put is the one under its
handle until its process runs (`OwnIsNew`), a victim and what a call still has to judge are registered and are not that entry
(`VictimIsRegistered`, `ListsAreRegistered`), what is condemned is in no turn (`UseIsSpared`), and a start has all its user's processes before it
(`OthersAreListed`), from which it is within the limit once it has stopped what it condemned.

**Guard.**  Apart from its launch, its spawn and the recording of its PID, no step brings a process to life, registers it, or
gives it a PID or another owner (`Fades`).  The invariant `SafeInv` says that a launch's process is its own and has no
PID yet (`LaunchInv`), that what is on file, what a sweep has read and what it looks for has one (`KnownInv`); so the steps of a launch
touch no process that a sweep deals with.  With that, a process judged stoppable can only fade, and stays stoppable until
it is destroyed (`DoomedInv`, behind `SparesLive`), and a file that names a live orphan is in the sweep's list
or under its hand (`OrphanInv`, behind `OrphansStopped`).  The theorems are about any number of concurrent
launches, where `GuardSweep` has one.

**Codex and Claude turns.**  There is no busy guard, so the client's patience is necessary.  `CodexInv` and `ClaudeInv` follow the prompt that is
written and not yet heard of: it is one (`CodexOneTurn`, `ClaudeOneTurn`), at one place of the pipes, its end is the last word the
reader has to hear (`CodexLastWords`, `ClaudeLines`), it holds the flag (`CodexFlag`, of a turn with no error reported; `ClaudeHolds`), and an interrupt that saw
it waits for its end (`CodexBreaks`, `ClaudeHalted`).

**Conversations.**  `CodexSessionInv`: the thread of the entry is one the server has opened, the client and the request carry it through a
restart (`ThreadIsCarried`), and the second attempt of a prompt names none (`RetryIsAnew`).  `SessionInv`: the process runs with what the entry
says, what is asked of a start made by a prompt is what the prompt wanted (`AskedIsWanted`), and the session to resume is that of the
process that was stopped until the next one is launched (`SessionIsCarried`).

**Reaper.**  `BeatInv`: ids that callers have drawn are distinct and not yet running, a caller that has written
its reaper's name starts it before the period ends, and the beat of the reaper the property names is at most one period old, the
older one only while it is awake.

**Codex exec.**  `ExecInv`: whatever lives, prints or is handled is of the current prompt (`CurrentIsServed`); the lines of the turns before are
behind the line count once the next prompt is prepared, and so are the lines that were handled, but for the reading under way
(`OldAreBehind`, `HandledAreBehind`).  A file with lines names the session before the watcher ends (`SessionGetsKnown`): this needs `Grace > 0` (the watcher
polls at least once more after the exit of the process; the code polls six times), and `Settled` keeps the next prompt from starting before.

**Cache file.**  Who is between its second read and its write holds the lock, so what it read then is what is on file, and
its write adds to that; a file cut short by a stop has nothing left to undo.

**Installation.**  `UnderLock`: from the moment it has the lock to its answer a call is its holder, has found the
runtime incomplete until it has written it (unless it is forced), and complete from then on.  Two lemmas say how any
call ends and how it goes on (`CallEnds`, `CallGoesOn`); each action is one of the two.

**Logins.**  `Uncrossed`: until two starts cross there is one start at most, no process runs during it, and the process
that runs is that of the registry; the logout of a start that was not forced finds no credentials.

**Authentication cache.**  `Forgotten` and `NoneSaysOut`: when no settings call is under way as the CLI answers, the store is
empty once it is forgotten and nobody has written there since; when both copies are forgotten
no "out" is left anywhere, and only a check after the end of the session can bring one.

**Skills.**  `SkillInv`: versions on disk only rise, so a version that is acknowledged and still on disk is the one that was acknowledged; what a turn
loads comes after it has taken its bundle (`LoadsOfTurn`, `ReadSinceTaken`), and a bundle asks for exactly what is not
acknowledged (`BundleAsks`).

**Homes.**  `HomeInv`: a setup writes the file it has read with its own servers added (`HoldsAPatch`), so that no write removes the
standard server; a setup that nobody overlaps still holds what is on file (`LoneRemoves`).  `SetupInv` is the like for Vibe: as long as a
config is kept, the one setup that may run writes it or nothing (`KeptIsApplied`), whether it truncates, fills or migrates the file.

**Leases.**  `TakenIsKnown`: a call that no other has crossed knows all the ports that the others lease; the port it takes is the first free
one, or none is (`LeastMember`, and the cardinality of the ports).

**Storage.**  `StorageInv`: a conversation's session lies in its home, the PID files tell the agents, and during a sweep all that served a conversation
before the sweep took its references is among them or among the files it has yet to read (`SweepKeeps`).

**Streams.**  Both refinements map the pieces written and shown to those of `TextDelivery`.  `ItemInv`: what an item has shown is a prefix of what is
written, and what is kept for later is the rest (`TextIsKept`).  `StreamInv`: every text but the last has been shown whole, and the last one is
in the narration once its block has stopped (`LastWaits`).  Every step then adds the following pieces of one text or stutters.

**Credential copies.**  `CopyInv`: the session of a sign-in is newer than every other, in each file that has it (`SignedInIsNewest`), and a
copy under way brings it or leaves a home that has it alone (`SignInIsCarried`); what Claude copies is usable (`ClaudeCopiesUsable`), and a home
that is not replaced by force has no expired session (`UnforcedIsUnexpired`).

**Session updates.**  `UpdatesInv`: while a session is being loaded all that is on the way is history and the flag is up (`LinesAreKnown`,
`LoadIsFlagged`), and nothing of it comes after the answer to the load (`AnswerComesLast`), so that nothing of it is left once that answer is read (`LoadedIsOver`).
The titles kept after one are newer than it, so that it is still there unless as many came since (`TitlesAreRecent`).

**Usage of a session.**  `UsageInv`: as long as the journal is intact (and no file was found cut short after a removal) its segments divide the records of the session (`Divides`), and the state
file and every call under way hold the totals of the first records, up to some record (`HasRead`), which a reading takes further
(`ReadingAdvances`) and a save hands on (`SavingIsIntact`).  The segments removed lie within what the file had read, so that a call that skips them
skips nothing (`SkippedAreRead`).  A call that answers while Vibe writes nothing has read them all.  That a vision call is counted once needs no intact
journal: its id is in the totals of one segment at most (`IsCountedOnce`), and a segment whose totals start over loses it with its count.

**Side by side.**  `AgentsCorrect`, `ThreadsCorrect` and `EngineCorrect` are about the specifications that the runs check: a behaviour of one
of them is, for each of its machines, a behaviour of that machine that may stop (`AgentsArePlayed`, `ThreadsArePlayed`, `EngineIsPlayed`).

**Only model-checked.**  Every liveness property (`RunningTurnReleasesFlag`, `ReaperRestores`, `GuardsStopOrphans`,
`NewestIsReceived`, `OneReaperRemains`, `PrintedEndIsReported`, `CallsEnd`, `TurnsEnd`, `CallsAreAnswered`): liveness under
fairness is out of the prover's reach, and so is `ENABLED`.  The induction theorems of the library take
an operator as a parameter, which the provers cannot instantiate: what the one recursive function, the sum of `JournalUsage`, gives is proved from
its running totals and a least counterexample (`SumRuns`, `LeastMember`).  No module declares a `RECURSIVE` operator.

## 6. What is not modelled, and why

* **Data.**  Contents of prompts, answers and events beyond what the properties tell apart; the text of TOML, JSON and tool titles;
  costs, times and models of the usage totals.
* **Sweep clock and server store**: sweeps are spaced by a compare-and-set on a clock read before it (12512), and
  `getRegistry` checks, then sets the server's registry (5780), which two first calls may do together.  `AgentRegistry` lets a sweep run at any call
  and starts with a registry.  `options.maxIdleSeconds` of an explicit sweep is left out.
* **Vibe settings discovery** asks a process once and parses its answer; **access** and **resources** are small pure checks;
  the **plan synchronisation hook** is one script on one file of its session; the **sandbox helper** sets up Landlock and then
  executes; **sequences**, **demonstration page** and **build** are wiring.
* **Parts of modelled components**: the durations of failed tools and the contents of usage and configuration events, the Playwright server, headers and scopes of a home's configuration, the Vibe key, the gateway
  key and the user files other than credentials, the retention of artifacts other than homes, the cache of tool
  descriptors, the migration of presets that a settings call makes (9376).  The component's note in `PROJECT.json` says so.
* **Around the code**: the reuse of a PID by the operating system (the sweep of 11501 trusts the pid on file), file-system errors
  on PID files, and the agents' behaviour beyond what the Bridge sees of it.
* **The memory model of the JVM**: a read sees the last write.  The code's maps are concurrent or synchronized; plain
  JavaScript properties that two threads use could also show older values, which no model here has.

## 7. Plan

What could come next, most important first:

1. The sweep clock and the server's store as a module; the gateway key, which is synchronised in both directions with hashes.
2. Storage with two conversations, each with its own home, beside the other machines of `Engine`.
3. What Vibe prints right after the answer to `session/load`, and the interleaving of several threads' writes on one pipe.
