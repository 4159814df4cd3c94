------------------------------ MODULE CodexExec ------------------------------
(***************************************************************************)
(* The fallback protocol of Codex (codex-jsonl): every prompt runs codex   *)
(* exec in a process of its own.  The bridge hears of a turn twice, from   *)
(* the stdout of the process and from the session file, which Codex        *)
(* appends to from one turn to the next and a watcher thread polls.  The   *)
(* watcher outlives the process by a few polls.                            *)
(*                                                                         *)
(* A turn is two lines in each source, its start and its end: the lines in *)
(* between are handled in the same way and change none of this.  A line of *)
(* the session file is identified with its position.                       *)
(***************************************************************************)
EXTENDS Naturals, Sequences, FiniteSets

CONSTANTS
  ExecRuns,      \* the codexPrompt calls, one process each
  Grace,     \* the polls after the exit of the process (6 in the code)
  Settled,   \* does the client prompt only once the watcher has ended?
  NoRun

ASSUME ExecAssumption == Grace \in Nat /\ Settled \in BOOLEAN /\ NoRun \notin ExecRuns

VARIABLES
  stage,       \* where each prompt call is
  current,     \* the last call that has announced its turn
  process,     \* the run whose process lives
  sessionFile, \* the lines of the session file
  printed,     \* stdout lines not yet read
  told,        \* how many lines a run has written to each source
  knowsSession,\* is entry.sessionId set?
  path,        \* is entry.codexSessionFile set?
  lineCount,   \* entry.codexSessionFileLineCount
  seenKeys,    \* entry.codexSeenLineKeys
  watcher,     \* where the watcher thread is
  snapshot,    \* the complete lines it has read
  position,    \* the line it is at
  exits,       \* pollsAfterExit
  outReader,   \* where the stdout reader thread is, with the line it handles
  execActive,  \* entry.turnActive
  execEnded,   \* entry.codexTurnEnded
  reported,    \* runs whose end has been reported as the end of a turn
  handledAt    \* how often each line of the session file was handled

execEntry == <<execActive, execEnded, reported>>
execFile  == <<path, lineCount, seenKeys>>
execWatch == <<watcher, snapshot, position, exits>>
execVars == <<stage, current, process, sessionFile, printed, told, knowsSession,
              execFile, execWatch, outReader, execEntry, handledAt>>

Line(r, k) == [run |-> r, kind |-> IF k = 1 THEN "start" ELSE "end"]
Idle == [at |-> "idle", run |-> NoRun]

ExecInit ==
  /\ stage = [r \in ExecRuns |-> "new"]
  /\ current = NoRun /\ process = NoRun
  /\ sessionFile = <<>> /\ printed = <<>>
  /\ told = [r \in ExecRuns |-> [file |-> 0, out |-> 0]]
  /\ knowsSession = FALSE /\ path = FALSE /\ lineCount = 0 /\ seenKeys = {}
  /\ watcher = "off" /\ snapshot = 0 /\ position = 0 /\ exits = 0
  /\ outReader = Idle
  /\ execActive = FALSE /\ execEnded = FALSE /\ reported = {}
  /\ handledAt = [n \in 1..(2 * Cardinality(ExecRuns)) |-> 0]

-----------------------------------------------------------------------------
(* codexPrompt, exec branch *)

At(r, from, to) == stage[r] = from /\ stage' = [stage EXCEPT ![r] = to]

ExecReceive(r) ==
  /\ \A q \in ExecRuns : stage[q] \in {"new", "busy", "submitted"}
  /\ Settled => watcher = "off" /\ printed = <<>> /\ outReader = Idle
  /\ At(r, "new", IF process = NoRun THEN "accepted" ELSE "busy")
  /\ UNCHANGED <<current, process, sessionFile, printed, told, knowsSession,
                 execFile, execWatch, outReader, execEntry, handledAt>>

\* the turn is announced before the process is started
Announce(r) ==
  /\ At(r, "accepted", "announced")
  /\ current' = r
  /\ execEnded' = FALSE /\ execActive' = TRUE
  /\ UNCHANGED <<process, sessionFile, printed, told, knowsSession,
                 execFile, execWatch, outReader, reported, handledAt>>

\* prepareCodexSessionWatcherForPrompt forgets the file ...
Forget(r) ==
  /\ At(r, "announced", "forgotten")
  /\ seenKeys' = {} /\ path' = FALSE /\ lineCount' = 0
  /\ UNCHANGED <<current, process, sessionFile, printed, told, knowsSession,
                 execWatch, outReader, execEntry, handledAt>>

\* fault: the lines of the turns before are not skipped
BaselineNothing(r) ==
  /\ At(r, "forgotten", "prepared")
  /\ path' = (path \/ (knowsSession /\ sessionFile # <<>>))
  /\ UNCHANGED <<lineCount, seenKeys, current, process, sessionFile, printed, told,
                 knowsSession, execWatch, outReader, execEntry, handledAt>>

\* ... then looks for it by the session id, and skips the lines it has
Baseline(r) ==
  /\ At(r, "forgotten", "prepared")
  /\ IF knowsSession /\ sessionFile # <<>>
     THEN path' = TRUE /\ lineCount' = Len(sessionFile)
     ELSE UNCHANGED <<path, lineCount>>
  /\ UNCHANGED <<seenKeys, current, process, sessionFile, printed, told,
                 knowsSession, execWatch, outReader, execEntry, handledAt>>

\* startProcess, which starts a watcher unless one still runs
Exec(r) ==
  /\ At(r, "prepared", "submitted")
  /\ process' = r
  /\ IF watcher = "off" THEN watcher' = "idle" /\ exits' = 0
                        ELSE UNCHANGED <<watcher, exits>>
  /\ UNCHANGED <<current, sessionFile, printed, told, knowsSession, execFile,
                 snapshot, position, outReader, execEntry, handledAt>>

-----------------------------------------------------------------------------
(* codex exec writes both sources, each at its own pace, then exits *)

WriteFile ==
  /\ process # NoRun /\ told[process].file < 2
  /\ told' = [told EXCEPT ![process].file = @ + 1]
  /\ sessionFile' = Append(sessionFile, Line(process, told'[process].file))
  /\ UNCHANGED <<stage, current, process, printed, knowsSession, execFile,
                 execWatch, outReader, execEntry, handledAt>>

PrintLine ==
  /\ process # NoRun /\ told[process].out < 2
  /\ told' = [told EXCEPT ![process].out = @ + 1]
  /\ printed' = Append(printed, Line(process, told'[process].out))
  /\ UNCHANGED <<stage, current, process, sessionFile, knowsSession, execFile,
                 execWatch, outReader, execEntry, handledAt>>

ExecExits ==
  /\ process # NoRun
  /\ process' = NoRun
  /\ UNCHANGED <<stage, current, sessionFile, printed, told, knowsSession, execFile,
                 execWatch, outReader, execEntry, handledAt>>

-----------------------------------------------------------------------------
(* handleCodexLine, on either thread *)

\* turn.started and task_started raise the flag
Begins(l) == IF l.kind = "start" THEN execActive' = TRUE ELSE UNCHANGED execActive

\* an end that has been reported is dropped
Ends(l) == l.kind = "end" /\ ~execEnded

\* the rest of pushCodexTurnEnd
ReportEnd(r) ==
  /\ execEnded' = TRUE /\ execActive' = FALSE
  /\ reported' = reported \cup {r}

\* the stdout reader: a line names the session
ReadPrinted ==
  /\ outReader = Idle /\ printed # <<>>
  /\ printed' = Tail(printed)
  /\ knowsSession' = TRUE
  /\ Begins(Head(printed))
  /\ outReader' = IF Ends(Head(printed)) THEN [at |-> "ending", run |-> Head(printed).run] ELSE Idle
  /\ UNCHANGED <<stage, current, process, sessionFile, told, execFile, execWatch,
                 execEnded, reported, handledAt>>

EndPrinted ==
  /\ outReader # Idle
  /\ ReportEnd(outReader.run)
  /\ outReader' = Idle
  /\ UNCHANGED <<stage, current, process, sessionFile, printed, told, knowsSession,
                 execFile, execWatch, handledAt>>

-----------------------------------------------------------------------------
(* The watcher thread: pollCodexSessionFile, then a test of the process *)

\* the file is found by its date and its content, and read from its first line
FindFile ==
  /\ watcher = "idle" /\ ~path
  /\ path' = (sessionFile # <<>>)
  /\ lineCount' = IF path' THEN 0 ELSE lineCount
  /\ watcher' = IF path' THEN "found" ELSE "polled"
  /\ UNCHANGED <<seenKeys, snapshot, position, exits, stage, current, process, sessionFile,
                 printed, told, knowsSession, outReader, execEntry, handledAt>>

\* the complete lines of the file at this moment; fewer than before: start again
ReadFile ==
  /\ watcher = "found" \/ (watcher = "idle" /\ path)
  /\ snapshot' = Len(sessionFile)
  /\ lineCount' = IF lineCount > snapshot' THEN 0 ELSE lineCount
  /\ position' = lineCount' + 1
  /\ watcher' = "reading"
  /\ UNCHANGED <<path, seenKeys, exits, stage, current, process, sessionFile,
                 printed, told, knowsSession, outReader, execEntry, handledAt>>

\* markCodexLine drops a line it has seen since the prompt
Handle(l, fresh) ==
  IF fresh
  THEN /\ Begins(l)
       /\ watcher' = IF Ends(l) THEN "ending" ELSE "reading"
       /\ handledAt' = [handledAt EXCEPT ![position] = @ + 1]
  ELSE UNCHANGED <<execActive, watcher, handledAt>>

ReadLine ==
  /\ watcher = "reading" /\ position <= snapshot
  /\ seenKeys' = seenKeys \cup {position}
  /\ knowsSession' = TRUE
  /\ Handle(sessionFile[position], position \notin seenKeys)
  /\ position' = position + 1
  /\ UNCHANGED <<path, lineCount, snapshot, exits, stage, current, process, sessionFile,
                 printed, told, outReader, execEnded, reported>>

EndLine ==
  /\ watcher = "ending"
  /\ ReportEnd(sessionFile[position - 1].run)
  /\ watcher' = "reading"
  /\ UNCHANGED <<snapshot, position, exits, execFile, stage, current, process, sessionFile,
                 printed, told, knowsSession, outReader, handledAt>>

\* fault: the count of the lines is not kept
StoreNoCount ==
  /\ watcher = "reading" /\ position > snapshot
  /\ watcher' = "polled"
  /\ seenKeys' = {}
  /\ UNCHANGED <<path, lineCount, snapshot, position, exits, stage, current, process,
                 sessionFile, printed, told, knowsSession, outReader, execEntry, handledAt>>

\* the count is stored after the lines, whatever a prompt did meanwhile
StoreCount ==
  /\ watcher = "reading" /\ position > snapshot
  /\ lineCount' = snapshot
  /\ watcher' = "polled"
  /\ UNCHANGED <<path, seenKeys, snapshot, position, exits, stage, current, process,
                 sessionFile, printed, told, knowsSession, outReader, execEntry, handledAt>>

\* pollsAfterExit counts over all the processes the thread lives through
Sleep ==
  /\ watcher = "polled"
  /\ exits' = IF process = NoRun THEN exits + 1 ELSE exits
  /\ watcher' = IF exits' > Grace THEN "off" ELSE "idle"
  /\ UNCHANGED <<snapshot, position, execFile, stage, current, process, sessionFile,
                 printed, told, knowsSession, outReader, execEntry, handledAt>>

-----------------------------------------------------------------------------
Watch == FindFile \/ ReadFile \/ ReadLine \/ EndLine \/ StoreCount \/ Sleep
ReadOut == ReadPrinted \/ EndPrinted

ExecNext ==
  \/ \E r \in ExecRuns : ExecReceive(r) \/ Announce(r) \/ Forget(r) \/ Baseline(r) \/ Exec(r)
  \/ WriteFile \/ PrintLine \/ ExecExits
  \/ ReadOut
  \/ Watch

ExecSpec == ExecInit /\ [][ExecNext]_execVars
ExecFair == WF_execVars(ReadOut) /\ WF_execVars(Watch)

-----------------------------------------------------------------------------
ExecTypeOK ==
  /\ stage \in [ExecRuns -> {"new", "busy", "accepted", "announced", "forgotten",
                         "prepared", "submitted"}]
  /\ {current, process} \subseteq ExecRuns \cup {NoRun}
  /\ watcher \in {"off", "idle", "found", "reading", "ending", "polled"}
  /\ outReader \in [at : {"idle", "ending"}, run : ExecRuns \cup {NoRun}]
  /\ lineCount \in 0..Len(sessionFile) /\ exits \in 0..(Grace + 1)
  /\ reported \subseteq ExecRuns

\* A turn is ended by a line of its own, from either source, never by what the
\* session file holds of the turns before it.
OwnLineEnds ==
  [][ ~execEnded /\ execEnded' => reported' \ reported = {current} ]_execVars

\* No line of the session file is handled twice, over all the turns that append
\* to it.
LinesHandledOnce == \A n \in DOMAIN handledAt : handledAt[n] <= 1

\* A turn whose end has been printed is reported in the end.
PrintedEndIsReported ==
  \A r \in ExecRuns : (told[r].out = 2) ~> (r \in reported)

\* Two threads handle the lines of two sources, one of which keeps the lines of
\* the turns before: each line once, and each end for its own turn.
LinesAreSorted == [](ExecTypeOK /\ LinesHandledOnce) /\ OwnLineEnds
=============================================================================
