----------------------------- MODULE AgentGuard -----------------------------
(***************************************************************************)
(* What stops an agent process when its conversation, or the JVM that      *)
(* started it, ends: the PID file of each process, the sweep of the PID    *)
(* files before a launch, the shutdown hook and the guard process around   *)
(* the agent.  JVMs that share a workspace share its PID files.            *)
(*                                                                         *)
(* A process stands for the command startProcess spawns: the guard with    *)
(* the agent under it, or the agent alone.  Its stray is what the agent    *)
(* detached from its tree.  A JVM is used once: a restart is another one.  *)
(* JVMs and processes have no identity before they are used, so the next   *)
(* one of either is whichever CHOOSE names.                                *)
(***************************************************************************)
EXTENDS Naturals, FiniteSets

CONSTANTS
  Jvms,        \* bound: the JVMs that may run, one after another or together
  Procs,       \* bound: the processes the launches may spawn
  Handles,     \* the handles of the conversations
  Launchers,   \* the threads that serve starts, whatever their JVM
  GuardModes,  \* may a launch be guarded, or not: agentGuardedCommand's answers
  Posix,       \* is the host Linux or macOS, rather than Windows?
  None         \* no process, no handle, no JVM

ASSUME GuardAssumption ==
  /\ None \notin Jvms \cup Procs \cup Handles
  /\ GuardModes \subseteq BOOLEAN
  /\ Posix \in BOOLEAN

VARIABLES
  jvm,         \* "new", "up", "stopping" (its hook runs), "halting", "down"
  hooked,      \* the handles the hook of a JVM has taken from the registry
  file,        \* handle -> the process its PID file records
  proc,        \* the processes and what their JVM's registry knows of them
  thread       \* what each launcher does

vars == <<jvm, hooked, file, proc, thread>>

Unborn == [handle |-> None, owner |-> None, guarded |-> FALSE, guard |-> "none",
           agent |-> "unborn", stray |-> FALSE, registered |-> FALSE,
           pid |-> FALSE, stopping |-> FALSE]

Free == [pc |-> "free", jvm |-> None, proc |-> None, todo |-> {}, at |-> None,
         read |-> None, orphans |-> {}]

Init ==
  /\ jvm = [j \in Jvms |-> "new"]
  /\ hooked = [j \in Jvms |-> {}]
  /\ file = [h \in Handles |-> None]
  /\ proc = [p \in Procs |-> Unborn]
  /\ thread = [t \in Launchers |-> Free]

Running == {"up", "stopping", "halting"}
Up(p) == jvm[proc[p].owner] \in Running
At(t, place) == thread[t].pc = place
Recorded == {file[h] : h \in Handles} \ {None}

\* the pid on record is the guard's, or the agent's when there is no guard
PidAlive(p) ==
  IF proc[p].guarded THEN proc[p].guard \in {"watching", "sweeping"}
  ELSE proc[p].agent = "up"

\* p without its tree; what the agent detached is gone too when swept is TRUE
Killed(p, swept) ==
  [proc[p] EXCEPT !.agent = "gone", !.stray = @ /\ ~swept,
                  !.guard = IF proc[p].guarded THEN "gone" ELSE "none"]

-----------------------------------------------------------------------------
(* startProcess *)

\* registry.put, then the sweep lists the PID files
Launch(t) ==
  /\ At(t, "free")
  /\ \E q \in Procs : proc[q] = Unborn
  /\ \E j \in Jvms, h \in Handles :
       LET p == CHOOSE q \in Procs : proc[q] = Unborn IN
       /\ jvm[j] = "up"
       /\ \A q \in Procs : proc[q].handle = h /\ proc[q].owner = j => ~proc[q].registered
       /\ proc' = [proc EXCEPT ![p].handle = h, ![p].owner = j, ![p].registered = TRUE]
       /\ thread' = [thread EXCEPT ![t] =
            [Free EXCEPT !.pc = "sweep", !.jvm = j, !.proc = p,
                         !.todo = {g \in Handles : file[g] # None},
                         !.orphans = {q \in Recorded : PidAlive(q) /\ jvm[proc[q].owner] = "down"}]]
  /\ UNCHANGED <<jvm, hooked, file>>

ReadPidFile(t) ==
  /\ At(t, "sweep")
  /\ \E h \in thread[t].todo :
       thread' = [thread EXCEPT ![t].pc = "judge", ![t].at = h, ![t].read = file[h],
                                ![t].todo = @ \ {h}]
  /\ UNCHANGED <<jvm, hooked, file, proc>>

\* registryContainsPid, in the registry of the sweeper's JVM
Contains(j, p) == proc[p].owner = j /\ proc[p].registered /\ PidAlive(p)

\* fault: the registry is not consulted
StopVerdictUnregistered(j, p) == proc[p].owner = j \/ ~Up(p)

\* fault: the process of another JVM is left to that JVM, gone or not
StopVerdictOwn(j, p) == ~Contains(j, p) /\ proc[p].owner = j

\* pidRecordVerdict: stop what no live JVM can still use
StopVerdict(j, p) ==
  /\ ~Contains(j, p)
  /\ proc[p].owner = j \/ ~Up(p)

\* an orphan of this JVM stops once it has been idle for maxIdleMs
JudgePidFile(t) ==
  /\ At(t, "judge")
  /\ LET p == thread[t].read IN
     IF p = None \/ ~PidAlive(p)
     THEN thread' = [thread EXCEPT ![t].pc = "drop"]
     ELSE \/ /\ StopVerdict(thread[t].jvm, p)
             /\ thread' = [thread EXCEPT ![t].pc = "destroy"]
          \/ /\ ~StopVerdict(thread[t].jvm, p) \/ proc[p].owner = thread[t].jvm
             /\ thread' = [thread EXCEPT ![t].pc = "sweep", ![t].at = None,
                                         ![t].read = None]
  /\ UNCHANGED <<jvm, hooked, file, proc>>

\* destroyPidTree: the guard has half a second to sweep what the agent detached
DestroyOrphan(t) ==
  /\ At(t, "destroy")
  /\ IF PidAlive(thread[t].read)
     THEN \E swept \in {FALSE, Posix /\ proc[thread[t].read].guarded} :
            proc' = [proc EXCEPT ![thread[t].read] = Killed(thread[t].read, swept)]
     ELSE UNCHANGED proc
  /\ thread' = [thread EXCEPT ![t].pc = "drop"]
  /\ UNCHANGED <<jvm, hooked, file>>

\* file.delete deletes whatever the file now records
DropPidFile(t) ==
  /\ At(t, "drop")
  /\ file' = [file EXCEPT ![thread[t].at] = None]
  /\ thread' = [thread EXCEPT ![t].pc = "sweep", ![t].at = None, ![t].read = None]
  /\ UNCHANGED <<jvm, hooked, proc>>

SweepEnds(t) ==
  /\ At(t, "sweep") /\ thread[t].todo = {}
  /\ thread' = [thread EXCEPT ![t].pc = "spawn"]
  /\ UNCHANGED <<jvm, hooked, file, proc>>

Spawn(t) ==
  /\ At(t, "spawn")
  /\ \E g \in GuardModes :
       proc' = [proc EXCEPT ![thread[t].proc].guarded = g,
                            ![thread[t].proc].guard = IF g THEN "watching" ELSE "none",
                            ![thread[t].proc].agent = "up"]
  /\ thread' = [thread EXCEPT ![t].pc = "record"]
  /\ UNCHANGED <<jvm, hooked, file>>

\* writeEntryPidFile
RecordPid(t) ==
  /\ At(t, "record")
  /\ file' = [file EXCEPT ![proc[thread[t].proc].handle] = thread[t].proc]
  /\ proc' = [proc EXCEPT ![thread[t].proc].pid = TRUE]
  /\ thread' = [thread EXCEPT ![t] = Free]
  /\ UNCHANGED <<jvm, hooked>>

-----------------------------------------------------------------------------
(* stopEntry, which may meet an entry whose process is not there yet *)

\* stopThroughGuard: TERM to the guard whose pid is known
StopBegins(p) ==
  /\ proc[p].registered /\ ~proc[p].stopping /\ Up(p)
  /\ proc' = [proc EXCEPT ![p].stopping = TRUE,
                          ![p].guard = IF proc[p].pid /\ @ = "watching"
                                       THEN "sweeping" ELSE @]
  /\ UNCHANGED <<jvm, hooked, file, thread>>

\* the guard has left, or its 2.5 s are over: destroyPidTree or, with no pid yet,
\* process.destroy, which leaves the guard 2 s; then the PID file and the entry
StopEnds(p) ==
  /\ proc[p].registered /\ proc[p].stopping /\ Up(p)
  /\ \E swept \in {FALSE, Posix /\ proc[p].guarded /\ ~proc[p].pid} :
       proc' = [proc EXCEPT ![p] =
         [(IF PidAlive(p) THEN Killed(p, swept) ELSE @)
            EXCEPT !.registered = FALSE, !.stopping = FALSE]]
  /\ file' = IF proc[p].pid THEN [file EXCEPT ![proc[p].handle] = None] ELSE file
  /\ UNCHANGED <<jvm, hooked, thread>>

-----------------------------------------------------------------------------
(* The JVM *)

Boot(j) ==
  /\ jvm[j] = "new" /\ j = CHOOSE i \in Jvms : jvm[i] = "new"
  /\ jvm' = [jvm EXCEPT ![j] = "up"]
  /\ UNCHANGED <<hooked, file, proc, thread>>

\* the JVM is gone with its threads and its registry
GoDown(j) ==
  /\ jvm' = [jvm EXCEPT ![j] = "down"]
  /\ hooked' = [hooked EXCEPT ![j] = {}]
  /\ thread' = [t \in Launchers |-> IF thread[t].jvm = j THEN Free ELSE thread[t]]

Crash(j) ==
  /\ jvm[j] \in Running
  /\ GoDown(j)
  /\ UNCHANGED <<file, proc>>

\* the shutdown hook takes the registry's keys and sends TERM to the guards
HookBegins(j) ==
  /\ jvm[j] = "up"
  /\ jvm' = [jvm EXCEPT ![j] = "stopping"]
  /\ LET mine == {p \in Procs : proc[p].owner = j /\ proc[p].registered} IN
     /\ hooked' = [hooked EXCEPT ![j] = {proc[p].handle : p \in mine}]
     /\ proc' = [p \in Procs |->
          IF p \in mine /\ proc[p].pid /\ proc[p].guard = "watching"
          THEN [proc[p] EXCEPT !.guard = "sweeping"] ELSE proc[p]]
  /\ UNCHANGED <<file, thread>>

\* the command alone is killed: its guard, when it has one
KilledAlone(p) ==
  IF proc[p].guarded THEN [proc[p] EXCEPT !.guard = "gone"]
  ELSE [proc[p] EXCEPT !.agent = "gone"]

\* within 2 s it forces what the registry now holds under those keys: the tree
\* when the pid is known, otherwise the process, if there is one
HookEnds(j) ==
  /\ jvm[j] = "stopping"
  /\ jvm' = [jvm EXCEPT ![j] = "halting"]
  /\ LET forced == {p \in Procs : /\ proc[p].owner = j /\ proc[p].registered
                                  /\ proc[p].handle \in hooked[j]} IN
     /\ proc' = [p \in Procs |->
          IF p \in forced /\ PidAlive(p)
          THEN IF proc[p].pid THEN Killed(p, FALSE) ELSE KilledAlone(p)
          ELSE proc[p]]
     /\ file' = [h \in Handles |->
          IF \E p \in forced : proc[p].handle = h /\ proc[p].pid THEN None ELSE file[h]]
  /\ UNCHANGED <<hooked, thread>>

\* the other hooks have ended too
Halt(j) ==
  /\ jvm[j] = "halting"
  /\ GoDown(j)
  /\ UNCHANGED <<file, proc>>

-----------------------------------------------------------------------------
(* The agent and its guard *)

AgentDetaches(p) ==
  /\ proc[p].agent = "up" /\ ~proc[p].stray
  /\ proc' = [proc EXCEPT ![p].stray = TRUE]
  /\ UNCHANGED <<jvm, hooked, file, thread>>

\* the guard sees its child's exit
AgentExits(p) ==
  /\ proc[p].agent = "up"
  /\ proc' = [proc EXCEPT ![p].agent = "gone",
                          ![p].guard = IF @ = "watching" THEN "sweeping" ELSE @]
  /\ UNCHANGED <<jvm, hooked, file, thread>>

\* fault: the guard acts only for an agent on file
GuardSeesOwnerGoneRecorded(p) ==
  /\ proc[p].guard = "watching" /\ jvm[proc[p].owner] = "down"
  /\ file[proc[p].handle] = p
  /\ proc' = [proc EXCEPT ![p].guard = "sweeping"]
  /\ UNCHANGED <<jvm, hooked, file, thread>>

\* the 2 s watch: ownerAlive is false
GuardSeesOwnerGone(p) ==
  /\ proc[p].guard = "watching" /\ jvm[proc[p].owner] = "down"
  /\ proc' = [proc EXCEPT ![p].guard = "sweeping"]
  /\ UNCHANGED <<jvm, hooked, file, thread>>

\* fault: the guard stops its child's tree only
GuardSweepsTree(p) ==
  /\ proc[p].guard = "sweeping"
  /\ proc' = [proc EXCEPT ![p] = Killed(p, FALSE)]
  /\ UNCHANGED <<jvm, hooked, file, thread>>

\* stopChild or the exit of the child: sweep(), then the guard exits.  On Windows
\* sweep() does nothing and taskkill /T, or the TERM that ends the guard itself,
\* reaches the child's tree only: what the agent detached stays
GuardSweeps(p) ==
  /\ proc[p].guard = "sweeping"
  /\ proc' = [proc EXCEPT ![p] = Killed(p, Posix)]
  /\ UNCHANGED <<jvm, hooked, file, thread>>

-----------------------------------------------------------------------------
LaunchStep(t) ==
  \/ ReadPidFile(t) \/ JudgePidFile(t) \/ DestroyOrphan(t) \/ DropPidFile(t)
  \/ SweepEnds(t) \/ Spawn(t) \/ RecordPid(t)

GuardStep(p) == GuardSeesOwnerGone(p) \/ GuardSweeps(p)

Next ==
  \/ \E t \in Launchers : Launch(t) \/ LaunchStep(t)
  \/ \E j \in Jvms : Boot(j) \/ Crash(j) \/ HookBegins(j) \/ HookEnds(j) \/ Halt(j)
  \/ \E p \in Procs : \/ StopBegins(p) \/ StopEnds(p)
                      \/ AgentDetaches(p) \/ AgentExits(p) \/ GuardStep(p)

Spec == Init /\ [][Next]_vars

\* only the guards have to make progress
FairSpec == Spec /\ \A p \in Procs : WF_vars(GuardStep(p))

-----------------------------------------------------------------------------
(* Properties *)

ProcRecord ==
  [handle : Handles \cup {None}, owner : Jvms \cup {None}, guarded : BOOLEAN,
   guard : {"none", "watching", "sweeping", "gone"}, agent : {"unborn", "up", "gone"},
   stray : BOOLEAN, registered : BOOLEAN, pid : BOOLEAN, stopping : BOOLEAN]

ThreadRecord ==
  [pc : {"free", "sweep", "judge", "destroy", "drop", "spawn", "record"},
   jvm : Jvms \cup {None}, proc : Procs \cup {None}, todo : SUBSET Handles,
   at : Handles \cup {None}, read : Procs \cup {None}, orphans : SUBSET Procs]

TypeOK ==
  /\ jvm \in [Jvms -> {"new", "down"} \cup Running]
  /\ hooked \in [Jvms -> SUBSET Handles]
  /\ file \in [Handles -> Procs \cup {None}]
  /\ proc \in [Procs -> ProcRecord]
  /\ thread \in [Launchers -> ThreadRecord]

\* The sweep of the PID files stops no process a live JVM still has in its
\* registry, its own or that of another engine on the same workspace, however
\* old the record is that it decided on (pidRecordVerdict).
SweepSparesLive ==
  [][ \A t \in Launchers :
        At(t, "destroy") /\ thread'[t].pc = "drop" =>
          LET p == thread[t].read IN ~(Up(p) /\ proc[p].registered /\ PidAlive(p)) ]_vars

\* Before a process is spawned, no process that was on file and alive when the
\* sweep began, and whose JVM was gone by then, is both still on file and still
\* running its agent (agent_bridge_common.js:11093: "stopped at once").
LaunchStopsOrphans ==
  \A t \in Launchers :
    At(t, "spawn") =>
      \A p \in thread[t].orphans : p \in Recorded => proc[p].agent # "up"

\* An agent whose guard is there does not outlive its JVM, whether the JVM crashed
\* before the PID file was written or no other JVM ever launches anything.
GuardStopsAgent ==
  \A p \in Procs :
    (proc[p].guard \in {"watching", "sweeping"} /\ jvm[proc[p].owner] = "down")
      ~> proc[p].agent = "gone"

\* When the last JVM is killed, the guards alone stop what the agents left
\* behind, except on Windows what these detached too (agent_bridge_common.js:11211,
\* whose sweep returns at once there: 11292).
GuardsLeaveNothing ==
  \A p \in Procs :
    (proc[p].guard \in {"watching", "sweeping"} /\ \A j \in Jvms : jvm[j] = "down")
      ~> (proc[p].agent = "gone" /\ (Posix => ~proc[p].stray))

\* The guards stop what dead engines have left: the agent of each and, on Linux and
\* macOS, what the agents have detached once no engine is left.
GuardsStopOrphans == GuardStopsAgent /\ GuardsLeaveNothing

\* Every launch spawns after the orphans of its sweep are stopped, in every
\* well-formed state of files, threads and processes (stopOrphanedProcesses).
GuardInv == TypeOK /\ LaunchStopsOrphans
=============================================================================
