-------------------------- MODULE AgentGuard_proofs -------------------------
(* Theorems about AgentGuard, for every number of JVMs, processes,           *)
(* conversations and launches at the same time.                              *)
EXTENDS AgentGuard, TLAPS

\* A process that a registry names was launched, for a conversation and by a
\* JVM that has started.
Named ==
  \A p \in Procs :
    /\ proc[p].registered \/ proc[p].agent # "unborn" => proc[p].handle # None
    /\ proc[p].handle # None => proc[p].owner \in Jvms /\ jvm[proc[p].owner] # "new"

\* What is left of a process that is killed is a process.
LEMMA KilledType ==
  ASSUME TypeOK, NEW p \in Procs, NEW swept \in BOOLEAN
  PROVE  Killed(p, swept) \in ProcRecord /\ KilledAlone(p) \in ProcRecord
BY DEF TypeOK, Killed, KilledAlone, ProcRecord

\* A process with one of its fields set is a process.
LEMMA FieldTypes ==
  ASSUME NEW r \in ProcRecord
  PROVE  /\ \A h \in Handles, j \in Jvms :
              [r EXCEPT !.handle = h, !.owner = j, !.registered = TRUE] \in ProcRecord
         /\ \A b \in BOOLEAN, g \in {"none", "watching", "sweeping", "gone"} :
              /\ [r EXCEPT !.guarded = b, !.guard = g, !.agent = "up"] \in ProcRecord
              /\ [r EXCEPT !.stopping = b, !.guard = g] \in ProcRecord
              /\ [r EXCEPT !.agent = "gone", !.guard = g] \in ProcRecord
              /\ [r EXCEPT !.guard = g] \in ProcRecord
         /\ [r EXCEPT !.pid = TRUE] \in ProcRecord
         /\ [r EXCEPT !.stray = TRUE] \in ProcRecord
         /\ [r EXCEPT !.registered = FALSE, !.stopping = FALSE] \in ProcRecord
         /\ r.guard \in {"none", "watching", "sweeping", "gone"}
         /\ r.handle \in Handles \cup {None}
BY DEF ProcRecord

\* The process a launch takes is one nobody has used.
LEMMA NextProc ==
  ASSUME NEW q \in Procs, proc[q] = Unborn
  PROVE  LET p == CHOOSE r \in Procs : proc[r] = Unborn IN p \in Procs /\ proc[p] = Unborn
OBVIOUS

\* Every step of a launch keeps the types.
LEMMA LaunchType ==
  ASSUME TypeOK, NEW t \in Launchers, Launch(t) \/ LaunchStep(t)
  PROVE  TypeOK'
<1> USE DEF TypeOK, ThreadRecord, At
<1>1. CASE Launch(t)
  <2> DEFINE p == CHOOSE q \in Procs : proc[q] = Unborn
  <2>1. p \in Procs
    BY <1>1, NextProc DEF Launch
  <2>2. PICK j \in Jvms, h \in Handles :
          /\ proc' = [proc EXCEPT ![p].handle = h, ![p].owner = j, ![p].registered = TRUE]
          /\ thread' = [thread EXCEPT ![t] =
               [Free EXCEPT !.pc = "sweep", !.jvm = j, !.proc = p,
                            !.todo = {g \in Handles : file[g] # None},
                            !.orphans = {q \in Recorded : PidAlive(q)
                                                          /\ jvm[proc[q].owner] = "down"}]]
    BY <1>1 DEF Launch
  <2> HIDE DEF p
  <2>3. proc' \in [Procs -> ProcRecord]
    <3>1. proc' = [proc EXCEPT ![p] =
                     [proc[p] EXCEPT !.handle = h, !.owner = j, !.registered = TRUE]]
      BY <2>2
    <3>2. [proc[p] EXCEPT !.handle = h, !.owner = j, !.registered = TRUE] \in ProcRecord
      BY <2>1, FieldTypes
    <3>3. QED
      BY <3>1, <3>2
  <2>4. Recorded \subseteq Procs
    BY DEF Recorded
  <2>5. thread' \in [Launchers -> ThreadRecord]
    BY <2>1, <2>2, <2>4 DEF Free
  <2>6. QED
    BY <1>1, <2>3, <2>5 DEF Launch
<1>2. CASE ReadPidFile(t)
  BY <1>2 DEF ReadPidFile
<1>3. CASE JudgePidFile(t)
  BY <1>3 DEF JudgePidFile
<1>4. CASE DestroyOrphan(t)
  <2>1. proc' \in [Procs -> ProcRecord]
    <3>1. CASE PidAlive(thread[t].read)
      <4>1. PICK swept \in BOOLEAN :
              proc' = [proc EXCEPT ![thread[t].read] = Killed(thread[t].read, swept)]
        BY <1>4, <3>1 DEF DestroyOrphan, ProcRecord
      <4>2. thread[t].read \in Procs => Killed(thread[t].read, swept) \in ProcRecord
        BY KilledType
      <4>3. QED
        BY <4>1, <4>2
    <3>2. CASE ~PidAlive(thread[t].read)
      BY <1>4, <3>2 DEF DestroyOrphan
    <3>3. QED
      BY <3>1, <3>2
  <2>2. QED
    BY <1>4, <2>1 DEF DestroyOrphan
<1>5. CASE DropPidFile(t)
  <2>1. thread' = [thread EXCEPT ![t] =
                     [thread[t] EXCEPT !.pc = "sweep", !.at = None, !.read = None]]
    BY <1>5 DEF DropPidFile
  <2>2. [thread[t] EXCEPT !.pc = "sweep", !.at = None, !.read = None] \in ThreadRecord
    OBVIOUS
  <2>3. file' \in [Handles -> Procs \cup {None}]
    BY <1>5 DEF DropPidFile
  <2>4. QED
    BY <1>5, <2>1, <2>2, <2>3 DEF DropPidFile
<1>6. CASE SweepEnds(t)
  <2>1. thread' = [thread EXCEPT ![t] = [thread[t] EXCEPT !.pc = "spawn"]]
    BY <1>6 DEF SweepEnds
  <2>2. [thread[t] EXCEPT !.pc = "spawn"] \in ThreadRecord
    OBVIOUS
  <2>3. QED
    BY <1>6, <2>1, <2>2 DEF SweepEnds
<1>7. CASE Spawn(t)
  <2>1. proc' \in [Procs -> ProcRecord]
    <3> DEFINE q == thread[t].proc
    <3>1. PICK g \in BOOLEAN : proc' = [proc EXCEPT ![q].guarded = g,
            ![q].guard = IF g THEN "watching" ELSE "none", ![q].agent = "up"]
      BY <1>7, GuardAssumption DEF Spawn
    <3> HIDE DEF q
    <3>2. CASE q \in Procs
      <4>1. proc' = [proc EXCEPT ![q] = [proc[q] EXCEPT
              !.guarded = g, !.guard = IF g THEN "watching" ELSE "none", !.agent = "up"]]
        BY <3>1, <3>2
      <4>2. [proc[q] EXCEPT !.guarded = g, !.guard = IF g THEN "watching" ELSE "none",
                            !.agent = "up"] \in ProcRecord
        BY <3>2, FieldTypes
      <4>3. QED
        BY <4>1, <4>2
    <3>3. CASE q \notin Procs
      BY <3>1, <3>3
    <3>4. QED
      BY <3>2, <3>3
  <2>2. thread' = [thread EXCEPT ![t] = [thread[t] EXCEPT !.pc = "record"]]
    BY <1>7 DEF Spawn
  <2>3. [thread[t] EXCEPT !.pc = "record"] \in ThreadRecord
    OBVIOUS
  <2>4. thread' \in [Launchers -> ThreadRecord]
    BY <2>2, <2>3
  <2>5. QED
    BY <1>7, <2>1, <2>4 DEF Spawn
<1>8. CASE RecordPid(t)
  <2>1. proc' \in [Procs -> ProcRecord]
    <3> DEFINE q == thread[t].proc
    <3>1. proc' = [proc EXCEPT ![q] = [proc[q] EXCEPT !.pid = TRUE]]
      BY <1>8 DEF RecordPid
    <3> HIDE DEF q
    <3>2. q \in Procs => [proc[q] EXCEPT !.pid = TRUE] \in ProcRecord
      BY FieldTypes
    <3>3. QED
      BY <3>1, <3>2
  <2>2. thread' \in [Launchers -> ThreadRecord]
    BY <1>8 DEF RecordPid, Free
  <2>3. file' \in [Handles -> Procs \cup {None}]
    BY <1>8 DEF RecordPid
  <2>4. QED
    BY <1>8, <2>1, <2>2, <2>3 DEF RecordPid
<1>9. QED
  BY <1>1, <1>2, <1>3, <1>4, <1>5, <1>6, <1>7, <1>8 DEF LaunchStep

\* A stop, and what the agent and its guard do, keep the types.
LEMMA ProcType ==
  ASSUME TypeOK, NEW p \in Procs,
         StopBegins(p) \/ StopEnds(p) \/ AgentDetaches(p) \/ AgentExits(p) \/ GuardStep(p)
  PROVE  TypeOK'
<1> USE DEF TypeOK
<1>1. CASE StopBegins(p)
  <2> DEFINE g == IF proc[p].pid /\ proc[p].guard = "watching" THEN "sweeping" ELSE proc[p].guard
  <2>1. proc' = [proc EXCEPT ![p] = [proc[p] EXCEPT !.stopping = TRUE, !.guard = g]]
    BY <1>1 DEF StopBegins
  <2>2. [proc[p] EXCEPT !.stopping = TRUE, !.guard = g] \in ProcRecord
    BY FieldTypes
  <2> HIDE DEF g
  <2>3. QED
    BY <1>1, <2>1, <2>2 DEF StopBegins
<1>2. CASE StopEnds(p)
  <2>1. PICK swept \in BOOLEAN : proc' = [proc EXCEPT ![p] =
          [(IF PidAlive(p) THEN Killed(p, swept) ELSE proc[p])
             EXCEPT !.registered = FALSE, !.stopping = FALSE]]
    BY <1>2 DEF StopEnds, ProcRecord
  <2>2. Killed(p, swept) \in ProcRecord /\ proc[p] \in ProcRecord
    BY KilledType
  <2>3. \A r \in ProcRecord :
          [r EXCEPT !.registered = FALSE, !.stopping = FALSE] \in ProcRecord
    BY DEF ProcRecord
  <2>4. proc' \in [Procs -> ProcRecord]
    BY <2>1, <2>2, <2>3
  <2>5. QED
    BY <1>2, <2>4 DEF StopEnds
<1>3. CASE AgentDetaches(p)
  <2>1. proc' = [proc EXCEPT ![p] = [proc[p] EXCEPT !.stray = TRUE]]
    BY <1>3 DEF AgentDetaches
  <2>2. [proc[p] EXCEPT !.stray = TRUE] \in ProcRecord
    BY FieldTypes
  <2>3. QED
    BY <1>3, <2>1, <2>2 DEF AgentDetaches
<1>4. CASE AgentExits(p)
  <2> DEFINE g == IF proc[p].guard = "watching" THEN "sweeping" ELSE proc[p].guard
  <2>1. proc' = [proc EXCEPT ![p] = [proc[p] EXCEPT !.agent = "gone", !.guard = g]]
    BY <1>4 DEF AgentExits
  <2>2. [proc[p] EXCEPT !.agent = "gone", !.guard = g] \in ProcRecord
    BY FieldTypes
  <2> HIDE DEF g
  <2>3. QED
    BY <1>4, <2>1, <2>2 DEF AgentExits
<1>5. CASE GuardSeesOwnerGone(p)
  <2>1. proc' = [proc EXCEPT ![p] = [proc[p] EXCEPT !.guard = "sweeping"]]
    BY <1>5 DEF GuardSeesOwnerGone
  <2>2. [proc[p] EXCEPT !.guard = "sweeping"] \in ProcRecord
    BY FieldTypes
  <2>3. QED
    BY <1>5, <2>1, <2>2 DEF GuardSeesOwnerGone
<1>6. CASE GuardSweeps(p)
  BY <1>6, KilledType, GuardAssumption DEF GuardSweeps
<1>7. QED
  BY <1>1, <1>2, <1>3, <1>4, <1>5, <1>6 DEF GuardStep

\* What happens to a JVM keeps the types.
LEMMA JvmType ==
  ASSUME TypeOK, Named, NEW j \in Jvms,
         Boot(j) \/ Crash(j) \/ HookBegins(j) \/ HookEnds(j) \/ Halt(j)
  PROVE  TypeOK'
<1> USE DEF TypeOK, Running
<1>1. CASE Boot(j)
  BY <1>1 DEF Boot
<1>2. CASE Crash(j) \/ Halt(j)
  <2>1. thread' \in [Launchers -> ThreadRecord]
    BY <1>2 DEF Crash, Halt, GoDown, Free, ThreadRecord
  <2>2. QED
    BY <1>2, <2>1 DEF Crash, Halt, GoDown
<1>3. CASE HookBegins(j)
  <2>1. proc' \in [Procs -> ProcRecord]
    BY <1>3 DEF HookBegins, ProcRecord
  <2> DEFINE mine == {p \in Procs : proc[p].owner = j /\ proc[p].registered}
             keys == {proc[p].handle : p \in mine}
  <2>2. hooked' = [hooked EXCEPT ![j] = keys]
    BY <1>3 DEF HookBegins
  <2>3. keys \subseteq Handles
    BY DEF Named, ProcRecord
  <2> HIDE DEF keys
  <2>4. hooked' \in [Jvms -> SUBSET Handles]
    BY <2>2, <2>3
  <2>5. QED
    BY <1>3, <2>1, <2>4 DEF HookBegins
<1>4. CASE HookEnds(j)
  <2>1. proc' \in [Procs -> ProcRecord]
    BY <1>4, KilledType DEF HookEnds
  <2>2. file' \in [Handles -> Procs \cup {None}]
    BY <1>4 DEF HookEnds
  <2>3. QED
    BY <1>4, <2>1, <2>2 DEF HookEnds
<1>5. QED
  BY <1>1, <1>2, <1>3, <1>4

-----------------------------------------------------------------------------
(* What a step can do to a process *)

\* Between its launch and its end a process only fades: s is what a step of
\* anything but its own launch makes of r.
Fades(r, s) ==
  /\ s.handle = r.handle /\ s.owner = r.owner /\ s.pid = r.pid /\ s.guarded = r.guarded
  /\ s.registered => r.registered
  /\ s.agent = r.agent \/ (r.agent = "up" /\ s.agent = "gone")
  /\ r.guard = "none" => s.guard = "none"
  /\ s.guard \in {"watching", "sweeping"} => r.guard \in {"watching", "sweeping"}

Fading == \A p \in Procs : Fades(proc[p], proc'[p])

\* A process that has not been spawned has no guard and no PID.
UnbornInv ==
  \A p \in Procs :
    proc[p].agent = "unborn" => proc[p].guard = "none" /\ ~proc[p].guarded /\ ~proc[p].pid

\* Setting the fields a step sets makes a process fade.
LEMMA FieldFades ==
  ASSUME NEW r \in ProcRecord
  PROVE  /\ Fades(r, r)
         /\ \A b \in BOOLEAN, g \in {"none", "watching", "sweeping", "gone"} :
              /\ r.guard # "none"
              /\ g \in {"watching", "sweeping"} => r.guard \in {"watching", "sweeping"}
              => /\ Fades(r, [r EXCEPT !.guard = g])
                 /\ Fades(r, [r EXCEPT !.stopping = b, !.guard = g])
                 /\ r.agent = "up" => Fades(r, [r EXCEPT !.agent = "gone", !.guard = g])
         /\ Fades(r, [r EXCEPT !.stopping = TRUE, !.guard = r.guard])
         /\ r.agent = "up" => Fades(r, [r EXCEPT !.agent = "gone", !.guard = r.guard])
         /\ Fades(r, [r EXCEPT !.stray = TRUE])
         /\ Fades(r, [r EXCEPT !.registered = FALSE, !.stopping = FALSE])
BY DEF ProcRecord, Fades

\* Fading twice is fading.
LEMMA FadesTwice ==
  ASSUME NEW r \in ProcRecord, NEW s \in ProcRecord, NEW u \in ProcRecord,
         Fades(r, s), Fades(s, u)
  PROVE  Fades(r, u)
BY DEF ProcRecord, Fades

\* A process that is killed, with its tree or alone, fades.
LEMMA KilledFades ==
  ASSUME TypeOK, UnbornInv, NEW p \in Procs, NEW swept \in BOOLEAN,
         PidAlive(p) \/ proc[p].guard = "sweeping"
  PROVE  Fades(proc[p], Killed(p, swept)) /\ Fades(proc[p], KilledAlone(p))
<1>1. proc[p] \in ProcRecord /\ proc[p].agent # "unborn"
  BY DEF TypeOK, UnbornInv, PidAlive
<1>2. QED
  BY <1>1 DEF Killed, KilledAlone, ProcRecord, Fades, PidAlive

\* A launch is left where it is, and its JVM runs on.
Stays(t) ==
  /\ thread'[t] = thread[t]
  /\ \A j \in Jvms : thread[t].jvm = j /\ jvm[j] \in Running => jvm'[j] \in Running

\* The steps that are no launch's: what they leave of the launches and the files.
Outside ==
  /\ Fading
  /\ \A h \in Handles : file'[h] \in {file[h], None}
  /\ \A t \in Launchers : thread'[t] = Free \/ Stays(t)

\* A JVM starts once and, once down, stays down.
JvmAges ==
  \A j \in Jvms : /\ jvm[j] # "new" => jvm'[j] # "new"
                  /\ jvm[j] = "down" => jvm'[j] = "down"
                  /\ jvm'[j] \in Running => jvm[j] \in Running \/ jvm[j] = "new"

\* A stop, the agent and its guard are outside the launches.
LEMMA ProcOutside ==
  ASSUME TypeOK, UnbornInv, NEW p \in Procs,
         StopBegins(p) \/ StopEnds(p) \/ AgentDetaches(p) \/ AgentExits(p) \/ GuardStep(p)
  PROVE  Outside /\ JvmAges
<1>1. \A q \in Procs : Fades(proc[q], proc[q])
  BY FieldFades DEF TypeOK
<1>2. proc[p] \in ProcRecord
  BY DEF TypeOK
<1>3. /\ UNCHANGED <<jvm, thread>>
      /\ \A h \in Handles : file'[h] \in {file[h], None}
  BY DEF TypeOK, StopBegins, StopEnds, AgentDetaches, AgentExits, GuardStep,
         GuardSeesOwnerGone, GuardSweeps
<1>4. \E s : proc' = [proc EXCEPT ![p] = s] /\ Fades(proc[p], s)
  <2>1. CASE StopBegins(p)
    <3> DEFINE g == IF proc[p].pid /\ proc[p].guard = "watching"
                    THEN "sweeping" ELSE proc[p].guard
    <3>1. proc' = [proc EXCEPT ![p] = [proc[p] EXCEPT !.stopping = TRUE, !.guard = g]]
      BY <2>1 DEF StopBegins
    <3>2. Fades(proc[p], [proc[p] EXCEPT !.stopping = TRUE, !.guard = g])
      BY <1>2, FieldFades
    <3>3. QED
      BY <3>1, <3>2
  <2>2. CASE StopEnds(p)
    <3>1. PICK swept \in BOOLEAN : proc' = [proc EXCEPT ![p] =
            [(IF PidAlive(p) THEN Killed(p, swept) ELSE proc[p])
               EXCEPT !.registered = FALSE, !.stopping = FALSE]]
      BY <1>2, <2>2 DEF StopEnds, ProcRecord
    <3> DEFINE r == IF PidAlive(p) THEN Killed(p, swept) ELSE proc[p]
    <3>2. r \in ProcRecord /\ Fades(proc[p], r)
      BY <1>2, KilledType, KilledFades, FieldFades
    <3> HIDE DEF r
    <3>3. [r EXCEPT !.registered = FALSE, !.stopping = FALSE] \in ProcRecord
      BY <3>2, FieldTypes
    <3>4. Fades(proc[p], [r EXCEPT !.registered = FALSE, !.stopping = FALSE])
      <4>1. Fades(r, [r EXCEPT !.registered = FALSE, !.stopping = FALSE])
        BY <3>2, FieldFades
      <4>2. QED
        BY <1>2, <3>2, <3>3, <4>1, FadesTwice
    <3>5. QED
      BY <3>1, <3>4 DEF r
  <2>3. CASE AgentDetaches(p)
    <3>1. proc' = [proc EXCEPT ![p] = [proc[p] EXCEPT !.stray = TRUE]]
      BY <2>3 DEF AgentDetaches
    <3>2. QED
      BY <1>2, <3>1, FieldFades
  <2>4. CASE AgentExits(p)
    <3> DEFINE g == IF proc[p].guard = "watching" THEN "sweeping" ELSE proc[p].guard
    <3>1. proc' = [proc EXCEPT ![p] = [proc[p] EXCEPT !.agent = "gone", !.guard = g]]
      BY <2>4 DEF AgentExits
    <3>2. Fades(proc[p], [proc[p] EXCEPT !.agent = "gone", !.guard = g])
      BY <1>2, <2>4, FieldFades DEF AgentExits
    <3>3. QED
      BY <3>1, <3>2
  <2>5. CASE GuardSeesOwnerGone(p)
    <3>1. proc' = [proc EXCEPT ![p] = [proc[p] EXCEPT !.guard = "sweeping"]]
      BY <2>5 DEF GuardSeesOwnerGone
    <3>2. QED
      BY <1>2, <2>5, <3>1, FieldFades DEF GuardSeesOwnerGone
  <2>6. CASE GuardSweeps(p)
    BY <2>6, KilledFades, GuardAssumption DEF GuardSweeps
  <2>7. QED
    BY <2>1, <2>2, <2>3, <2>4, <2>5, <2>6 DEF GuardStep
<1>5. Fading
  BY <1>1, <1>4 DEF Fading, TypeOK
<1>6. QED
  BY <1>3, <1>5 DEF Outside, JvmAges, Stays

\* What happens to a JVM is outside the launches, or ends them.
LEMMA JvmOutside ==
  ASSUME TypeOK, UnbornInv, NEW j \in Jvms,
         Boot(j) \/ Crash(j) \/ HookBegins(j) \/ HookEnds(j) \/ Halt(j)
  PROVE  Outside /\ JvmAges
<1>1. \A q \in Procs : proc[q] \in ProcRecord /\ Fades(proc[q], proc[q])
  BY FieldFades DEF TypeOK
<1>2. JvmAges
  BY DEF Boot, Crash, HookBegins, HookEnds, Halt, GoDown, JvmAges, TypeOK, Running
<1>3. \A h \in Handles : file'[h] \in {file[h], None}
  BY DEF Boot, Crash, HookBegins, HookEnds, Halt, GoDown
<1>4. \A t \in Launchers :
        \/ thread'[t] = Free
        \/ /\ thread'[t] = thread[t]
           /\ \A i \in Jvms : thread[t].jvm = i /\ jvm[i] \in Running => jvm'[i] \in Running
  <2>1. CASE Boot(j) \/ HookBegins(j) \/ HookEnds(j)
    BY <2>1 DEF Boot, HookBegins, HookEnds, TypeOK, Running
  <2>2. CASE Crash(j) \/ Halt(j)
    <3>1. /\ jvm' = [jvm EXCEPT ![j] = "down"]
          /\ thread' = [t \in Launchers |-> IF thread[t].jvm = j THEN Free ELSE thread[t]]
      BY <2>2 DEF Crash, Halt, GoDown
    <3>2. \A i \in Jvms : i # j => jvm'[i] = jvm[i]
      BY <3>1 DEF TypeOK
    <3>3. QED
      BY <3>1, <3>2
  <2>3. QED
    BY <2>1, <2>2
<1>5. Fading
  <2>1. CASE Boot(j) \/ Crash(j) \/ Halt(j)
    BY <1>1, <2>1 DEF Boot, Crash, Halt, Fading
  <2>2. CASE HookBegins(j)
    <3>1. \A p \in Procs : \/ proc'[p] = proc[p]
                           \/ /\ proc[p].guard = "watching"
                              /\ proc'[p] = [proc[p] EXCEPT !.guard = "sweeping"]
      BY <2>2 DEF HookBegins
    <3>2. QED
      <4>1. \A r \in ProcRecord :
              r.guard = "watching" => Fades(r, [r EXCEPT !.guard = "sweeping"])
        BY FieldFades
      <4>2. QED
        BY <1>1, <3>1, <4>1 DEF Fading
  <2>3. CASE HookEnds(j)
    <3>1. \A p \in Procs :
            \/ proc'[p] = proc[p]
            \/ PidAlive(p) /\ proc'[p] \in {Killed(p, FALSE), KilledAlone(p)}
      BY <2>3 DEF HookEnds
    <3>2. QED
      BY <1>1, <3>1, KilledFades DEF Fading
  <2>4. QED
    BY <2>1, <2>2, <2>3
<1>6. QED
  BY <1>2, <1>3, <1>4, <1>5 DEF Outside, Stays
-----------------------------------------------------------------------------
(* The launches *)

\* A launch is made by a running JVM, for a process that is its own, that has no
\* PID yet and no agent before it is spawned.
LaunchInv ==
  /\ \A t \in Launchers : thread[t].pc # "free" =>
       LET p == thread[t].proc IN
       /\ thread[t].jvm \in Jvms /\ jvm[thread[t].jvm] \in Running
       /\ p \in Procs /\ proc[p].handle # None /\ ~proc[p].pid
       /\ proc[p].agent = "unborn" <=> thread[t].pc # "record"
  /\ \A t, u \in Launchers :
       t # u /\ thread[t].pc # "free" /\ thread[u].pc # "free"
         => thread[t].proc # thread[u].proc

\* What is on file, what a sweep has read there and what it will look for has a
\* PID; what it looks for has lost its JVM.
KnownInv ==
  /\ \A h \in Handles : file[h] # None => proc[file[h]].pid
  /\ \A t \in Launchers :
       /\ thread[t].read # None => proc[thread[t].read].pid
       /\ \A p \in thread[t].orphans : proc[p].pid /\ jvm[proc[p].owner] = "down"

\* What a sweep is about to stop is in no live JVM's registry.
Doomed(p) == p \in Procs /\ ~(Up(p) /\ proc[p].registered /\ PidAlive(p))

DoomedInv == \A t \in Launchers : At(t, "destroy") => Doomed(thread[t].read)

\* A file that still names an agent the sweep has to stop is ahead of it.
Ahead(t, h, p) ==
  \/ h \in thread[t].todo
  \/ /\ thread[t].pc \in {"judge", "destroy", "drop"}
     /\ thread[t].at = h /\ thread[t].read = p

OrphanInv ==
  \A t \in Launchers :
    /\ thread[t].pc \notin {"free", "record"} =>
         \A p \in thread[t].orphans, h \in Handles :
           file[h] = p /\ proc[p].agent = "up" => Ahead(t, h, p)
    /\ At(t, "spawn") => thread[t].todo = {}

SafeInv ==
  TypeOK /\ Named /\ UnbornInv /\ LaunchInv /\ KnownInv /\ DoomedInv /\ OrphanInv

\* A process that fades stays doomed, keeps its PID and does not come to life.
LEMMA FadedProc ==
  ASSUME TypeOK, TypeOK', UnbornInv, NEW p \in Procs, Fades(proc[p], proc'[p])
  PROVE  /\ proc'[p].handle = proc[p].handle /\ proc'[p].owner = proc[p].owner
         /\ proc'[p].pid = proc[p].pid /\ proc'[p].guarded = proc[p].guarded
         /\ proc'[p].registered => proc[p].registered
         /\ proc'[p].agent = "unborn" <=> proc[p].agent = "unborn"
         /\ proc'[p].agent = "up" => proc[p].agent = "up"
         /\ proc[p].guard = "none" => proc'[p].guard = "none"
         /\ PidAlive(p)' => PidAlive(p)
BY DEF Fades, PidAlive

\* A launch goes on with its sweep: what it reads has a PID, what it stops is
\* doomed, and it does not lose sight of what it has to stop.
Moves(t) ==
  /\ UNCHANGED jvm
  /\ thread[t].pc \notin {"free", "record"} /\ thread'[t].pc \notin {"free", "record"}
  /\ thread'[t].jvm = thread[t].jvm /\ thread'[t].proc = thread[t].proc
  /\ thread'[t].orphans = thread[t].orphans
  /\ thread'[t].read # None => proc[thread'[t].read].pid
  /\ thread'[t].pc = "destroy" => Doomed(thread'[t].read)
  /\ \A p \in thread[t].orphans, h \in Handles :
       file'[h] = p /\ proc'[p].agent = "up" => Ahead(t, h, p)'
  /\ thread'[t].pc = "spawn" => thread'[t].todo = {}

\* The invariant is kept by a step in which processes fade, files go, JVMs age
\* and every launch ends, stays or goes on with its sweep.
LEMMA QuietStep ==
  ASSUME SafeInv, TypeOK', Fading, JvmAges,
         \A h \in Handles : file'[h] \in {file[h], None},
         \A t \in Launchers : thread'[t] = Free \/ Stays(t) \/ Moves(t)
  PROVE  SafeInv'
<1> USE DEF SafeInv
<1> DEFINE Same(p) ==
      /\ proc'[p].handle = proc[p].handle /\ proc'[p].owner = proc[p].owner
      /\ proc'[p].pid = proc[p].pid /\ proc'[p].guarded = proc[p].guarded
      /\ proc'[p].registered => proc[p].registered
      /\ proc'[p].agent = "unborn" <=> proc[p].agent = "unborn"
      /\ proc'[p].agent = "up" => proc[p].agent = "up"
      /\ proc[p].guard = "none" => proc'[p].guard = "none"
      /\ PidAlive(p)' => PidAlive(p)
<1>1. \A p \in Procs : Same(p)
  BY FadedProc DEF Fading
<1>2. ASSUME NEW t \in Launchers, thread'[t] # Free
      PROVE  /\ thread'[t].orphans = thread[t].orphans
             /\ thread'[t].read # None => proc[thread'[t].read].pid
             /\ thread'[t].pc = "destroy" => Doomed(thread'[t].read)
             /\ thread'[t].pc # "free" =>
                  /\ thread[t].pc # "free"
                  /\ thread'[t].pc = "record" <=> thread[t].pc = "record"
                  /\ thread'[t].jvm = thread[t].jvm /\ thread'[t].proc = thread[t].proc
                  /\ jvm'[thread[t].jvm] \in Running
  BY <1>2 DEF Stays, Moves, KnownInv, DoomedInv, LaunchInv, At
<1>3. Named'
  BY <1>1 DEF Named, JvmAges
<1>4. UnbornInv'
  BY <1>1 DEF UnbornInv, TypeOK
<1>5. LaunchInv'
  <2>1. ASSUME NEW t \in Launchers, thread'[t].pc # "free"
        PROVE  /\ thread[t].pc # "free"
               /\ thread'[t].pc = "record" <=> thread[t].pc = "record"
               /\ thread'[t].jvm = thread[t].jvm /\ thread'[t].proc = thread[t].proc
               /\ jvm'[thread[t].jvm] \in Running
    BY <1>2, <2>1 DEF Free
  <2>2. QED
    BY <1>1, <2>1 DEF LaunchInv
<1>6. KnownInv'
  <2>1. \A h \in Handles : file'[h] # None => proc'[file'[h]].pid
    BY <1>1 DEF KnownInv, TypeOK
  <2>2. ASSUME NEW t \in Launchers, thread'[t].read # None
        PROVE  proc'[thread'[t].read].pid
    BY <1>1, <1>2, <2>2 DEF TypeOK, ThreadRecord, Free
  <2>3. ASSUME NEW t \in Launchers, NEW p \in thread'[t].orphans
        PROVE  proc'[p].pid /\ jvm'[proc'[p].owner] = "down"
    <3>1. p \in thread[t].orphans /\ p \in Procs
      BY <1>2, <2>3 DEF TypeOK, ThreadRecord, Free
    <3>2. proc[p].pid /\ jvm[proc[p].owner] = "down" /\ proc[p].owner \in Jvms
      BY <3>1 DEF KnownInv, Named, UnbornInv
    <3>3. QED
      BY <1>1, <3>1, <3>2 DEF JvmAges
  <2>4. QED
    BY <2>1, <2>2, <2>3 DEF KnownInv
<1>7. DoomedInv'
  <2>1. ASSUME NEW t \in Launchers, thread'[t].pc = "destroy"
        PROVE  Doomed(thread[t].read)'
    <3>1. PICK p \in Procs : p = thread'[t].read /\ p # None /\ Doomed(p) /\ proc[p].pid
      BY <1>2, <2>1, GuardAssumption DEF Free, Doomed
    <3>2. proc[p].owner \in Jvms /\ jvm[proc[p].owner] # "new"
      BY <3>1 DEF Named, UnbornInv
    <3>3. Up(p)' => Up(p)
      BY <1>1, <3>1, <3>2 DEF Up, JvmAges
    <3>4. PidAlive(p)' => PidAlive(p)
      BY <1>1
    <3>5. ~(Up(p)' /\ proc'[p].registered /\ PidAlive(p)')
      BY <1>1, <3>1, <3>3, <3>4 DEF Doomed
    <3>6. QED
      BY <3>1, <3>5 DEF Doomed, Up, PidAlive
  <2>2. QED
    BY <2>1 DEF DoomedInv, At
<1>8. OrphanInv'
  <2>1. ASSUME NEW t \in Launchers
        PROVE  /\ thread'[t].pc \notin {"free", "record"} =>
                    \A p \in thread'[t].orphans, h \in Handles :
                      file'[h] = p /\ proc'[p].agent = "up" => Ahead(t, h, p)'
               /\ thread'[t].pc = "spawn" => thread'[t].todo = {}
    <3>1. CASE thread'[t] = Free
      BY <3>1 DEF Free
    <3>2. CASE Stays(t)
      <4>1. ASSUME NEW p \in thread[t].orphans, NEW h \in Handles,
                   file'[h] = p, proc'[p].agent = "up"
            PROVE  file[h] = p /\ proc[p].agent = "up"
        BY <1>1, <4>1, GuardAssumption DEF TypeOK, ThreadRecord
      <4>2. QED
        BY <3>2, <4>1 DEF Stays, OrphanInv, Ahead, At
    <3>3. CASE Moves(t)
      BY <3>3 DEF Moves
    <3>4. QED
      BY <3>1, <3>2, <3>3
  <2>2. QED
    BY <2>1 DEF OrphanInv, At
<1>9. QED
  BY <1>3, <1>4, <1>5, <1>6, <1>7, <1>8

\* The steps of a sweep move their launch and let the others stay.
LEMMA SweepStep ==
  ASSUME SafeInv, TypeOK', NEW t \in Launchers,
         \/ ReadPidFile(t) \/ JudgePidFile(t) \/ DestroyOrphan(t)
         \/ DropPidFile(t) \/ SweepEnds(t)
  PROVE  SafeInv'
<1> USE DEF SafeInv
<1>1. UNCHANGED jvm /\ JvmAges
  BY DEF ReadPidFile, JudgePidFile, DestroyOrphan, DropPidFile, SweepEnds, JvmAges, Running
<1>2. \A h \in Handles : file'[h] \in {file[h], None}
  BY DEF ReadPidFile, JudgePidFile, DestroyOrphan, DropPidFile, SweepEnds, TypeOK
<1>3. \A u \in Launchers : u # t => Stays(u)
  BY <1>1 DEF ReadPidFile, JudgePidFile, DestroyOrphan, DropPidFile, SweepEnds, TypeOK, Stays
<1>4. \A p \in Procs : Fades(proc[p], proc[p])
  BY FieldFades DEF TypeOK
<1>5. thread[t] \in ThreadRecord /\ proc \in [Procs -> ProcRecord]
  BY DEF TypeOK
<1>6. CASE ReadPidFile(t)
  <2>1. PICK g \in thread[t].todo : thread' = [thread EXCEPT ![t].pc = "judge",
          ![t].at = g, ![t].read = file[g], ![t].todo = @ \ {g}]
    BY <1>6 DEF ReadPidFile
  <2>2. /\ thread'[t].pc = "judge" /\ thread'[t].at = g /\ thread'[t].read = file[g]
        /\ thread'[t].todo = thread[t].todo \ {g} /\ thread'[t].jvm = thread[t].jvm
        /\ thread'[t].proc = thread[t].proc /\ thread'[t].orphans = thread[t].orphans
    BY <1>5, <2>1 DEF TypeOK, ThreadRecord
  <2>3. g \in Handles /\ UNCHANGED <<file, proc>> /\ thread[t].pc = "sweep"
    BY <1>5, <1>6 DEF ReadPidFile, ThreadRecord, At
  <2>4. \A p \in thread[t].orphans, h \in Handles :
          file'[h] = p /\ proc'[p].agent = "up" => Ahead(t, h, p)'
    BY <2>2, <2>3 DEF OrphanInv, Ahead
  <2>5. Moves(t)
    BY <1>1, <2>2, <2>3, <2>4 DEF Moves, KnownInv
  <2>6. QED
    BY <1>1, <1>2, <1>3, <1>4, <2>3, <2>5, QuietStep DEF Fading
<1>7. CASE JudgePidFile(t)
  <2> DEFINE p == thread[t].read
  <2>1. UNCHANGED <<file, proc>> /\ thread[t].pc = "judge"
    BY <1>7 DEF JudgePidFile, At
  <2>2. CASE thread' = [thread EXCEPT ![t].pc = "drop"]
    <3>1. /\ thread'[t].pc = "drop" /\ thread'[t].at = thread[t].at
          /\ thread'[t].read = p /\ thread'[t].todo = thread[t].todo
          /\ thread'[t].jvm = thread[t].jvm /\ thread'[t].proc = thread[t].proc
          /\ thread'[t].orphans = thread[t].orphans
      BY <1>5, <2>2 DEF TypeOK, ThreadRecord
    <3>2. Moves(t)
      BY <1>1, <2>1, <3>1 DEF Moves, KnownInv, OrphanInv, Ahead
    <3>3. QED
      BY <1>1, <1>2, <1>3, <1>4, <2>1, <3>2, QuietStep DEF Fading
  <2>3. CASE /\ p # None /\ PidAlive(p) /\ StopVerdict(thread[t].jvm, p)
             /\ thread' = [thread EXCEPT ![t].pc = "destroy"]
    <3>1. /\ thread'[t].pc = "destroy" /\ thread'[t].at = thread[t].at
          /\ thread'[t].read = p /\ thread'[t].todo = thread[t].todo
          /\ thread'[t].jvm = thread[t].jvm /\ thread'[t].proc = thread[t].proc
          /\ thread'[t].orphans = thread[t].orphans
      BY <1>5, <2>3 DEF TypeOK, ThreadRecord
    <3>2. Doomed(p)
      BY <1>5, <2>3 DEF Doomed, StopVerdict, Contains, ThreadRecord
    <3>3. Moves(t)
      BY <1>1, <2>1, <3>1, <3>2 DEF Moves, KnownInv, OrphanInv, Ahead
    <3>4. QED
      BY <1>1, <1>2, <1>3, <1>4, <2>1, <3>3, QuietStep DEF Fading
  <2>4. CASE /\ p # None /\ PidAlive(p)
             /\ ~StopVerdict(thread[t].jvm, p) \/ proc[p].owner = thread[t].jvm
             /\ thread' = [thread EXCEPT ![t].pc = "sweep", ![t].at = None, ![t].read = None]
    <3>1. /\ thread'[t].pc = "sweep" /\ thread'[t].read = None
          /\ thread'[t].todo = thread[t].todo
          /\ thread'[t].jvm = thread[t].jvm /\ thread'[t].proc = thread[t].proc
          /\ thread'[t].orphans = thread[t].orphans
      BY <1>5, <2>4 DEF TypeOK, ThreadRecord
    <3>2. p \notin thread[t].orphans
      <4>1. thread[t].jvm \in Jvms /\ jvm[thread[t].jvm] \in Running
        BY <2>1 DEF LaunchInv
      <4>2. ASSUME p \in thread[t].orphans PROVE FALSE
        <5>1. jvm[proc[p].owner] = "down"
          BY <4>2 DEF KnownInv
        <5>2. proc[p].owner # thread[t].jvm /\ ~Up(p)
          BY <4>1, <5>1 DEF Running, Up
        <5>3. QED
          BY <2>4, <5>2 DEF StopVerdict, Contains
      <4>3. QED
        BY <4>2
    <3>3. \A q \in thread[t].orphans, h \in Handles :
            file'[h] = q /\ proc'[q].agent = "up" => Ahead(t, h, q)'
      BY <2>1, <3>1, <3>2 DEF OrphanInv, Ahead
    <3>4. Moves(t)
      BY <1>1, <2>1, <3>1, <3>3 DEF Moves
    <3>5. QED
      BY <1>1, <1>2, <1>3, <1>4, <2>1, <3>4, QuietStep DEF Fading
  <2>5. QED
    BY <1>7, <2>2, <2>3, <2>4 DEF JudgePidFile
<1>8. CASE DestroyOrphan(t)
  <2> DEFINE p == thread[t].read
  <2>1. /\ thread[t].pc = "destroy" /\ UNCHANGED file /\ p \in Procs
        /\ thread' = [thread EXCEPT ![t].pc = "drop"]
    BY <1>8 DEF DestroyOrphan, At, DoomedInv, Doomed
  <2>2. Fading
    <3>1. CASE PidAlive(p)
      <4>1. PICK swept \in BOOLEAN : proc' = [proc EXCEPT ![p] = Killed(p, swept)]
        BY <1>5, <1>8, <2>1, <3>1 DEF DestroyOrphan, ProcRecord
      <4>2. Fades(proc[p], Killed(p, swept))
        BY <2>1, <3>1, KilledFades
      <4> HIDE DEF p
      <4>3. QED
        BY <1>4, <1>5, <4>1, <4>2 DEF Fading
    <3>2. CASE ~PidAlive(p)
      BY <1>4, <1>8, <3>2 DEF DestroyOrphan, Fading
    <3>3. QED
      BY <3>1, <3>2
  <2>3. /\ thread'[t].pc = "drop" /\ thread'[t].at = thread[t].at
        /\ thread'[t].read = p /\ thread'[t].todo = thread[t].todo
        /\ thread'[t].jvm = thread[t].jvm /\ thread'[t].proc = thread[t].proc
        /\ thread'[t].orphans = thread[t].orphans
    BY <1>5, <2>1 DEF TypeOK, ThreadRecord
  <2>4. \A q \in Procs : proc'[q].agent = "up" => proc[q].agent = "up"
    BY <2>2, FadedProc DEF Fading
  <2>5. \A q \in thread[t].orphans, h \in Handles :
          file'[h] = q /\ proc'[q].agent = "up" => Ahead(t, h, q)'
    BY <1>5, <2>1, <2>3, <2>4 DEF OrphanInv, Ahead, ThreadRecord
  <2>6. Moves(t)
    BY <1>1, <2>1, <2>3, <2>5 DEF Moves, KnownInv
  <2>7. QED
    BY <1>1, <1>2, <1>3, <2>2, <2>6, QuietStep
<1>9. CASE DropPidFile(t)
  <2>1. /\ thread[t].pc = "drop" /\ UNCHANGED proc
        /\ file' = [file EXCEPT ![thread[t].at] = None]
        /\ thread' = [thread EXCEPT ![t].pc = "sweep", ![t].at = None, ![t].read = None]
    BY <1>9 DEF DropPidFile, At
  <2>2. /\ thread'[t].pc = "sweep" /\ thread'[t].read = None
        /\ thread'[t].todo = thread[t].todo
        /\ thread'[t].jvm = thread[t].jvm /\ thread'[t].proc = thread[t].proc
        /\ thread'[t].orphans = thread[t].orphans
    BY <1>5, <2>1 DEF TypeOK, ThreadRecord
  <2>3. \A q \in thread[t].orphans, h \in Handles :
          file'[h] = q /\ proc'[q].agent = "up" => Ahead(t, h, q)'
    <3>1. ASSUME NEW q \in thread[t].orphans, NEW h \in Handles, file'[h] = q
          PROVE  file[h] = q /\ h # thread[t].at
      BY <1>5, <2>1, <3>1, GuardAssumption DEF TypeOK, ThreadRecord
    <3>2. QED
      BY <2>1, <2>2, <3>1 DEF OrphanInv, Ahead
  <2>4. Moves(t)
    BY <1>1, <2>1, <2>2, <2>3 DEF Moves
  <2>5. QED
    BY <1>1, <1>2, <1>3, <1>4, <2>1, <2>4, QuietStep DEF Fading
<1>10. CASE SweepEnds(t)
  <2>1. /\ thread[t].pc = "sweep" /\ UNCHANGED <<file, proc>> /\ thread[t].todo = {}
        /\ thread' = [thread EXCEPT ![t].pc = "spawn"]
    BY <1>10 DEF SweepEnds, At
  <2>2. /\ thread'[t].pc = "spawn" /\ thread'[t].read = thread[t].read
        /\ thread'[t].todo = {}
        /\ thread'[t].jvm = thread[t].jvm /\ thread'[t].proc = thread[t].proc
        /\ thread'[t].orphans = thread[t].orphans
    BY <1>5, <2>1 DEF TypeOK, ThreadRecord
  <2>3. Moves(t)
    BY <1>1, <2>1, <2>2 DEF Moves, KnownInv, OrphanInv, Ahead
  <2>4. QED
    BY <1>1, <1>2, <1>3, <1>4, <2>1, <2>3, QuietStep DEF Fading
<1>11. QED
  BY <1>6, <1>7, <1>8, <1>9, <1>10

\* What a launch does to its own process, which has no PID, is nothing to the
\* sweeps of the other launches.
LEMMA OtherSweeps ==
  ASSUME SafeInv, TypeOK', UNCHANGED jvm, NEW t \in Launchers,
         \A u \in Launchers : u # t => thread'[u] = thread[u],
         \A q \in Procs : proc[q].pid => proc'[q] = proc[q],
         \A q \in Procs, h \in Handles : proc[q].pid /\ file'[h] = q => file[h] = q,
         NEW u \in Launchers, u # t
  PROVE  /\ thread'[u].read # None => proc'[thread'[u].read].pid
         /\ \A p \in thread'[u].orphans : proc'[p].pid /\ jvm'[proc'[p].owner] = "down"
         /\ thread'[u].pc = "destroy" => Doomed(thread[u].read)'
         /\ thread'[u].pc \notin {"free", "record"} =>
              \A p \in thread'[u].orphans, h \in Handles :
                file'[h] = p /\ proc'[p].agent = "up" => Ahead(u, h, p)'
         /\ thread'[u].pc = "spawn" => thread'[u].todo = {}
<1> USE DEF SafeInv
<1>1. thread'[u] = thread[u] /\ thread[u] \in ThreadRecord
  BY DEF TypeOK
<1>2. thread[u].read # None => thread[u].read \in Procs /\ proc[thread[u].read].pid
  BY <1>1 DEF KnownInv, ThreadRecord
<1>3. \A p \in thread[u].orphans : p \in Procs /\ proc[p].pid
  BY <1>1 DEF KnownInv, ThreadRecord
<1>4. thread[u].pc = "destroy" => Doomed(thread[u].read)'
  <2>1. ASSUME thread[u].pc = "destroy" PROVE Doomed(thread[u].read)'
    <3>1. PICK p \in Procs : p = thread[u].read /\ Doomed(p) /\ proc[p].pid
      BY <1>2, <2>1, GuardAssumption DEF DoomedInv, Doomed, At
    <3>2. QED
      BY <1>1, <3>1 DEF Doomed, Up, PidAlive
  <2>2. QED
    BY <2>1
<1>5. ASSUME NEW p \in thread[u].orphans, NEW h \in Handles,
             thread[u].pc \notin {"free", "record"}, file'[h] = p, proc'[p].agent = "up"
      PROVE  Ahead(u, h, p)'
  BY <1>1, <1>3, <1>5 DEF OrphanInv, Ahead
<1>6. \A p \in thread[u].orphans : proc'[p].pid /\ jvm'[proc'[p].owner] = "down"
  BY <1>3 DEF KnownInv
<1>7. QED
  BY <1>1, <1>2, <1>4, <1>5, <1>6 DEF OrphanInv, At

\* A launch begins.
LEMMA LaunchBegins ==
  ASSUME SafeInv, TypeOK', NEW t \in Launchers, Launch(t)
  PROVE  SafeInv'
<1> USE DEF SafeInv
<1> DEFINE p == CHOOSE q \in Procs : proc[q] = Unborn
<1>1. p \in Procs /\ proc[p] = Unborn
  BY NextProc DEF Launch
<1>2. PICK j \in Jvms, h \in Handles :
        /\ jvm[j] = "up"
        /\ proc' = [proc EXCEPT ![p].handle = h, ![p].owner = j, ![p].registered = TRUE]
        /\ thread' = [thread EXCEPT ![t] =
             [Free EXCEPT !.pc = "sweep", !.jvm = j, !.proc = p,
                          !.todo = {g \in Handles : file[g] # None},
                          !.orphans = {q \in Recorded : PidAlive(q)
                                                        /\ jvm[proc[q].owner] = "down"}]]
  BY DEF Launch
<1> HIDE DEF p
<1>3. UNCHANGED <<jvm, file>>
  BY DEF Launch
<1>4. /\ proc'[p].handle = h /\ proc'[p].owner = j /\ proc'[p].agent = "unborn"
      /\ proc'[p].guard = "none" /\ ~proc'[p].guarded /\ ~proc'[p].pid
      /\ \A q \in Procs : q # p => proc'[q] = proc[q]
  <2>1. proc' = [proc EXCEPT ![p] =
                   [proc[p] EXCEPT !.handle = h, !.owner = j, !.registered = TRUE]]
    BY <1>2
  <2>2. proc'[p] = [Unborn EXCEPT !.handle = h, !.owner = j, !.registered = TRUE]
    BY <1>1, <2>1 DEF TypeOK
  <2>3. /\ proc'[p].handle = h /\ proc'[p].owner = j /\ proc'[p].agent = "unborn"
        /\ proc'[p].guard = "none"
    BY <2>2 DEF Unborn
  <2>4. ~proc'[p].guarded /\ ~proc'[p].pid
    BY <2>2 DEF Unborn
  <2>5. \A q \in Procs : q # p => proc'[q] = proc[q]
    BY <2>1 DEF TypeOK
  <2>6. QED
    BY <2>3, <2>4, <2>5
<1>5. /\ thread'[t].pc = "sweep" /\ thread'[t].jvm = j /\ thread'[t].proc = p
      /\ thread'[t].todo = {g \in Handles : file[g] # None} /\ thread'[t].read = None
      /\ thread'[t].orphans = {q \in Recorded : PidAlive(q) /\ jvm[proc[q].owner] = "down"}
      /\ \A u \in Launchers : u # t => thread'[u] = thread[u]
  BY <1>2 DEF Free, TypeOK
<1>6. proc[p].handle = None /\ ~proc[p].pid
  BY <1>1 DEF Unborn
<1>7. Named' /\ UnbornInv'
  BY <1>2, <1>3, <1>4, GuardAssumption DEF Named, UnbornInv
<1>8. LaunchInv'
  <2>1. ASSUME NEW u \in Launchers, u # t, thread[u].pc # "free"
        PROVE  thread[u].proc # p
    BY <1>6, <2>1 DEF LaunchInv
  <2>2. ASSUME NEW u \in Launchers, thread'[u].pc # "free"
        PROVE  LET q == thread'[u].proc IN
               /\ thread'[u].jvm \in Jvms /\ jvm'[thread'[u].jvm] \in Running
               /\ q \in Procs /\ proc'[q].handle # None /\ ~proc'[q].pid
               /\ proc'[q].agent = "unborn" <=> thread'[u].pc # "record"
    <3>1. CASE u = t
      <4>1. jvm'[j] \in Running /\ h # None
        BY <1>2, <1>3, GuardAssumption DEF Running
      <4>2. /\ thread'[u].jvm = j /\ thread'[u].proc = p /\ thread'[u].pc = "sweep"
        BY <1>5, <3>1
      <4>3. p \in Procs /\ proc'[p].handle = h /\ ~proc'[p].pid /\ proc'[p].agent = "unborn"
        BY <1>1, <1>4
      <4>4. QED
        BY <4>1, <4>2, <4>3
    <3>2. CASE u # t
      <4>1. thread'[u] = thread[u] /\ thread[u].proc # p
        BY <1>5, <2>1, <2>2, <3>2
      <4>2. QED
        BY <1>3, <1>4, <2>2, <4>1 DEF LaunchInv
    <3>3. QED
      BY <3>1, <3>2
  <2>3. ASSUME NEW u \in Launchers, NEW v \in Launchers, u # v,
               thread'[u].pc # "free", thread'[v].pc # "free"
        PROVE  thread'[u].proc # thread'[v].proc
    BY <1>5, <2>1, <2>3 DEF LaunchInv
  <2>4. QED
    BY <2>2, <2>3 DEF LaunchInv
<1>9. \A q \in Procs : proc[q].pid => proc'[q] = proc[q]
  BY <1>4, <1>6
<1>10. \A q \in thread'[t].orphans : /\ q \in Procs /\ proc[q].pid
                                     /\ jvm[proc[q].owner] = "down"
  BY <1>5 DEF Recorded, KnownInv, TypeOK
<1>11. KnownInv'
  BY <1>3, <1>5, <1>9, <1>10, OtherSweeps DEF KnownInv, TypeOK
<1>12. DoomedInv'
  <2>1. ASSUME NEW u \in Launchers, thread'[u].pc = "destroy"
        PROVE  u # t /\ Doomed(thread[u].read)'
    BY <1>3, <1>5, <1>9, <2>1, OtherSweeps
  <2>2. QED
    BY <2>1 DEF DoomedInv, At
<1>13. OrphanInv'
  <2>1. \A q \in thread'[t].orphans, g \in Handles : file'[g] = q => Ahead(t, g, q)'
    BY <1>3, <1>5, <1>10, GuardAssumption DEF Ahead
  <2>2. QED
    BY <1>3, <1>5, <1>9, <2>1, OtherSweeps DEF OrphanInv, At
<1>14. QED
  BY <1>7, <1>8, <1>11, <1>12, <1>13

\* The process of a launch is spawned.
LEMMA SpawnStep ==
  ASSUME SafeInv, TypeOK', NEW t \in Launchers, Spawn(t)
  PROVE  SafeInv'
<1> USE DEF SafeInv
<1>1. PICK p \in Procs : /\ p = thread[t].proc /\ proc[p].handle # None /\ ~proc[p].pid
                         /\ proc[p].agent = "unborn"
  BY DEF Spawn, At, LaunchInv
<1>2. PICK g \in BOOLEAN : proc' = [proc EXCEPT ![p].guarded = g,
        ![p].guard = IF g THEN "watching" ELSE "none", ![p].agent = "up"]
  BY <1>1, GuardAssumption DEF Spawn
<1>3. UNCHANGED <<jvm, file>> /\ thread[t].pc = "spawn"
  BY DEF Spawn, At
<1>4. /\ proc'[p].handle = proc[p].handle /\ proc'[p].owner = proc[p].owner
      /\ proc'[p].agent = "up" /\ ~proc'[p].pid
      /\ proc'[p].registered = proc[p].registered
      /\ \A q \in Procs : q # p => proc'[q] = proc[q]
  <2>1. proc' = [proc EXCEPT ![p] = [proc[p] EXCEPT !.guarded = g,
                   !.guard = IF g THEN "watching" ELSE "none", !.agent = "up"]]
    BY <1>2
  <2>2. proc'[p] = [proc[p] EXCEPT !.guarded = g,
                      !.guard = IF g THEN "watching" ELSE "none", !.agent = "up"]
    BY <2>1 DEF TypeOK
  <2>3. proc[p] \in ProcRecord
    BY DEF TypeOK
  <2>4. QED
    BY <1>1, <2>1, <2>2, <2>3 DEF ProcRecord, TypeOK
<1>5. /\ thread'[t].pc = "record" /\ thread'[t].jvm = thread[t].jvm /\ thread'[t].proc = p
      /\ thread'[t].read = thread[t].read /\ thread'[t].orphans = thread[t].orphans
      /\ \A u \in Launchers : u # t => thread'[u] = thread[u]
  BY <1>1 DEF Spawn, TypeOK, ThreadRecord
<1>6. Named' /\ UnbornInv'
  BY <1>1, <1>3, <1>4 DEF Named, UnbornInv
<1>7. LaunchInv'
  BY <1>1, <1>3, <1>4, <1>5 DEF LaunchInv
<1>8. \A q \in Procs : proc[q].pid => proc'[q] = proc[q]
  BY <1>1, <1>4
<1>9. thread[t] \in ThreadRecord
  BY DEF TypeOK
<1>10. KnownInv'
  <2>1. thread'[t].read # None => proc'[thread'[t].read].pid
    BY <1>5, <1>8, <1>9 DEF KnownInv, ThreadRecord
  <2>2. \A q \in thread'[t].orphans : proc'[q].pid /\ jvm'[proc'[q].owner] = "down"
    BY <1>3, <1>5, <1>8, <1>9 DEF KnownInv, ThreadRecord
  <2>3. \A h \in Handles : file'[h] # None => proc'[file'[h]].pid
    BY <1>3, <1>8 DEF KnownInv, TypeOK
  <2>4. QED
    BY <1>3, <1>5, <1>8, <2>1, <2>2, <2>3, OtherSweeps DEF KnownInv
<1>11. DoomedInv'
  <2>1. ASSUME NEW u \in Launchers, thread'[u].pc = "destroy"
        PROVE  u # t /\ Doomed(thread[u].read)'
    BY <1>3, <1>5, <1>8, <2>1, OtherSweeps
  <2>2. QED
    BY <2>1 DEF DoomedInv, At
<1>12. OrphanInv'
  BY <1>3, <1>5, <1>8, OtherSweeps DEF OrphanInv, At
<1>13. QED
  BY <1>6, <1>7, <1>10, <1>11, <1>12

\* The process of a launch is put on file.
LEMMA RecordStep ==
  ASSUME SafeInv, TypeOK', NEW t \in Launchers, RecordPid(t)
  PROVE  SafeInv'
<1> USE DEF SafeInv
<1>1. PICK p \in Procs : /\ p = thread[t].proc /\ proc[p].handle # None /\ ~proc[p].pid
                         /\ proc[p].agent # "unborn"
  BY DEF RecordPid, At, LaunchInv
<1>2. /\ UNCHANGED jvm /\ thread[t].pc = "record"
      /\ file' = [file EXCEPT ![proc[p].handle] = p]
      /\ proc' = [proc EXCEPT ![p].pid = TRUE]
  BY <1>1 DEF RecordPid, At
<1>3. /\ proc'[p].handle = proc[p].handle /\ proc'[p].owner = proc[p].owner
      /\ proc'[p].agent = proc[p].agent /\ proc'[p].pid
      /\ proc'[p].registered = proc[p].registered
      /\ \A q \in Procs : q # p => proc'[q] = proc[q]
  BY <1>2 DEF TypeOK, ProcRecord
<1>4. thread'[t] = Free /\ \A u \in Launchers : u # t => thread'[u] = thread[u]
  BY DEF RecordPid, TypeOK
<1>5. Named' /\ UnbornInv'
  BY <1>1, <1>2, <1>3 DEF Named, UnbornInv
<1>6. LaunchInv'
  <2>1. ASSUME NEW u \in Launchers, thread'[u].pc # "free"
        PROVE  /\ u # t /\ thread'[u] = thread[u] /\ thread[u].proc # p
    BY <1>1, <1>2, <1>4, <2>1 DEF Free, LaunchInv
  <2>2. QED
    BY <1>2, <1>3, <2>1 DEF LaunchInv
<1>7. \A q \in Procs : proc[q].pid => proc'[q] = proc[q] /\ q # p
  BY <1>1, <1>3
<1>8. \A h \in Handles : file'[h] = p \/ file'[h] = file[h]
  BY <1>2 DEF TypeOK
<1>9. KnownInv'
  <2>1. \A h \in Handles : file'[h] # None => proc'[file'[h]].pid
    BY <1>3, <1>7, <1>8 DEF KnownInv, TypeOK
  <2>2. thread'[t].read = None /\ thread'[t].orphans = {}
    BY <1>4 DEF Free
  <2>3. QED
    BY <1>2, <1>4, <1>7, <1>8, <2>1, <2>2, OtherSweeps DEF KnownInv
<1>10. DoomedInv'
  <2>1. ASSUME NEW u \in Launchers, thread'[u].pc = "destroy"
        PROVE  u # t /\ Doomed(thread[u].read)'
    BY <1>2, <1>4, <1>7, <1>8, <2>1, OtherSweeps DEF Free
  <2>2. QED
    BY <2>1 DEF DoomedInv, At
<1>11. OrphanInv'
  <2>1. thread'[t].pc = "free"
    BY <1>4 DEF Free
  <2>2. QED
    BY <1>2, <1>4, <1>7, <1>8, <2>1, OtherSweeps DEF OrphanInv, At
<1>12. QED
  BY <1>5, <1>6, <1>9, <1>10, <1>11

-----------------------------------------------------------------------------
(* The theorems *)

\* The invariant holds at the start.
LEMMA SafeInitial == Init => SafeInv
BY GuardAssumption DEF Init, SafeInv, TypeOK, Unborn, Free, ProcRecord, ThreadRecord, Named,
   UnbornInv, LaunchInv, KnownInv, DoomedInv, OrphanInv, At

\* Every step keeps the invariant.
LEMMA SafeKept == SafeInv /\ [Next]_vars => SafeInv'
<1> SUFFICES ASSUME SafeInv, [Next]_vars PROVE SafeInv'
  OBVIOUS
<1>1. ASSUME NEW t \in Launchers, Launch(t) \/ LaunchStep(t) PROVE SafeInv'
  <2>1. TypeOK'
    BY <1>1, LaunchType DEF SafeInv
  <2>2. QED
    BY <1>1, <2>1, LaunchBegins, SweepStep, SpawnStep, RecordStep DEF LaunchStep
<1>2. ASSUME NEW p \in Procs,
             StopBegins(p) \/ StopEnds(p) \/ AgentDetaches(p) \/ AgentExits(p) \/ GuardStep(p)
      PROVE  SafeInv'
  <2>1. TypeOK' /\ Outside /\ JvmAges
    BY <1>2, ProcType, ProcOutside DEF SafeInv
  <2>2. QED
    BY <2>1, QuietStep DEF Outside
<1>3. ASSUME NEW j \in Jvms, Boot(j) \/ Crash(j) \/ HookBegins(j) \/ HookEnds(j) \/ Halt(j)
      PROVE  SafeInv'
  <2>1. TypeOK' /\ Outside /\ JvmAges
    BY <1>3, JvmType, JvmOutside DEF SafeInv
  <2>2. QED
    BY <2>1, QuietStep DEF Outside
<1>4. CASE UNCHANGED vars
  <2>1. TypeOK' /\ JvmAges
    BY <1>4 DEF vars, SafeInv, TypeOK, JvmAges, Running
  <2>2. \A p \in Procs : Fades(proc[p], proc[p])
    BY FieldFades DEF SafeInv, TypeOK
  <2>3. QED
    BY <1>4, <2>1, <2>2, QuietStep DEF vars, Fading, Stays
<1>5. QED
  BY <1>1, <1>2, <1>3, <1>4 DEF Next

\* Every variable keeps its type.
THEOREM TypeCorrect == Spec => []TypeOK
<1>1. SafeInv => TypeOK
  BY DEF SafeInv
<1>2. QED
  BY <1>1, SafeInitial, SafeKept, PTL DEF Spec

\* No sweep of the PID files stops a process that a live JVM still has in its
\* registry, however many JVMs launch, stop and sweep at the same time.
THEOREM SparesLive == Spec => SweepSparesLive
<1>1. SafeInv =>
        [ \A t \in Launchers :
            At(t, "destroy") /\ thread'[t].pc = "drop" =>
              LET p == thread[t].read IN ~(Up(p) /\ proc[p].registered /\ PidAlive(p)) ]_vars
  BY DEF SafeInv, DoomedInv, Doomed
<1>2. QED
  BY <1>1, SafeInitial, SafeKept, PTL DEF Spec, SweepSparesLive

\* No launch spawns its process before the processes on file that were alive when
\* its sweep began, and whose JVM was gone by then, have been stopped.
THEOREM OrphansStopped == Spec => []LaunchStopsOrphans
<1>1. SafeInv => LaunchStopsOrphans
  <2> SUFFICES ASSUME SafeInv, NEW t \in Launchers, thread[t].pc = "spawn",
                      NEW p \in thread[t].orphans, p \in Recorded, proc[p].agent = "up"
               PROVE  FALSE
    BY DEF LaunchStopsOrphans, At
  <2>1. PICK h \in Handles : file[h] = p
    BY DEF Recorded
  <2>2. QED
    BY <2>1 DEF SafeInv, OrphanInv, Ahead, At
<1>2. QED
  BY <1>1, SafeInitial, SafeKept, PTL DEF Spec

\* The invariant of the launches, whole.
THEOREM GuardCorrect == Spec => []GuardInv
<1>1. TypeOK /\ LaunchStopsOrphans => GuardInv
  BY DEF GuardInv
<1>2. QED
  BY <1>1, TypeCorrect, OrphansStopped, PTL
=============================================================================
