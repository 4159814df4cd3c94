---------------------------- MODULE AgentRegistry ---------------------------
(***************************************************************************)
(* The registry of agent processes of one No Code user: the start, close,  *)
(* events and sweep calls that look entries up in it, put them, stop them  *)
(* and remove them by handle.  The map is concurrent; what a call does between *)
(* its reads and its writes of the map is not protected.                   *)
(*                                                                         *)
(* A thread serves one call at a time.  An entry is used once.  Idle times *)
(* are ranks: 0 recent, 1 above PREWARM_TTL (3 min), 2 above the No Code   *)
(* TTL (20 min), 3 above DEFAULT_TTL (1 h).                                *)
(***************************************************************************)
EXTENDS Naturals, FiniteSets

CONSTANTS
  Handles,     \* the handles of the user's conversations
  Entries,     \* bound: the entries the starts may create
  Threads,     \* the threads that serve calls
  Reaper,      \* the thread that only sweeps
  UserLimit,   \* NOCODE_MAX_VIBE_PER_USER
  Overlap,     \* may calls be served at the same time, and time pass during one?
  None         \* no entry, no handle

ASSUME RegistryAssumption ==
  /\ IsFiniteSet(Entries) /\ None \notin Entries \cup Handles
  /\ UserLimit \in Nat \ {0}
  /\ Overlap \in BOOLEAN
  /\ Reaper \notin Threads

VARIABLES
  registry,    \* handle -> entry
  entry,       \* the fields of each entry the registry's users look at
  call         \* the call each thread serves

vars == <<registry, entry, call>>

Servers == Threads \cup {Reaper}

Unused == [handle |-> None, status |-> "unused", alive |-> FALSE, turn |-> FALSE,
           prewarm |-> FALSE, idle |-> 0, late |-> FALSE]

Free == [pc |-> "free", kind |-> "none", handle |-> None, prewarm |-> FALSE,
         own |-> None, victim |-> None, todo |-> {}, kept |-> {}, back |-> "free"]

Init ==
  /\ registry = [h \in Handles |-> None]
  /\ entry = [e \in Entries |-> Unused]
  /\ call = [t \in Servers |-> Free]

Registered == {registry[h] : h \in Handles} \ {None}
Idle == \A t \in Servers : call[t].pc = "free"

\* the call of thread t goes on with the fields of new
At(t, place) == call[t].pc = place
Move(t, new) ==
  call' = [call EXCEPT ![t] = [f \in DOMAIN Free |->
             IF f \in DOMAIN new THEN new[f] ELSE call[t][f]]]
Finish(t) == call' = [call EXCEPT ![t] = Free]

\* a start and an events read sweep first, when the sweep is due
Receive(t) ==
  /\ At(t, "free") /\ (Overlap \/ Idle)
  /\ \/ /\ t # Reaper
        /\ \E h \in Handles, due \in BOOLEAN :
             LET todo == IF due THEN Registered ELSE {} IN
             \/ \E p \in BOOLEAN :
                  Move(t, [pc |-> IF due THEN "verdicts" ELSE "lookup", kind |-> "start",
                           handle |-> h, prewarm |-> p, todo |-> todo])
             \/ Move(t, [pc |-> IF due THEN "verdicts" ELSE "read", kind |-> "events",
                         handle |-> h, todo |-> todo])
             \/ ~due /\ Move(t, [pc |-> "find", kind |-> "close", handle |-> h])
     \/ /\ t = Reaper
        /\ Move(t, [pc |-> "verdicts", kind |-> "sweep", todo |-> Registered])
  /\ UNCHANGED <<registry, entry>>

-----------------------------------------------------------------------------
(* vibeStartSteps *)

Found(t) == registry[call[t].handle]
Starting(e) == e # None /\ entry[e].status = "starting"
Alive(e) == e # None /\ entry[e].alive

\* a prewarm leaves the process its conversation has alone
LeaveAlone(t) ==
  /\ At(t, "lookup") /\ call[t].prewarm
  /\ Starting(Found(t)) \/ Alive(Found(t))
  /\ Finish(t)
  /\ UNCHANGED <<registry, entry>>

AwaitStart(t) ==
  /\ At(t, "lookup") /\ ~call[t].prewarm /\ Starting(Found(t))
  /\ Move(t, [pc |-> "waiting", victim |-> Found(t)])
  /\ UNCHANGED <<registry, entry>>

\* the awaited entry is no longer starting: look the handle up once more
AwaitOver(t) ==
  /\ At(t, "waiting") /\ ~Starting(call[t].victim)
  /\ Move(t, [pc |-> "again", victim |-> None])
  /\ UNCHANGED <<registry, entry>>

\* STARTING_GRACE_MILLIS pass and it still is
AwaitFails(t) ==
  /\ At(t, "waiting") /\ Starting(call[t].victim)
  /\ Finish(t)
  /\ UNCHANGED <<registry, entry>>

Decided(t) ==
  \/ At(t, "again")
  \/ At(t, "lookup") /\ ~Starting(Found(t)) /\ ~(call[t].prewarm /\ Alive(Found(t)))

TakeExisting(t) ==
  /\ Decided(t) /\ Alive(Found(t))
  /\ entry' = [entry EXCEPT ![Found(t)].prewarm = @ /\ call[t].prewarm,
                            ![Found(t)].idle = 0]
  /\ Finish(t)
  /\ UNCHANGED registry

\* fault: the process to be replaced is not stopped first
RestartExistingUnstopped(t) ==
  /\ Decided(t) /\ Alive(Found(t))
  /\ Move(t, [pc |-> "setup"])
  /\ UNCHANGED <<registry, entry>>

\* its token, model catalog, tool policy, viewer or reveal mode has changed
RestartExisting(t) ==
  /\ Decided(t) /\ Alive(Found(t))
  /\ Move(t, [pc |-> "kill", victim |-> Found(t), back |-> "setup"])
  /\ UNCHANGED <<registry, entry>>

StartAnew(t) ==
  /\ Decided(t) /\ ~Alive(Found(t))
  /\ Move(t, [pc |-> "setup"])
  /\ UNCHANGED <<registry, entry>>

SetupFails(t) ==
  /\ At(t, "setup")
  /\ Finish(t)
  /\ UNCHANGED <<registry, entry>>

\* createEntry, then registry.put: whatever is under the handle is replaced
PutEntry(t) ==
  /\ At(t, "setup")
  /\ \E e \in Entries :
       /\ entry[e] = Unused
       /\ entry' = [entry EXCEPT ![e] =
            [Unused EXCEPT !.handle = call[t].handle, !.status = "starting",
                           !.prewarm = call[t].prewarm]]
       /\ registry' = [registry EXCEPT ![call[t].handle] = e]
       /\ Move(t, [pc |-> "limit", own |-> e])

Counts(e) == entry[e].status \in {"starting", "running"}

\* fault: an off-by-one in the excess
VictimsTooFew(mine, keep) ==
  LET candidates == {e \in mine \ keep : entry[e].status = "running" /\ ~entry[e].turn}
      excess == IF Cardinality(mine) > UserLimit THEN Cardinality(mine) - UserLimit - 1 ELSE 0
      size == IF excess < Cardinality(candidates) THEN excess ELSE Cardinality(candidates)
  IN  {V \in SUBSET candidates :
         /\ Cardinality(V) = size
         /\ \A v \in V, u \in candidates \ V : entry[v].idle >= entry[u].idle}

\* userLimitVictims: above the limit, the least recently used of those that run
\* no turn, the kept ones excepted
Victims(mine, keep) ==
  LET candidates == {e \in mine \ keep : entry[e].status = "running" /\ ~entry[e].turn}
      excess == IF Cardinality(mine) > UserLimit THEN Cardinality(mine) - UserLimit ELSE 0
      size == IF excess < Cardinality(candidates) THEN excess ELSE Cardinality(candidates)
  IN  {V \in SUBSET candidates :
         /\ Cardinality(V) = size
         /\ \A v \in V, u \in candidates \ V : entry[v].idle >= entry[u].idle}

\* fault: a start leaves the other processes of its user alone
EnforceUserLimitNever(t) ==
  /\ At(t, "limit")
  /\ Move(t, [pc |-> "spawn"])
  /\ UNCHANGED <<registry, entry>>

\* enforceUserLimit: the entries of the map as it is now
EnforceUserLimit(t) ==
  /\ At(t, "limit")
  /\ IF Counts(call[t].own)
     THEN Move(t, [pc |-> "others", todo |-> Registered \ {call[t].own}])
     ELSE Move(t, [pc |-> "spawn"])
  /\ UNCHANGED <<registry, entry>>

\* a prewarm stops the previous one
Replaced(own, e) == entry[own].prewarm /\ entry[e].prewarm /\ entry[e].status = "running"

JudgeOther(t) ==
  /\ At(t, "others")
  /\ \E e \in call[t].todo :
       LET rest == call[t].todo \ {e} IN
       IF Counts(e) /\ Replaced(call[t].own, e)
       THEN Move(t, [pc |-> "kill", victim |-> e, todo |-> rest, back |-> "others"])
       ELSE Move(t, [todo |-> rest,
                     kept |-> call[t].kept \cup (IF Counts(e) THEN {e} ELSE {})])
  /\ UNCHANGED <<registry, entry>>

StopAboveLimit(t) ==
  /\ At(t, "others") /\ call[t].todo = {}
  /\ \E V \in Victims(call[t].kept \cup {call[t].own}, {call[t].own}) :
       Move(t, [pc |-> "stops", todo |-> V])
  /\ UNCHANGED <<registry, entry>>

Spawn(t) ==
  /\ At(t, "spawn")
  /\ entry' = [entry EXCEPT ![call[t].own].alive = TRUE]
  /\ Move(t, [pc |-> "handshake"])
  /\ UNCHANGED registry

\* initialize, session/new and the configuration have succeeded, whatever has
\* become of the entry since
Ready(t) ==
  /\ At(t, "handshake")
  /\ entry' = [entry EXCEPT ![call[t].own].status = "running", ![call[t].own].idle = 0]
  /\ Finish(t)
  /\ UNCHANGED registry

\* the entry stays registered, with status error
StartFails(t) ==
  /\ call[t].pc \in {"spawn", "handshake"}
  /\ entry' = [entry EXCEPT ![call[t].own].status = "error"]
  /\ Move(t, [pc |-> "kill", victim |-> call[t].own, back |-> "failed"])
  /\ UNCHANGED registry

-----------------------------------------------------------------------------
(* vibeClose *)

FindToClose(t) ==
  /\ At(t, "find")
  /\ IF Found(t) = None THEN Finish(t)
     ELSE Move(t, [pc |-> "kill", victim |-> Found(t), back |-> "free"])
  /\ UNCHANGED <<registry, entry>>

-----------------------------------------------------------------------------
(* events: the poll ends, and counts as an access *)

ReadEvents(t) ==
  /\ At(t, "read")
  /\ entry' = [e \in Entries |->
       IF e = Found(t) THEN [entry[e] EXCEPT !.idle = 0] ELSE entry[e]]
  /\ Finish(t)
  /\ UNCHANGED registry

-----------------------------------------------------------------------------
(* sweepRegistry *)

\* fault: a turn gets no longer TTL
ExpiredInTurn(e) ==
  /\ ~(entry[e].status = "starting" /\ ~entry[e].late)
  /\ \/ ~entry[e].alive
     \/ entry[e].prewarm /\ entry[e].idle >= 1
     \/ entry[e].idle >= 2

\* fault: a start under way is judged like a process
ExpiredStarting(e) ==
  \/ ~entry[e].alive
  \/ entry[e].prewarm /\ entry[e].idle >= 1
  \/ entry[e].idle >= IF entry[e].turn THEN 3 ELSE 2

\* fault: only the TTLs are looked at
ExpiredByTime(e) ==
  /\ ~(entry[e].status = "starting" /\ ~entry[e].late)
  /\ \/ entry[e].prewarm /\ entry[e].idle >= 1
     \/ entry[e].idle >= IF entry[e].turn THEN 3 ELSE 2

\* sweepVerdict: why the sweep stops an entry
Expired(e) ==
  /\ ~(entry[e].status = "starting" /\ ~entry[e].late)
  /\ \/ ~entry[e].alive
     \/ entry[e].prewarm /\ entry[e].idle >= 1
     \/ entry[e].idle >= IF entry[e].turn THEN 3 ELSE 2

\* options.keep: an events read never stops the conversation it reads
Keeps(t, e) == call[t].kind = "events" /\ entry[e].handle = call[t].handle

Judge(t) ==
  /\ At(t, "verdicts")
  /\ \E e \in call[t].todo :
       IF ~Keeps(t, e) /\ Expired(e)
       THEN Move(t, [pc |-> "kill", victim |-> e, todo |-> call[t].todo \ {e},
                     back |-> "verdicts"])
       ELSE Move(t, [todo |-> call[t].todo \ {e},
                     kept |-> call[t].kept \cup (IF Counts(e) THEN {e} ELSE {})])
  /\ UNCHANGED <<registry, entry>>

\* fault: the sweep leaves the limit to the starts
SweepUserLimitNever(t) ==
  /\ At(t, "verdicts") /\ call[t].todo = {}
  /\ Move(t, [pc |-> "stops", todo |-> {}])
  /\ UNCHANGED <<registry, entry>>

\* fault: the limit spares nothing
SweepUserLimitUnkept(t) ==
  /\ At(t, "verdicts") /\ call[t].todo = {}
  /\ \E V \in Victims(call[t].kept, {}) :
       Move(t, [pc |-> "stops", todo |-> V, kept |-> {}])
  /\ UNCHANGED <<registry, entry>>

SweepUserLimit(t) ==
  /\ At(t, "verdicts") /\ call[t].todo = {}
  /\ \E V \in Victims(call[t].kept, {e \in call[t].kept : Keeps(t, e)}) :
       Move(t, [pc |-> "stops", todo |-> V, kept |-> {}])
  /\ UNCHANGED <<registry, entry>>

-----------------------------------------------------------------------------
(* stopSweptEntry and stopEntry *)

NextVictim(t) ==
  /\ At(t, "stops")
  /\ IF call[t].todo # {}
     THEN \E e \in call[t].todo :
            Move(t, [pc |-> "kill", victim |-> e, todo |-> call[t].todo \ {e},
                     back |-> "stops"])
     ELSE CASE call[t].kind = "sweep" -> Finish(t)
            [] call[t].kind = "events" -> Move(t, [pc |-> "read"])
            [] call[t].kind = "start" ->
                 Move(t, [pc |-> IF call[t].own = None THEN "lookup" ELSE "spawn"])
  /\ UNCHANGED <<registry, entry>>

KillVictim(t) ==
  /\ At(t, "kill")
  /\ entry' = [entry EXCEPT ![call[t].victim].alive = FALSE]
  /\ Move(t, [pc |-> "close"])
  /\ UNCHANGED registry

\* status, then system/closed, which ends the turn and is the entry's last access
CloseVictim(t) ==
  /\ At(t, "close")
  /\ entry' = [entry EXCEPT
       ![call[t].victim].status = IF @ = "error" THEN "error" ELSE "closed",
       ![call[t].victim].turn = FALSE,
       ![call[t].victim].idle = 0]
  /\ IF call[t].back = "failed" THEN Finish(t) ELSE Move(t, [pc |-> "remove"])
  /\ UNCHANGED registry

\* registry.remove(entry.handle) removes whatever the handle leads to
RemoveVictim(t) ==
  /\ At(t, "remove")
  /\ registry' = [registry EXCEPT ![entry[call[t].victim].handle] = None]
  /\ IF call[t].back = "free" THEN Finish(t)
     ELSE Move(t, [pc |-> call[t].back, victim |-> None])
  /\ UNCHANGED entry

-----------------------------------------------------------------------------
(* Prompts, the passing of time and the death of a process *)

\* vibePrompt finds the entry through the registry
TurnStarts(e) ==
  /\ e \in Registered /\ (Overlap \/ Idle)
  /\ entry[e].alive /\ entry[e].status = "running" /\ ~entry[e].turn
  /\ entry' = [entry EXCEPT ![e].turn = TRUE, ![e].prewarm = FALSE, ![e].idle = 0]
  /\ UNCHANGED <<registry, call>>

TurnEnds(e) ==
  /\ entry[e].alive /\ entry[e].turn
  /\ entry' = [entry EXCEPT ![e].turn = FALSE, ![e].idle = 0]
  /\ UNCHANGED <<registry, call>>

TimePasses(e) ==
  /\ Overlap \/ Idle
  /\ \/ /\ Counts(e) /\ entry[e].idle < 3
        /\ entry' = [entry EXCEPT ![e].idle = @ + 1]
     \/ /\ entry[e].status = "starting" /\ ~entry[e].late
        /\ entry' = [entry EXCEPT ![e].late = TRUE]
  /\ UNCHANGED <<registry, call>>

\* the reader thread pushes system/exit, unless the stream ends before the process
ProcessDies(e) ==
  /\ entry[e].alive
  /\ \E status \in {"exited", entry[e].status} :
       entry' = [entry EXCEPT ![e].alive = FALSE, ![e].status = status, ![e].idle = 0]
  /\ UNCHANGED <<registry, call>>

-----------------------------------------------------------------------------
StartStep(t) ==
  \/ LeaveAlone(t) \/ AwaitStart(t) \/ AwaitOver(t) \/ AwaitFails(t)
  \/ TakeExisting(t) \/ RestartExisting(t) \/ StartAnew(t) \/ SetupFails(t)
  \/ PutEntry(t) \/ EnforceUserLimit(t) \/ JudgeOther(t) \/ StopAboveLimit(t)
  \/ Spawn(t) \/ Ready(t) \/ StartFails(t)

StopStep(t) == NextVictim(t) \/ KillVictim(t) \/ CloseVictim(t) \/ RemoveVictim(t)

ServerStep(t) ==
  \/ StartStep(t) \/ FindToClose(t) \/ ReadEvents(t) \/ Judge(t) \/ SweepUserLimit(t) \/ StopStep(t)

Next ==
  \/ \E t \in Servers : Receive(t) \/ ServerStep(t)
  \/ \E e \in Entries :
       TurnStarts(e) \/ TurnEnds(e) \/ TimePasses(e) \/ ProcessDies(e)

Spec == Init /\ [][Next]_vars

\* a call, once received, is served to its end, and the reaper keeps sweeping
FairSpec ==
  /\ Spec
  /\ \A t \in Servers : WF_vars(ServerStep(t))
  /\ SF_vars(Receive(Reaper))

-----------------------------------------------------------------------------
(* Properties *)

EntryRecord ==
  [handle : Handles \cup {None}, alive : BOOLEAN, turn : BOOLEAN, prewarm : BOOLEAN,
   status : {"unused", "starting", "running", "error", "closed", "exited"},
   idle : 0..3, late : BOOLEAN]

Places == {"free", "lookup", "waiting", "again", "setup", "limit", "others",
           "stops", "spawn", "handshake", "find", "read", "verdicts", "kill", "close", "remove"}

CallRecord ==
  [pc : Places, kind : {"none", "start", "close", "events", "sweep"},
   handle : Handles \cup {None}, prewarm : BOOLEAN, own : Entries \cup {None},
   victim : Entries \cup {None}, todo : SUBSET Entries, kept : SUBSET Entries,
   back : {"free", "setup", "failed", "others", "stops", "verdicts"}]

TypeOK ==
  /\ registry \in [Handles -> Entries \cup {None}]
  /\ entry \in [Entries -> EntryRecord]
  /\ call \in [Servers -> CallRecord]

\* A live process can be found under its handle: a close, a prompt or a sweep
\* reaches it.  Nothing else in the Bridge knows it.
LiveIsRegistered ==
  \A e \in Entries : entry[e].alive => registry[entry[e].handle] = e

\* A conversation never has two processes: a start that finds the prewarm
\* starting waits "rather than start a second one" (agent_bridge_vibe.js:395).
OneProcessPerHandle ==
  \A e, f \in Entries :
    entry[e].alive /\ entry[f].alive /\ entry[e].handle = entry[f].handle => e = f

\* The user limit and the idle sweep stop no process in a turn, an hour of
\* silence excepted (agent_bridge_common.js:12334-12337): what was decided on
\* still holds when the process is killed.
SweepSparesTurns ==
  [][ \A t \in Servers :
        LET c == call[t] IN
        c.pc = "kill" /\ call'[t].pc = "close" /\ c.back \in {"others", "stops", "verdicts"}
          => ~(entry[c.victim].alive /\ entry[c.victim].turn) \/ entry[c.victim].idle = 3 ]_vars

\* A start under way has no process yet, and yet no sweep and no start of another
\* conversation takes it for dead within its grace (sweepVerdict,
\* userLimitVictims), however old the verdict is that is carried out.
SweepSparesStarts ==
  [][ \A t \in Servers :
        LET c == call[t] IN
        c.pc = "kill" /\ call'[t].pc = "close" /\ c.back \in {"others", "stops", "verdicts"}
          => entry[c.victim].status # "starting" \/ entry[c.victim].late ]_vars

\* The sweep an events read begins with, which another read may have made due,
\* never stops the conversation it reads (events: keep is its handle), neither for
\* its idle time nor to bring the user back within the limit.
PollKeepsConversation ==
  [][ \A t \in Servers :
        LET c == call[t] IN
        c.kind = "events" /\ c.pc = "kill" => entry[c.victim].handle # c.handle ]_vars

\* A sweep stops neither a turn nor the conversation that is being read.
SweepsSpareUse == SweepSparesTurns /\ PollKeepsConversation

\* A start that enforces the limit stops enough: once its victims are gone the
\* user is within it, or all that is left beside the new process cannot be stopped,
\* and nothing it spares has been idle longer than a victim.
LimitIsEnforced ==
  [][ \A t \in Servers :
        call[t].pc = "others" /\ call'[t].pc = "stops" =>
          LET own == call[t].own
              spared == {e \in Registered : Counts(e)} \ call'[t].todo
              stoppable == {e \in spared \ {own} : entry[e].status = "running" /\ ~entry[e].turn}
          IN  /\ Cardinality(spared) <= UserLimit \/ stoppable = {}
              /\ \A v \in call'[t].todo, e \in stoppable :
                   entry[v].idle >= entry[e].idle ]_vars

\* A user has one prewarmed process: once a prewarm has replaced the previous
\* one, no other is left running.
OnePrewarm ==
  \A t \in Servers :
    call[t].pc = "spawn" /\ call[t].prewarm =>
      \A e \in Registered \ {call[t].own} :
        entry[e].status = "running" => ~entry[e].prewarm

\* The limit is restored again and again, unless a process is in a turn or
\* starting whenever the reaper looks.
LimitRestored ==
  []<>(LET counted == {e \in Registered : Counts(e)} IN
       \/ Cardinality(counted) <= UserLimit
       \/ \E e \in counted : entry[e].turn \/ entry[e].status = "starting")

\* A process that died leaves the registry, whether or not its end was seen.
DeadIsSwept ==
  \A e \in Entries :
    (e \in Registered /\ ~entry[e].alive /\ entry[e].status \in {"running", "exited"})
      ~> e \notin Registered

\* The safety of the registry when calls come one at a time: a live process is
\* always found under its handle, so that a conversation has one, and a user
\* has one prewarm.
RegistryInv == TypeOK /\ LiveIsRegistered /\ OnePrewarm

\* The reaper's sweeps bring the registry back to what it should hold, whatever
\* the calls between them did: within the limit, and without the dead.
ReaperRestores == LimitRestored /\ DeadIsSwept
=============================================================================
