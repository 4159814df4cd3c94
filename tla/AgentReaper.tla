----------------------------- MODULE AgentReaper ----------------------------
(***************************************************************************)
(* The reaper threads of an engine.  The starts and the events reads each  *)
(* ensure that one runs: a system property names it, with the revision of  *)
(* its code and its last beat.  The property is read, then written, by     *)
(* callers and reapers alike, with nothing between them.                   *)
(*                                                                         *)
(* Time goes by periods of REAPER_PERIOD_MILLIS: a reaper wakes up once in *)
(* each, and a call lasts less than one.                                   *)
(***************************************************************************)
EXTENDS Naturals, FiniteSets

CONSTANTS
  Reapers,     \* bound: the reaper threads that run at the same time
  Callers,     \* the threads that call ensureAgentReaper
  Upgrades,    \* bound: how often a newer revision of the code is deployed
  Deaths,      \* bound: how often a reaper thread is interrupted
  None         \* no reaper

ASSUME ReaperAssumption == Upgrades \in Nat /\ Deaths \in Nat /\ None \notin Reapers

VARIABLES
  revision,    \* REAPER_REVISION of the code the callers run
  property,    \* REAPER_PROPERTY, with the age of its beat in periods
  reaper,      \* the state of each thread, and the revision it runs
  caller,      \* what each caller does, and the id it has drawn
  deaths       \* how many reapers have been interrupted

reaperVars == <<revision, property, reaper, caller, deaths>>

\* 3 * REAPER_PERIOD_MILLIS: the beat is stale
Stale == 3

ReaperInit ==
  /\ revision = 0
  /\ property = [rev |-> 0, id |-> None, age |-> Stale]
  /\ reaper = [r \in Reapers |-> [pc |-> "none", rev |-> 0]]
  /\ caller = [c \in Callers |-> [pc |-> "idle", id |-> None]]
  /\ deaths = 0

Running == {r \in Reapers : reaper[r].pc # "none"}

\* an id no thread, caller or property uses
Unused == {r \in Reapers \ Running : property.id # r /\ \A c \in Callers : caller[c].id # r}

-----------------------------------------------------------------------------
(* ensureAgentReaper *)

\* the property holds this revision and a beat that is not stale
Beats == property.rev = revision /\ property.age < Stale

ReadProperty(c) ==
  /\ caller[c].pc = "idle" /\ ~Beats
  /\ \E r \in Unused : caller' = [caller EXCEPT ![c] = [pc |-> "drawn", id |-> r]]
  /\ UNCHANGED <<revision, property, reaper, deaths>>

NameReaper(c) ==
  /\ caller[c].pc = "drawn"
  /\ property' = [rev |-> revision, id |-> caller[c].id, age |-> 0]
  /\ caller' = [caller EXCEPT ![c].pc = "named"]
  /\ UNCHANGED <<revision, reaper, deaths>>

StartReaper(c) ==
  /\ caller[c].pc = "named"
  /\ reaper' = [reaper EXCEPT ![caller[c].id] = [pc |-> "asleep", rev |-> revision]]
  /\ caller' = [caller EXCEPT ![c] = [pc |-> "idle", id |-> None]]
  /\ UNCHANGED <<revision, property, deaths>>

-----------------------------------------------------------------------------
(* reaperTick *)

\* fault: a reaper goes on as long as the property holds its revision
CheckNameByRevision(r) ==
  /\ reaper[r].pc = "awake"
  /\ reaper' = [reaper EXCEPT ![r].pc =
       IF property.rev = reaper[r].rev THEN "checked" ELSE "none"]
  /\ UNCHANGED <<revision, property, caller, deaths>>

\* the thread ends when the property names another one
CheckName(r) ==
  /\ reaper[r].pc = "awake"
  /\ reaper' = [reaper EXCEPT ![r].pc = IF property.id = r THEN "checked" ELSE "none"]
  /\ UNCHANGED <<revision, property, caller, deaths>>

\* fault: a tick does not renew the beat
BeatNever(r) ==
  /\ reaper[r].pc = "checked"
  /\ reaper' = [reaper EXCEPT ![r].pc = "asleep"]
  /\ UNCHANGED <<revision, property, caller, deaths>>

\* the beat, then the sweep, then the next minute of sleep
Beat(r) ==
  /\ reaper[r].pc = "checked"
  /\ property' = [rev |-> reaper[r].rev, id |-> r, age |-> 0]
  /\ reaper' = [reaper EXCEPT ![r].pc = "asleep"]
  /\ UNCHANGED <<revision, caller, deaths>>

Interrupted(r) ==
  /\ reaper[r].pc = "asleep" /\ deaths < Deaths
  /\ reaper' = [reaper EXCEPT ![r].pc = "none"]
  /\ deaths' = deaths + 1
  /\ UNCHANGED <<revision, property, caller>>

-----------------------------------------------------------------------------
(* Time and deployment *)

\* whoever was due in the last period has run
PeriodPasses ==
  /\ \A r \in Running : reaper[r].pc = "asleep"
  /\ \A c \in Callers : caller[c].pc = "idle"
  /\ property' = [property EXCEPT !.age = IF @ < Stale THEN @ + 1 ELSE Stale]
  /\ reaper' = [r \in Reapers |->
       IF r \in Running THEN [reaper[r] EXCEPT !.pc = "awake"] ELSE reaper[r]]
  /\ UNCHANGED <<revision, caller, deaths>>

Deploy ==
  /\ revision < Upgrades
  /\ \A c \in Callers : caller[c].pc = "idle"
  /\ revision' = revision + 1
  /\ UNCHANGED <<property, reaper, caller, deaths>>

-----------------------------------------------------------------------------
CallerStep(c) == ReadProperty(c) \/ NameReaper(c) \/ StartReaper(c)
ReaperStep(r) == CheckName(r) \/ Beat(r)

ReaperNext ==
  \/ \E c \in Callers : CallerStep(c)
  \/ \E r \in Reapers : ReaperStep(r) \/ Interrupted(r)
  \/ PeriodPasses \/ Deploy

ReaperSpec == ReaperInit /\ [][ReaperNext]_reaperVars

\* the agents are used, the threads run and time goes by
ReaperFairSpec ==
  /\ ReaperSpec
  /\ \A c \in Callers : WF_reaperVars(CallerStep(c))
  /\ \A r \in Reapers : WF_reaperVars(ReaperStep(r))
  /\ WF_reaperVars(PeriodPasses)

-----------------------------------------------------------------------------
(* Properties *)

ReaperTypeOK ==
  /\ revision \in 0..Upgrades
  /\ property \in [rev : 0..Upgrades, id : Reapers \cup {None}, age : 0..Stale]
  /\ reaper \in [Reapers -> [pc : {"none", "asleep", "awake", "checked"},
                             rev : 0..Upgrades]]
  /\ caller \in [Callers -> [pc : {"idle", "drawn", "named"}, id : Reapers \cup {None}]]
  /\ deaths \in 0..Deaths

\* A reaper the property names is never taken for dead: its beat is younger
\* than the three periods after which a caller would start another one.
NamedReaperBeats == property.id \in Running => property.age < Stale

\* Once agents are used, however many callers find no reaper at once, and whichever
\* reaper dies, in the end one reaper runs, the one the property names
\* (agent_bridge_common.js:12518: "One reaper thread per engine"), as long as no
\* newer revision is deployed.
OneReaperRemains ==
  [](revision = 0) /\ <>(\E c \in Callers : caller[c].pc # "idle")
    => <>[](Cardinality(Running) = 1 /\ Running = {property.id})

\* The reaper the property names beats in time, in every well-formed state
\* (ensureAgentReaper, reaperTick).
ReaperInv == ReaperTypeOK /\ NamedReaperBeats
=============================================================================
