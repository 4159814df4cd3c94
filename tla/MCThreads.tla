----------------------------- MODULE MCThreads -----------------------------
(***************************************************************************)
(* The threads that must get something done: the event buffer and its      *)
(* poller, the reader and the poller of a Codex command, the reaper, the   *)
(* installation of the runtimes, the cache file and the logins.  A         *)
(* behaviour is one of the scene it starts in; the other scenes stand      *)
(* still in one of their initial states.                                   *)
(***************************************************************************)
EXTENDS AgentEvents, CodexExec, AgentReaper, RuntimeInstall, SharedCacheFile, ProviderLogins

VARIABLE scene

\* the event buffer when no event has to leave it
Roomy == INSTANCE AgentEvents WITH Buffer <- Budget

Plays(s) ==
  /\ scene = s /\ UNCHANGED scene
  /\ s \notin {"events", "log"} => UNCHANGED eventsVars
  /\ s # "exec"    => UNCHANGED execVars
  /\ s # "reaper"  => UNCHANGED reaperVars
  /\ s # "runtime" => UNCHANGED runtimeVars
  /\ s # "cache"   => UNCHANGED cacheVars
  /\ s # "login"   => UNCHANGED loginVars

ThreadsInit ==
  /\ scene \in {"events", "log", "exec", "reaper", "runtime", "cache", "login"}
  /\ EventsInit /\ ExecInit /\ ReaperInit /\ RuntimeInit /\ CacheInit /\ LoginInit
  /\ scene # "runtime" => kindOfRuntime = "python" /\ userCommand
  /\ scene # "login"   => loginProvider = "codex" /\ credentials

ThreadsNext ==
  \/ Plays("events") /\ EventsNext
  \/ Plays("log") /\ Roomy!EventsNext
  \/ Plays("exec") /\ ExecNext
  \/ Plays("reaper") /\ ReaperNext
  \/ Plays("runtime") /\ RuntimeNext
  \/ Plays("cache") /\ CacheNext
  \/ Plays("login") /\ LoginNext

\* the fairness of each module, in its scene
ThreadsFair ==
  /\ WF_eventsVars(scene \in {"events", "log"} /\ Poll)
  /\ \A p \in Producers : WF_eventsVars(\/ scene = "events" /\ Push(p)
                                        \/ scene = "log" /\ Roomy!Push(p))
  /\ WF_execVars(scene = "exec" /\ ReadOut)
  /\ WF_execVars(scene = "exec" /\ Watch)
  /\ \A c \in Callers : WF_reaperVars(scene = "reaper" /\ CallerStep(c))
  /\ \A r \in Reapers : WF_reaperVars(scene = "reaper" /\ ReaperStep(r))
  /\ WF_reaperVars(scene = "reaper" /\ PeriodPasses)
  /\ \A i \in Installers : WF_runtimeVars(scene = "runtime" /\ InstallerStep(i))
  /\ \A w \in CacheWriters : WF_cacheVars(scene = "cache" /\ CacheStep(w))
  /\ WF_loginVars(scene = "login" /\ LoginStatus)
  /\ \A p \in LoginProcesses : WF_loginVars(scene = "login" /\ TenMinutes(p))

ThreadsSpec ==
  /\ ThreadsInit
  /\ [][ThreadsNext]_<<scene, eventsVars, execVars, reaperVars, runtimeVars, cacheVars, loginVars>>
  /\ ThreadsFair

PlayedLog == INSTANCE EventLog
  WITH log <- IF scene = "log" THEN events ELSE <<>>,
       received <- IF scene = "log" THEN got ELSE <<>>

\* With one producer and a buffer that no event has to leave, the events and the
\* polls implement the log that the contract describes (docs/bridge-contract.md:207-213).
LogIsImplemented == PlayedLog!Spec

\* The calls that take a lock or start a process come to an end: installations
\* are answered, writes of the cache file end, and logins expire.
CallsEnd == InstallerIsAnswered /\ CacheWriteEnds /\ LoginEnds
=============================================================================
