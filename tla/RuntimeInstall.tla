---------------------------- MODULE RuntimeInstall ----------------------------
(***************************************************************************)
(* The installation of a managed runtime shared by every conversation of a  *)
(* workspace: Python (a downloaded archive), Codex and Claude (an npm       *)
(* package, then the Playwright MCP package in the same prefix).            *)
(*                                                                         *)
(* A runtime is probed by running it with --version: one whose files are    *)
(* partly there may pass.  The workspace installation is preferred; a       *)
(* command found on the user's PATH is the fallback of npm installations.   *)
(***************************************************************************)
EXTENDS Naturals, FiniteSets

CONSTANTS Installers, NoHolder

ASSUME InstallAssumption == NoHolder \notin Installers

Npm == {"codex", "claude"}
Webbing == {"webbing", "fresh webbing"}

VARIABLES
  kindOfRuntime,
  userCommand,  \* a command is on the user's PATH
  files,        \* the managed runtime: "none", "partial" or "ready"
  playwright,   \* the Playwright MCP package, likewise
  holder,       \* who holds the install lock file
  installing,   \* where each call is
  forced,       \* the calls with forceInstall
  outcome       \* the answer of each call

runtimeVars == <<kindOfRuntime, userCommand, files, playwright, holder, installing,
                 forced, outcome>>

RuntimeInit ==
  /\ kindOfRuntime \in Npm \cup {"python"}
  /\ userCommand \in BOOLEAN
  /\ files = "none" /\ playwright = "none"
  /\ holder = NoHolder
  /\ installing = [i \in Installers |-> "idle"]
  /\ forced = [i \in Installers |-> FALSE]
  /\ outcome = [i \in Installers |-> "none"]

InPhase(i, here) == installing[i] = here
ToPhase(i, there) == installing' = [installing EXCEPT ![i] = there]

\* firstWorkingCommand on the managed candidates
ProbeFinds(state) == IF state = "partial" THEN BOOLEAN ELSE {state = "ready"}

\* fault: the lock is kept when the call throws
ReleaseUnlessError(i, result) ==
  holder' = IF holder = i /\ result # "error" THEN NoHolder ELSE holder

\* the finally block
ReleaseLock(i, result) == holder' = IF holder = i THEN NoHolder ELSE holder

EndInstall(i, result) ==
  /\ ToPhase(i, "idle")
  /\ outcome' = [outcome EXCEPT ![i] = result]
  /\ forced' = [forced EXCEPT ![i] = FALSE]
  /\ ReleaseLock(i, result)

NextPhase(i, there) == ToPhase(i, there) /\ UNCHANGED <<outcome, forced, holder>>

\* fault: the exit code of the installation is not looked at
InstallFailsUnnoticed(i) == EndInstall(i, "installed")

\* a failed npm installation falls back to the user's command
InstallFails(i) ==
  EndInstall(i, IF kindOfRuntime \in Npm /\ userCommand /\ ~forced[i]
            THEN "fallback" ELSE "error")

\* the call arrives and detects the runtime before any lock
DetectRuntime(i) ==
  /\ InPhase(i, "idle")
  /\ \E force \in BOOLEAN, found \in ProbeFinds(files) :
       /\ forced' = [forced EXCEPT ![i] = force]
       /\ IF found /\ ~force
          THEN IF kindOfRuntime \in Npm
               THEN ToPhase(i, "web") /\ outcome' = [outcome EXCEPT ![i] = "none"]
               ELSE ToPhase(i, "idle") /\ outcome' = [outcome EXCEPT ![i] = "reused"]
          ELSE ToPhase(i, "waiting") /\ outcome' = [outcome EXCEPT ![i] = "none"]
  /\ forced'[i] => installing'[i] = "waiting"
  /\ UNCHANGED <<kindOfRuntime, userCommand, files, playwright, holder>>

\* fault: two calls of one process are given the lock of the file together
LockIsShared == TRUE

LockIsFree == holder = NoHolder

\* acquireFileLock, tried every 250 ms
TakeInstallLock(i) ==
  /\ InPhase(i, "waiting") /\ LockIsFree
  /\ holder' = i /\ ToPhase(i, "locked")
  /\ UNCHANGED <<kindOfRuntime, userCommand, files, playwright, forced, outcome>>

\* its timeout, ten minutes by default
GiveUpLock(i) ==
  /\ InPhase(i, "waiting") /\ holder # NoHolder
  /\ EndInstall(i, "error")
  /\ UNCHANGED <<kindOfRuntime, userCommand, files, playwright>>

\* fault: the runtime is not looked for again
NeverFoundMeanwhile(i) == {FALSE}

\* another call may have installed the runtime while this one waited
FoundMeanwhile(i) == IF forced[i] THEN {FALSE} ELSE ProbeFinds(files)

\* the second detection, with the lock; a Claude found then gets no Playwright
DetectLocked(i) ==
  /\ InPhase(i, "locked")
  /\ \E found \in FoundMeanwhile(i) :
       IF found
       THEN IF kindOfRuntime = "codex" THEN NextPhase(i, "web") ELSE EndInstall(i, "reused")
       ELSE NextPhase(i, "fetch")
  /\ UNCHANGED <<kindOfRuntime, userCommand, files, playwright>>

\* the download, its checksum and ensureNpmRuntime fail before any file is touched
FetchRuntime(i) ==
  /\ InPhase(i, "fetch")
  /\ \/ /\ NextPhase(i, "unpacking")
        /\ files' = "partial"
     \/ /\ InstallFails(i)
        /\ UNCHANGED files
  /\ UNCHANGED <<kindOfRuntime, userCommand, playwright>>

\* tar or npm install ends, well or not
UnpackRuntime(i) ==
  /\ InPhase(i, "unpacking")
  /\ \/ /\ files' = "ready"
        /\ IF kindOfRuntime \in Npm THEN NextPhase(i, "fresh web") ELSE EndInstall(i, "installed")
     \/ /\ UNCHANGED files
        /\ InstallFails(i)
  /\ UNCHANGED <<kindOfRuntime, userCommand, playwright>>

WebDone(i, fresh) == EndInstall(i, IF fresh THEN "installed" ELSE "reused")

\* ensureCodexPlaywrightRuntime: nothing to do, or a second npm install, under
\* the lock or not
CheckPlaywright(i) ==
  /\ \E fresh \in BOOLEAN, found \in ProbeFinds(playwright) :
       /\ InPhase(i, IF fresh THEN "fresh web" ELSE "web")
       /\ \/ found /\ WebDone(i, fresh) /\ UNCHANGED playwright
          \/ /\ ~found /\ playwright' = "partial"
             /\ NextPhase(i, IF fresh THEN "fresh webbing" ELSE "webbing")
  /\ UNCHANGED <<kindOfRuntime, userCommand, files>>

\* its failure is only reported for Claude; it undoes a Codex installation and
\* ends a reuse with an error; two that overlap may leave anything
InstallPlaywright(i) ==
  /\ \E fresh \in BOOLEAN :
       /\ InPhase(i, IF fresh THEN "fresh webbing" ELSE "webbing")
       /\ \/ /\ playwright' \in IF \E j \in Installers \ {i} : installing[j] \in Webbing
                                THEN {"partial", "ready"} ELSE {"ready"}
             /\ WebDone(i, fresh)
          \/ /\ UNCHANGED playwright
             /\ CASE kindOfRuntime = "claude" -> WebDone(i, fresh)
                  [] kindOfRuntime # "claude" /\ fresh -> InstallFails(i)
                  [] OTHER -> EndInstall(i, "error")
  /\ UNCHANGED <<kindOfRuntime, userCommand, files>>

\* the engine stops: the system releases the lock, what was written stays
StopInstallers ==
  /\ \E i \in Installers : ~InPhase(i, "idle")
  /\ installing' = [i \in Installers |-> "idle"]
  /\ forced' = [i \in Installers |-> FALSE]
  /\ outcome' = [i \in Installers |-> "none"]
  /\ holder' = NoHolder
  /\ UNCHANGED <<kindOfRuntime, userCommand, files, playwright>>

InstallerStep(i) ==
  \/ TakeInstallLock(i) \/ GiveUpLock(i) \/ DetectLocked(i) \/ FetchRuntime(i) \/ UnpackRuntime(i)
  \/ CheckPlaywright(i) \/ InstallPlaywright(i)

RuntimeNext ==
  \/ \E i \in Installers : DetectRuntime(i) \/ InstallerStep(i)
  \/ StopInstallers

RuntimeSpec == RuntimeInit /\ [][RuntimeNext]_runtimeVars

RuntimeFair == \A i \in Installers : WF_runtimeVars(InstallerStep(i))

RuntimeFairSpec == RuntimeSpec /\ RuntimeFair

-----------------------------------------------------------------------------
\* Only one call writes the runtime at a time, and a call that is not forced
\* never writes over a complete one, although it waited while another installed.
InstalledOnce ==
  /\ Cardinality({i \in Installers : InPhase(i, "unpacking")}) <= 1
  /\ \A i \in Installers : InPhase(i, "fetch") /\ ~forced[i] => files # "ready"

\* A call that answers "installed" leaves a complete runtime: from the moment its
\* files are written until its answer, Playwright included, nobody else writes them.
InstalledIsComplete ==
  [][\A i \in Installers :
       outcome'[i] = "installed" /\ outcome[i] # "installed" => files' = "ready"]_runtimeVars

\* A call of the runtime is answered, and gives back the lock, whatever fails
\* in it and whoever holds the lock when it comes.
InstallerIsAnswered ==
  \A i \in Installers : installing[i] # "idle" ~> (installing[i] = "idle" /\ holder # i)

\* Installations that overlap neither write over one another nor over a complete
\* runtime, and answer "installed" with a complete one only.
InstallsAreWhole == []InstalledOnce /\ InstalledIsComplete
=============================================================================
