------------------------------ MODULE VibeSetup ------------------------------
(***************************************************************************)
(* vibeSetup on one Vibe home and one virtual environment: the config.toml  *)
(* the bridge writes, the intent recorded beside it, and the installation   *)
(* of the runtime.  A file is truncated before it is written.  The cache of *)
(* tool descriptors that a write prunes is left out.                        *)
(*                                                                         *)
(* Setups overlap, the engine may stop in any of them, the user may edit or *)
(* delete the file, and lib_ConvertigoMCP._setupVibe rewrites the query of  *)
(* the MCP url.                                                            *)
(***************************************************************************)
EXTENDS Naturals

CONSTANTS
  Setups,   \* calls of vibeSetup
  Visible,  \* what a config.toml can be read back for: url base, headers, models
  Queries   \* queries of the MCP url

\* a file that is missing, cut short or edited is read back for nothing the bridge writes
ASSUME VisibleAssumption == {"none", "edited"} \cap Visible = {}

Wants == [visible : Visible, query : Queries]
NoWant == [visible |-> "none", query |-> "none"]
NoFile == NoWant
Edited == [visible |-> "edited", query |-> "edited"]
ByMcp == "jsonOnly"  \* the query _setupVibe gives the url

VARIABLES
  setupPc,     \* where each setup is
  wanted,      \* what each setup wants, kept while it answers ready
  selected,    \* setup.config.selected of each setup, then the text it writes
  config,      \* config.toml
  intent,      \* the recorded intent
  venv,        \* "none", "foreign", "half" (no pip), "bare" or "ready"
  answered,    \* the status each setup last answered
  alone,       \* history: no other setup and no stop since it began
  kept         \* history: what a lone setup wrote or reused, still untouched

homeVars == <<config, intent>>
setupVars == <<setupPc, wanted, selected, homeVars, venv, answered, alone, kept>>

Idle == {s \in Setups : setupPc[s] = "idle"}

VibeSetupInit ==
  /\ setupPc = [s \in Setups |-> "idle"]
  /\ wanted = [s \in Setups |-> NoWant]
  /\ selected = [s \in Setups |-> NoFile]
  /\ config = NoFile /\ intent = NoWant
  /\ venv \in {"none", "foreign"}
  /\ answered = [s \in Setups |-> "none"]
  /\ alone = [s \in Setups |-> FALSE]
  /\ kept = NoWant

At(s, here) == setupPc[s] = here
Goto(s, there) == setupPc' = [setupPc EXCEPT ![s] = there]
Answer(s, status) ==
  /\ Goto(s, "idle")
  /\ answered' = [answered EXCEPT ![s] = status]
  /\ wanted' = [wanted EXCEPT ![s] = IF status = "ready" THEN @ ELSE NoWant]

\* what a setup that is over answered concerns nobody once another begins
Settle(begins, w) ==
  /\ wanted' = [t \in Setups |-> IF t = begins THEN w
                                ELSE IF t \in Idle THEN NoWant ELSE wanted[t]]
  /\ answered' = [t \in Setups |-> "none"]

\* detectSetup, and what the setup will compare with
DetectHome(s) ==
  /\ At(s, "idle")
  /\ Goto(s, "detected")
  /\ \E w \in Wants : Settle(s, w)
  /\ selected' = [selected EXCEPT ![s] = config]
  /\ alone' = [t \in Setups |-> t = s /\ Idle = Setups]
  /\ kept' = IF Idle = Setups THEN kept ELSE NoWant
  /\ UNCHANGED <<homeVars, venv>>

\* fault: the file is not looked at
MatchesIntentOnly(file, w) == TRUE

\* the file-derived checks: the query of the url is left out
Matches(file, w) == file.visible = w.visible

\* fault: the whole url of the file is compared
IsReusedByUrl(s) == intent = wanted[s] /\ selected[s] = wanted[s]

\* both the intent and the file say that the config is the one wanted
IsReused(s) == intent = wanted[s] /\ Matches(selected[s], wanted[s])

CompareConfig(s) ==
  /\ At(s, "detected")
  /\ Goto(s, IF IsReused(s) THEN "migrate" ELSE "write")
  /\ selected' = [selected EXCEPT ![s] = IF IsReused(s) THEN NoFile ELSE wanted[s]]
  /\ kept' = IF alone[s] /\ intent = wanted[s] THEN wanted[s] ELSE NoWant
  /\ UNCHANGED <<wanted, homeVars, venv, answered, alone>>

\* writeTextFile: the file is truncated first, or cannot be written
TruncateConfig(s) ==
  /\ setupPc[s] \in {"write", "patch"}
  /\ \/ /\ Goto(s, IF setupPc[s] = "write" THEN "fill" ELSE "refill")
        /\ config' = NoFile
        /\ UNCHANGED <<answered, wanted, selected, kept>>
     \/ /\ Answer(s, "error")
        /\ selected' = [selected EXCEPT ![s] = NoFile]
        /\ kept' = NoWant
        /\ UNCHANGED config
  /\ UNCHANGED <<intent, venv, alone>>

Filling(s) == setupPc[s] \in {"fill", "refill"}

\* then filled; two setups that fill it together leave any text
FillConfig(s) ==
  /\ Filling(s)
  /\ Goto(s, IF setupPc[s] = "fill" THEN "intent" ELSE "bootstrap")
  /\ config' \in {selected[s]} \cup
                 (IF \E t \in Setups \ {s} : Filling(t) THEN {Edited} ELSE {})
  /\ selected' = [selected EXCEPT ![s] = NoFile]
  /\ UNCHANGED <<wanted, intent, venv, answered, alone, kept>>

\* writeVibeConfigIntent: a failure is ignored, and may leave no intent
WriteIntent(s) ==
  /\ At(s, "intent")
  /\ Goto(s, "migrate")
  /\ intent' \in {wanted[s], intent, NoWant}
  /\ kept' = IF alone[s] /\ intent' = wanted[s] THEN wanted[s] ELSE NoWant
  /\ UNCHANGED <<wanted, selected, config, venv, answered, alone>>

\* migrateManagedVibeConfig: where a preset of the file is an old one, the text just
\* read is written again with the new one, which the comparison leaves out
MigrateConfig(s) ==
  /\ At(s, "migrate")
  /\ \/ /\ Goto(s, "bootstrap")
        /\ UNCHANGED selected
     \/ /\ config # NoFile
        /\ Goto(s, "patch")
        /\ selected' = [selected EXCEPT ![s] = config]
  /\ UNCHANGED <<wanted, homeVars, venv, answered, alone, kept>>

\* bootstrapVibeHome; then the runtime is installed, where it is asked for and
\* no runnable one was found
BootstrapHome(s) ==
  /\ At(s, "bootstrap")
  /\ \/ /\ Answer(s, "error")
     \/ /\ Goto(s, "skills") /\ UNCHANGED <<answered, wanted>>
     \/ /\ venv \notin {"foreign", "ready"}
        /\ Goto(s, "venv") /\ UNCHANGED <<answered, wanted>>
  /\ UNCHANGED <<selected, homeVars, venv, alone, kept>>

\* a directory whose pyvenv.cfg names the managed Python is kept as it is
BuildVenv(s) ==
  /\ At(s, "venv")
  /\ \/ /\ venv \in {"half", "bare", "ready"}
        /\ Goto(s, "pip") /\ UNCHANGED <<venv, answered, wanted>>
     \/ /\ venv \in {"none", "foreign"}
        /\ \/ venv' = "bare" /\ Goto(s, "pip") /\ UNCHANGED <<answered, wanted>>
           \/ venv' \in {venv, "half"} /\ Answer(s, "error")
  /\ UNCHANGED <<selected, homeVars, alone, kept>>

\* pip upgrades itself and installs Vibe: it is not there in half an environment
InstallPackages(s) ==
  /\ At(s, "pip")
  /\ \/ venv # "half" /\ venv' = "ready" /\ Goto(s, "skills") /\ UNCHANGED <<answered, wanted>>
     \/ Answer(s, "error") /\ UNCHANGED venv
  /\ UNCHANGED <<selected, homeVars, alone, kept>>

\* installAgentSkills: _setupVibe rewrites the url and may fail
SyncSkills(s) ==
  /\ At(s, "skills")
  /\ \/ /\ config' = IF config.visible \in Visible
                     THEN [config EXCEPT !.query = ByMcp] ELSE config
        /\ Answer(s, IF venv \in {"foreign", "ready"} THEN "ready" ELSE "missing")
     \/ /\ Answer(s, "configuration_error") /\ UNCHANGED config
  /\ UNCHANGED <<selected, intent, venv, alone, kept>>

\* the engine stops; an environment being built is left half built, an intent being
\* written may be lost
StopEngine ==
  /\ Idle # Setups
  /\ setupPc' = [s \in Setups |-> "idle"]
  /\ answered' = [s \in Setups |-> "none"]
  /\ wanted' = [s \in Setups |-> NoWant]
  /\ selected' = [s \in Setups |-> NoFile]
  /\ alone' = [s \in Setups |-> FALSE]
  /\ kept' = NoWant
  /\ venv' \in IF \E s \in Setups : At(s, "venv") /\ venv \in {"none", "foreign"}
               THEN {venv, "half"} ELSE {venv}
  /\ intent' \in IF \E s \in Setups : At(s, "intent") THEN {intent, NoWant} ELSE {intent}
  /\ UNCHANGED config

\* between two setups, the user edits or deletes the file
EditConfig ==
  /\ Idle = Setups
  /\ config' \in {NoFile, Edited}
  /\ kept' = NoWant
  /\ answered' = [s \in Setups |-> "none"]
  /\ wanted' = [s \in Setups |-> NoWant]
  /\ UNCHANGED <<setupPc, selected, intent, venv, alone>>

VibeSetupStep(s) ==
  \/ DetectHome(s) \/ CompareConfig(s) \/ TruncateConfig(s) \/ FillConfig(s)
  \/ WriteIntent(s) \/ MigrateConfig(s)
  \/ BootstrapHome(s) \/ BuildVenv(s) \/ InstallPackages(s)
  \/ SyncSkills(s)

VibeSetupNext ==
  \/ \E s \in Setups : VibeSetupStep(s)
  \/ StopEngine \/ EditConfig

VibeSetupSpec == VibeSetupInit /\ [][VibeSetupNext]_setupVars

-----------------------------------------------------------------------------
\* A setup that no other overlapped and that answers ready leaves the config it
\* wants and a runnable runtime, whatever overlapping setups, stops and edits
\* came before it.
ReadySetupApplied ==
  \A s \in Setups :
    alone[s] /\ answered[s] = "ready" =>
      /\ Matches(config, wanted[s]) /\ config \notin {NoFile, Edited}
      /\ venv \in {"foreign", "ready"}

\* A config that a lone setup wrote or reused, and that nobody has touched, is
\* not written again for the same wish, although _setupVibe and Vibe rewrite it.
ConfigIsReused ==
  [][\A s \in Setups :
       /\ kept # NoWant /\ kept = wanted[s] /\ kept' = kept /\ alone[s]
       => ~(At(s, "detected") /\ setupPc'[s] = "write")]_setupVars

\* The recorded intent makes a setup reuse the config when it is what is wanted,
\* and only then.
ConfigIsJudged == []ReadySetupApplied /\ ConfigIsReused
=============================================================================
