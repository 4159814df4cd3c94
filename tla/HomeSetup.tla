------------------------------ MODULE HomeSetup ------------------------------
(***************************************************************************)
(* codexSetup and claudeSetup on one Studio home: the MCP servers and the    *)
(* skills that an agent started there will find.  Setups of conversations    *)
(* that share the home overlap and may fail anywhere, the engine may stop,   *)
(* and the Flow capability comes and goes with the projects that are loaded. *)
(*                                                                         *)
(* Codex keeps its servers in config.toml, which every operation reads whole *)
(* and writes whole, one section changed; the file of Claude is regenerated. *)
(* Headers, endpoints, Playwright and the texts of the skills are left out.  *)
(***************************************************************************)
CONSTANT HomeCalls   \* setups in progress

Legacy == "convertigo"
Flow == "convertigo-flow"

VARIABLES
  homeKind,     \* whose home it is: "codex" or "claude"
  flowLoaded,   \* whether the Flow capability is available
  servers,      \* the MCP servers of the home
  skillsIn,     \* its skills: "generalist", "flow", "nocode"
  router,       \* what the router skill sends the agent to, or "none"
  setup,        \* where each setup is, whether it holds the servers it read
                \* from config.toml, and skills.ok
  setupAnswer,  \* what the last setup that ended answered
  served,       \* history: a home at rest had the standard server
  steady        \* history: "lone" or "shared" while the Flow capability has not
                \* changed under the setups, that one alone or several have made

homeSetupVars == <<homeKind, flowLoaded, servers, skillsIn, router, setup, setupAnswer, served, steady>>
placeVars == <<homeKind, flowLoaded, served, steady>>

RestingSetup == [at |-> "idle", holds |-> FALSE, read |-> {}, ok |-> FALSE]
NoSetup == \A c \in HomeCalls : setup[c].at = "idle"

HomeSetupInit ==
  /\ homeKind \in {"codex", "claude"}
  /\ flowLoaded \in BOOLEAN
  /\ servers = {} /\ router = "none"
  /\ skillsIn \in {{}, {"nocode"}}
  /\ setup = [c \in HomeCalls |-> RestingSetup]
  /\ setupAnswer = "none"
  /\ served = FALSE /\ steady = "no"

AtStep(c, here) == setup[c].at = here /\ ~setup[c].holds
Proceed(c, there, isOk) == setup' = [setup EXCEPT ![c].at = there, ![c].ok = isOk]

\* the provider's runtime is looked for, then its home is prepared
BeginSetup(c) ==
  /\ AtStep(c, "idle")
  /\ Proceed(c, "servers", TRUE)
  /\ steady' = IF NoSetup THEN "lone" ELSE IF steady = "no" THEN "no" ELSE "shared"
  /\ served' = (served \/ (NoSetup /\ Legacy \in servers))
  /\ setupAnswer' = "none"
  /\ UNCHANGED <<homeKind, flowLoaded, servers, skillsIn, router>>

-----------------------------------------------------------------------------
(* The servers.                                                            *)

\* the operations that patch config.toml, and the section each is about
Patching == [servers |-> Legacy, flowServer |-> Flow, generalist |-> Legacy,
             pack |-> Flow, clean |-> Flow]

\* fault: the sections are found by their prefix
PatchedByPrefix(step, text) == IF step = "clean" THEN {} ELSE text \union {Patching[step]}

\* patchCodexMcpConfigText adds a section, removeUnavailableStudioCapabilities
\* removes one: the others stay
Patched(step, text) ==
  IF step = "clean" THEN text \ {Flow} ELSE text \union {Patching[step]}

\* the skills an operation installs before it reads config.toml
WithSkills(step) ==
  CASE step = "generalist" -> skillsIn \union {"generalist"}
    [] step = "pack" -> skillsIn \union {"flow"}
    [] step = "clean" -> skillsIn \ {"flow"}
    [] OTHER -> skillsIn

Patches(c) == homeKind = "codex" /\ setup[c].at \in DOMAIN Patching /\ ~setup[c].holds

ReadConfig(c) ==
  /\ Patches(c)
  /\ skillsIn' = WithSkills(setup[c].at)
  /\ setup' = [setup EXCEPT ![c].holds = TRUE, ![c].read = servers]
  /\ UNCHANGED <<placeVars, servers, router, setupAnswer>>

\* after the preflight of a setup that is not its start's, the home is
\* bootstrapped once more
AfterPatch(step) ==
  CASE step = "servers" -> {IF flowLoaded THEN "flowServer" ELSE "generalist"}
    [] step = "flowServer" -> {"servers", "generalist"}
    [] step = "generalist" -> {IF flowLoaded THEN "pack" ELSE "clean"}
    [] OTHER -> {"router"}

\* a file that needs no change is not written; one that has its sections may
\* still get another url or header
Rewritten(step, text) ==
  IF Patched(step, text) # text THEN {Patched(step, text)}
  ELSE {servers} \union (IF step = "clean" THEN {} ELSE {text})

RewriteConfig(c) ==
  /\ setup[c].holds
  /\ servers' \in Rewritten(setup[c].at, setup[c].read)
  /\ \E there \in AfterPatch(setup[c].at) :
       setup' = [setup EXCEPT ![c] = [RestingSetup EXCEPT !.at = there, !.ok = setup[c].ok]]
  /\ UNCHANGED <<placeVars, skillsIn, router, setupAnswer>>

\* a failure to bootstrap is reported and changes nothing else; one to
\* configure a capability is not ok
PatchFails(c) ==
  /\ Patches(c)
  /\ IF setup[c].at \in {"servers", "flowServer"}
     THEN Proceed(c, "generalist", setup[c].ok)
     ELSE \E there \in AfterPatch(setup[c].at) : Proceed(c, there, FALSE)
  /\ UNCHANGED <<placeVars, servers, skillsIn, router, setupAnswer>>

\* writeClaudeMcpConfig regenerates the file
WriteServers(c) ==
  /\ homeKind = "claude" /\ AtStep(c, "servers")
  /\ \/ servers' = {Legacy} \union (IF flowLoaded THEN {Flow} ELSE {})
     \/ UNCHANGED servers
  /\ Proceed(c, "generalist", TRUE)
  /\ UNCHANGED <<placeVars, skillsIn, router, setupAnswer>>

-----------------------------------------------------------------------------
(* The skills.                                                             *)

\* installClaudeSkills: an exception ends the installation
InstallClaude(c) ==
  /\ homeKind = "claude" /\ AtStep(c, "generalist")
  /\ \/ /\ skillsIn' = skillsIn \union {"generalist"} \union (IF flowLoaded THEN {"flow"} ELSE {})
        /\ Proceed(c, "router", TRUE)
     \/ /\ skillsIn' \in {skillsIn, skillsIn \union {"generalist"}}
        /\ Proceed(c, "check", FALSE)
  /\ UNCHANGED <<placeVars, servers, router, setupAnswer>>

\* the router tells of Flow only while it is available
WriteRouter(c) ==
  /\ AtStep(c, "router")
  /\ router' = IF flowLoaded THEN "flow" ELSE "legacy"
  /\ Proceed(c, "drop", setup[c].ok)
  /\ UNCHANGED <<placeVars, servers, skillsIn, setupAnswer>>

\* removeStudioNoCodeSkill may fail
DropNoCode(c) ==
  /\ AtStep(c, "drop")
  /\ \/ skillsIn' = skillsIn \ {"nocode"} /\ Proceed(c, "check", setup[c].ok)
     \/ UNCHANGED skillsIn /\ Proceed(c, "check", setup[c].ok /\ "nocode" \notin skillsIn)
  /\ UNCHANGED <<placeVars, servers, router, setupAnswer>>

-----------------------------------------------------------------------------
(* The answer.                                                             *)

\* fault: the server of the standard capability is enough
LegacyIsListed == Legacy \in servers

\* fault: a skill that could not be removed is not told
Untold(c) == TRUE

ServersAreReady ==
  /\ Legacy \in servers
  /\ homeKind = "codex" /\ flowLoaded => Flow \in servers

SkillsAreReady(c) == setup[c].ok

AnswerSetup(c, status) ==
  /\ setup' = [setup EXCEPT ![c] = RestingSetup]
  /\ setupAnswer' = status
  /\ UNCHANGED <<placeVars, servers, skillsIn, router>>

\* ready, unless a part is missing or the user must sign in
CheckSetup(c) ==
  /\ AtStep(c, "check")
  /\ \/ ServersAreReady /\ SkillsAreReady(c) /\ AnswerSetup(c, "ready")
     \/ AnswerSetup(c, "other")

\* the preflight of codexSetup answers before the skills: the user must sign in
PreflightAnswers(c) ==
  /\ homeKind = "codex" /\ AtStep(c, "generalist") /\ setup[c].ok
  /\ AnswerSetup(c, "other")

FlowComesOrGoes ==
  /\ flowLoaded' = ~flowLoaded
  /\ steady' = "no"
  /\ UNCHANGED <<homeKind, servers, skillsIn, router, setup, setupAnswer, served>>

StopSetups ==
  /\ ~NoSetup
  /\ setup' = [c \in HomeCalls |-> RestingSetup]
  /\ setupAnswer' = "none" /\ steady' = "no"
  /\ UNCHANGED <<homeKind, flowLoaded, servers, skillsIn, router, served>>

HomeSetupStep(c) ==
  \/ BeginSetup(c) \/ ReadConfig(c) \/ RewriteConfig(c) \/ PatchFails(c)
  \/ WriteServers(c) \/ InstallClaude(c) \/ WriteRouter(c) \/ DropNoCode(c)
  \/ CheckSetup(c) \/ PreflightAnswers(c)

HomeSetupNext == (\E c \in HomeCalls : HomeSetupStep(c)) \/ FlowComesOrGoes \/ StopSetups

HomeSetupSpec == HomeSetupInit /\ [][HomeSetupNext]_homeSetupVars

-----------------------------------------------------------------------------
\* When the last of overlapping setups answers ready, the home has what its
\* router sends the agent to, whatever setups, failures, stops and changes of
\* the Flow capability came before.  A Claude home is only sure of the standard
\* server: claudeSetup answers ready on the file of an earlier setup when it
\* cannot write its own.
ReadyHomeIsComplete ==
  steady # "no" /\ NoSetup /\ setupAnswer = "ready" =>
    /\ router = IF flowLoaded THEN "flow" ELSE "legacy"
    /\ Legacy \in servers /\ "generalist" \in skillsIn
    /\ flowLoaded => "flow" \in skillsIn /\ (homeKind = "codex" => Flow \in servers)

\* A setup that no other overlapped and that answers ready leaves nothing the
\* agent must not use: no skill of NoCode and, with Codex, nothing of Flow when
\* Flow is not available.
ReadyHomeIsClean ==
  steady = "lone" /\ NoSetup /\ setupAnswer = "ready" =>
    /\ "nocode" \notin skillsIn
    /\ homeKind = "codex" /\ ~flowLoaded => "flow" \notin skillsIn /\ Flow \notin servers

\* The standard server that a home has while no setup is in progress is never
\* lost again for the agents that use it, however many setups then patch the
\* file from what each read before the others wrote, fail or stop.
StandardServerStays == served => Legacy \in servers

\* A home has what its agents are sent to, and a lone setup leaves it nothing
\* else, although every setup writes back a whole file it has read before.
HomeIsReady == ReadyHomeIsComplete /\ ReadyHomeIsClean /\ StandardServerStays
=============================================================================
