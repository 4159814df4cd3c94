------------------------------ MODULE MCEngine ------------------------------
(***************************************************************************)
(* What the setups and the conversations of an engine share (the homes,    *)
(* their files, the skills, the ports, the journals) and the streams of a  *)
(* turn of Codex and of Claude, all for their safety.  A behaviour is one  *)
(* of the scene it starts in; the other scenes stand still in one of their *)
(* initial states.                                                         *)
(***************************************************************************)
EXTENDS SkillBundle, VibeSetup, AgentStorage, ViewerLeases, ClaudeAuthCache, HomeSetup,
        CredentialCopies, JournalUsage, CodexItems, ClaudeStream, SessionUpdates

VARIABLE scene

Plays(s) ==
  /\ scene = s /\ UNCHANGED scene
  /\ s # "skills"     => UNCHANGED skillVars
  /\ s # "vibe setup" => UNCHANGED setupVars
  /\ s # "storage"    => UNCHANGED storageVars
  /\ s # "leases"     => UNCHANGED leaseVars
  /\ s # "sign-in"    => UNCHANGED authVars
  /\ s # "home"       => UNCHANGED homeSetupVars
  /\ s # "copies"     => UNCHANGED copyVars
  /\ s # "usage"      => UNCHANGED usageVars
  /\ s # "items"      => UNCHANGED itemVars
  /\ s # "stream"     => UNCHANGED streamVars
  /\ s # "updates"    => UNCHANGED updateVars

EngineInit ==
  /\ scene \in {"skills", "vibe setup", "storage", "leases",
                "sign-in", "home", "copies", "usage", "items", "stream", "updates"}
  /\ SkillInit /\ VibeSetupInit /\ StorageInit /\ LeaseInit
  /\ AuthInit /\ HomeSetupInit /\ CopyInit /\ UsageInit /\ ItemInit /\ StreamInit
  /\ UpdatesInit
  /\ scene # "skills"     => agentKind = CHOOSE k \in Kinds : TRUE
  /\ scene # "vibe setup" => venv = "none"
  /\ scene # "storage"    => \A c \in Conversations : sessionHome[c] = c
  /\ scene # "leases"     => \A c \in Leasers : basePort[c] = 1
  /\ scene # "sign-in"    => signedIn
  /\ scene # "home"       => homeKind = "codex" /\ flowLoaded /\ skillsIn = {}
  /\ scene # "copies"     => account = "codex"
  /\ scene # "items"      => \A i \in AgentMessages : phaseOf[i] = "unset"
  /\ scene # "stream"     => menu = ""
  /\ scene # "updates"    => /\ restricted /\ loadStage = "open"
                             /\ runs = [c \in ToolCalls |-> "other"]

EngineNext ==
  \/ Plays("skills") /\ SkillNext
  \/ Plays("vibe setup") /\ VibeSetupNext
  \/ Plays("storage") /\ StorageNext
  \/ Plays("leases") /\ LeaseNext
  \/ Plays("sign-in") /\ AuthNext
  \/ Plays("home") /\ HomeSetupNext
  \/ Plays("copies") /\ CopyNext
  \/ Plays("usage") /\ UsageNext
  \/ Plays("items") /\ ItemNext
  \/ Plays("stream") /\ StreamNext
  \/ Plays("updates") /\ UpdatesNext

EngineSpec ==
  /\ EngineInit
  /\ [][EngineNext]_<<scene, skillVars, setupVars, storageVars, leaseVars, authVars,
                      homeSetupVars, copyVars, usageVars, itemVars, streamVars,
                      updateVars>>
=============================================================================
