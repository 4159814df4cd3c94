----------------------------- MODULE SkillBundle -----------------------------
(***************************************************************************)
(* The managed skills of one conversation: the files installed in its home, *)
(* the versions acknowledged on disk, and the reads of the agent that the   *)
(* bridge records to know whether a turn must ask for them again.           *)
(*                                                                         *)
(* A version stands for the hash of a SKILL.md, 0 for a missing file; a     *)
(* fingerprint is the versions it is computed from.  A release never goes   *)
(* back to an earlier version.                                             *)
(***************************************************************************)
EXTENDS Naturals

CONSTANTS
  Skills,     \* the slugs of managedSkillBundleSlugs
  Releases,   \* the versions of a skill, from 1
  ReadCalls   \* the tool calls of a turn

ASSUME SkillAssumption == Releases \in Nat \ {0}

Kinds == {"codex-app-server", "codex-exec", "claude"}
NoCall == [skill |-> "none", loaded |-> 0]
Nothing == [skills |-> [s \in Skills |-> 0], refresh |-> FALSE, asks |-> {}]

VARIABLES
  agentKind,    \* which agent, and for Codex by which protocol
  released,     \* the version the projects provide
  onDisk,       \* the version in the home
  acknowledged, \* the versions of the bundle state file, 0 if there is none
  bundle,       \* entry.managedSkillBundle
  readSlugs,    \* entry.managedSkillBundleReadSlugs
  skillCalls,   \* the calls that read a skill, and the version they loaded
  conversation, \* "closed", "open" or "turn"
  knows,        \* history: the versions of a skill the agent was given
  readHere      \* history: the skills read since the bundle was last taken anew

skillVars == <<agentKind, released, onDisk, acknowledged, bundle, readSlugs,
               skillCalls, conversation, knows, readHere>>

SkillInit ==
  /\ agentKind \in Kinds
  /\ released = [s \in Skills |-> 1]
  /\ onDisk = [s \in Skills |-> 0]
  /\ acknowledged = [s \in Skills |-> 0]
  /\ bundle = Nothing
  /\ readSlugs = {} /\ readHere = {}
  /\ skillCalls = [c \in ReadCalls |-> NoCall]
  /\ conversation = "closed"
  /\ knows = [s \in Skills |-> {}]

NoCalls == skillCalls' = [c \in ReadCalls |-> NoCall]

\* managedSkillBundleState: what is missing or not acknowledged is pending
StateOf(files) ==
  LET pending == {s \in Skills : files[s] = 0 \/ acknowledged[s] # files[s]}
  IN [skills |-> files, refresh |-> pending # {}, asks |-> pending]

Ready(b) == \A s \in Skills : b.skills[s] > 0

\* a new version of the Convertigo projects is loaded
Release(s) ==
  /\ released[s] < Releases
  /\ released' = [released EXCEPT ![s] = @ + 1]
  /\ UNCHANGED <<agentKind, onDisk, acknowledged, bundle, readSlugs, skillCalls,
                 conversation, knows, readHere>>

\* installAgentSkills outside of a start: it may stop before some skills
InstallSkills(some) ==
  /\ onDisk' = [s \in Skills |-> IF s \in some THEN released[s] ELSE onDisk[s]]
  /\ onDisk' # onDisk
  /\ UNCHANGED <<agentKind, released, acknowledged, bundle, readSlugs, skillCalls,
                 conversation, knows, readHere>>

\* a start installs every skill; a fresh Codex conversation takes them as read
OpenConversation(resumed) ==
  /\ conversation = "closed"
  /\ conversation' = "open"
  /\ onDisk' = released
  /\ LET taken == StateOf(released)
         baseline == /\ agentKind # "claude" /\ ~resumed
                     /\ \A s \in Skills : acknowledged[s] = 0
     IN IF baseline
        THEN /\ acknowledged' = released
             /\ bundle' = [taken EXCEPT !.refresh = FALSE, !.asks = {}]
             /\ knows' = [s \in Skills |-> knows[s] \cup {released[s]}]
        ELSE /\ bundle' = taken
             /\ UNCHANGED <<acknowledged, knows>>
  /\ readSlugs' = {} /\ readHere' = {} /\ NoCalls
  /\ UNCHANGED <<agentKind, released>>

\* fault: a changed bundle keeps the recorded reads
ForgetNothing(changed) == UNCHANGED readSlugs

\* codexPrompt clears the reads of a bundle that has changed
ForgetReads(changed) == readSlugs' = IF changed THEN {} ELSE readSlugs

\* a prompt restarts the agent when the bundle has changed, unless each turn
\* is a process of its own
SubmitTurn ==
  /\ conversation = "open"
  /\ LET latest == StateOf(onDisk)
         changed == latest.skills # bundle.skills
     IN IF changed /\ agentKind # "codex-exec"
        THEN /\ conversation' = "closed"
             /\ UNCHANGED <<bundle, readSlugs, readHere>>
        ELSE /\ conversation' = "turn"
             /\ bundle' = latest
             /\ ForgetReads(changed)
             /\ readHere' = IF changed THEN {} ELSE readHere
  /\ UNCHANGED <<agentKind, released, onDisk, acknowledged, skillCalls, knows>>

BeginRead(c, s) ==
  /\ conversation = "turn" /\ skillCalls[c] = NoCall
  /\ skillCalls' = [skillCalls EXCEPT ![c] = [skill |-> s, loaded |-> 0]]
  /\ UNCHANGED <<agentKind, released, onDisk, acknowledged, bundle, readSlugs,
                 conversation, knows, readHere>>

\* the agent's tool reads the file
LoadSkill(c) ==
  /\ skillCalls[c] # NoCall /\ skillCalls[c].loaded = 0
  /\ skillCalls' = [skillCalls EXCEPT ![c].loaded = onDisk[skillCalls[c].skill]]
  /\ UNCHANGED <<agentKind, released, onDisk, acknowledged, bundle, readSlugs,
                 conversation, knows, readHere>>

\* fault: the reads of a Claude conversation are not recorded
RecordCodexOnly(s) == bundle.refresh /\ agentKind = "codex-exec"

\* a bundle that asks for reads records them; but nothing records those of a
\* Codex app-server, whose lines handleCodexAppServerLine takes
Records(s) == bundle.refresh /\ agentKind # "codex-app-server"

\* recordCodexManagedSkillReads, claudeRecordManagedSkillReads: the bundle is
\* acknowledged, as it was taken, once every pending skill has been read
RecordRead(s) ==
  IF Records(s)
  THEN /\ readSlugs' = readSlugs \cup {s}
       /\ IF bundle.asks \subseteq readSlugs' /\ Ready(bundle)
          THEN /\ acknowledged' = bundle.skills
               /\ bundle' = [bundle EXCEPT !.refresh = FALSE, !.asks = {}]
          ELSE UNCHANGED <<acknowledged, bundle>>
  ELSE UNCHANGED <<readSlugs, acknowledged, bundle>>

\* the call ends.  codex exec counts every command that names the file; Claude
\* only the calls whose result is not an error
EndRead(c, failed) ==
  LET call == skillCalls[c]
      counts == ~failed \/ agentKind # "claude"
  IN /\ call.loaded > 0
     /\ skillCalls' = [skillCalls EXCEPT ![c] = NoCall]
     /\ IF counts
        THEN /\ RecordRead(call.skill)
             /\ knows' = [knows EXCEPT ![call.skill] = @ \cup {call.loaded}]
             /\ readHere' = readHere \cup {call.skill}
        ELSE UNCHANGED <<acknowledged, bundle, readSlugs, knows, readHere>>
     /\ UNCHANGED <<agentKind, released, onDisk, conversation>>

EndSkillTurn ==
  /\ conversation = "turn"
  /\ conversation' = "open"
  /\ NoCalls
  /\ UNCHANGED <<agentKind, released, onDisk, acknowledged, bundle, readSlugs,
                 knows, readHere>>

\* the process ends or the conversation is closed; the home stays
CloseConversation ==
  /\ conversation # "closed"
  /\ conversation' = "closed"
  /\ NoCalls
  /\ UNCHANGED <<agentKind, released, onDisk, acknowledged, bundle, readSlugs,
                 knows, readHere>>

SkillNext ==
  \/ \E s \in Skills : Release(s)
  \/ \E some \in SUBSET Skills : InstallSkills(some)
  \/ \E resumed \in BOOLEAN : OpenConversation(resumed)
  \/ SubmitTurn
  \/ \E c \in ReadCalls : \/ \E s \in Skills : BeginRead(c, s)
                          \/ LoadSkill(c)
                          \/ \E failed \in BOOLEAN : EndRead(c, failed)
  \/ EndSkillTurn \/ CloseConversation

SkillSpec == SkillInit /\ [][SkillNext]_skillVars

-----------------------------------------------------------------------------
\* A skill whose version on disk is acknowledged was given to this agent in
\* that version: an installation during a turn, a restart or a read begun
\* before a new version never make the bridge take an unread skill as read.
AcknowledgedWasRead ==
  \A s \in Skills :
    acknowledged[s] > 0 /\ acknowledged[s] = onDisk[s] => onDisk[s] \in knows[s]

\* Once the agent has read all that a turn asked for, no later turn of the
\* conversation asks for it again: in Claude and codex exec conversations, those
\* whose reads are recorded (agent_bridge_claude.js:2738).
ReadSkillsAreNotAsked ==
  agentKind # "codex-app-server" /\ conversation # "closed" /\ bundle.refresh
    => ~(bundle.asks \subseteq readHere)

\* What the bridge takes for read was read, and what was read is not asked again.
ReadsAreKnown == AcknowledgedWasRead /\ ReadSkillsAreNotAsked
=============================================================================
