----------------------------- MODULE AgentStorage -----------------------------
(***************************************************************************)
(* What Codex conversations leave on disk, and who removes it: the periodic  *)
(* sweep of what nothing refers to, which takes its references first and     *)
(* deletes afterwards, and the exact cleanup of one conversation.           *)
(*                                                                         *)
(* The conversation records are written and marked deleted by the user       *)
(* interface; a record may name a session whose file lies in another home.   *)
(* An agent that outlives its engine is known by its PID file only; one      *)
(* whose file was lost is followed until its conversation starts again.      *)
(***************************************************************************)
EXTENDS Naturals, FiniteSets

CONSTANTS
  Conversations,
  LegacyHomes,     \* homes that bear the name of no conversation
  NoConversation

ASSUME HomeNames == LegacyHomes \cap Conversations = {} /\ NoConversation \notin Conversations

StoredHomes == Conversations \cup LegacyHomes

VARIABLES
  record,       \* "none", "active", "deleted" or "expired": deleted a day ago
  sessionHome,  \* the home that holds the session of each conversation
  storedHome,   \* "none", "new", "old": made before the grace period
  agentOf,      \* "down", "owned" by the registry, "orphan"
  pidKnown,     \* the conversations with a PID file
  startOf,      \* the starts in progress
  sweeping,     \* the periodic sweep
  cleaning,     \* the exact cleanups: "clean" once one that named the session has
                \* succeeded, "unnamed" once one that did not has
  sweepDue,     \* the marker lets a sweep run
  lost          \* history: the agents whose PID file the sweep took

storageVars == <<record, sessionHome, storedHome, agentOf, pidKnown, startOf,
                 sweeping, cleaning, sweepDue, lost>>

NoSweep == [at |-> "idle", kept |-> {}, todo |-> {}, stale |-> NoConversation,
            tombs |-> {}, since |-> {}]

StorageInit ==
  /\ record = [c \in Conversations |-> "none"]
  /\ sessionHome \in [Conversations -> StoredHomes]
  /\ \A c \in Conversations : sessionHome[c] \in {c} \cup LegacyHomes
  /\ storedHome = [h \in StoredHomes |-> IF h \in LegacyHomes THEN "old" ELSE "none"]
  /\ agentOf = [c \in Conversations |-> "down"]
  /\ pidKnown = {} /\ startOf = {}
  /\ sweeping = NoSweep
  /\ cleaning = [c \in Conversations |-> "idle"]
  /\ sweepDue = TRUE
  /\ lost = {}

Meanwhile(c) == [sweeping EXCEPT !.since = IF sweeping.at = "idle" THEN {} ELSE @ \cup {c}]

\* the records of the user interface
RecordConversation(c) ==
  /\ record[c] = "none"
  /\ record' = [record EXCEPT ![c] = "active"]
  /\ sweeping' = Meanwhile(c)
  /\ UNCHANGED <<sessionHome, storedHome, agentOf, pidKnown, startOf, cleaning, sweepDue, lost>>

MarkDeleted(c) ==
  /\ record[c] = "active"
  /\ record' = [record EXCEPT ![c] = "deleted"]
  /\ UNCHANGED <<sessionHome, storedHome, agentOf, pidKnown, startOf, sweeping, cleaning, sweepDue, lost>>

Cleaned == {"clean", "unnamed"}

\* codexStart: the home first, which an existing one does not renew
StartHome(c) ==
  /\ c \notin startOf /\ agentOf[c] # "owned"
  /\ startOf' = startOf \cup {c}
  /\ storedHome' = [storedHome EXCEPT ![c] = IF @ = "none" THEN "new" ELSE @]
  /\ sweeping' = Meanwhile(c)
  /\ cleaning' = [cleaning EXCEPT ![c] = IF @ = "homes" THEN "raced" ELSE "idle"]
  /\ UNCHANGED <<record, sessionHome, agentOf, pidKnown, sweepDue, lost>>

\* then the process, its PID file and its registry entry, or a failure
SpawnInHome(c) ==
  /\ c \in startOf
  /\ startOf' = startOf \ {c}
  /\ \/ /\ agentOf' = [agentOf EXCEPT ![c] = "owned"]
        /\ pidKnown' = pidKnown \cup {c}
     \/ UNCHANGED <<agentOf, pidKnown>>
  /\ lost' = lost \ {d \in {c} : agentOf'[d] = "owned"}
  /\ UNCHANGED <<record, sessionHome, storedHome, sweeping, cleaning, sweepDue>>

\* stopEntry, or an agent that ends by itself and leaves its file
AgentEnds(c) ==
  /\ agentOf[c] # "down"
  /\ agentOf' = [agentOf EXCEPT ![c] = "down"]
  /\ pidKnown' \in IF agentOf[c] = "owned" THEN {pidKnown, pidKnown \ {c}} ELSE {pidKnown}
  /\ lost' = lost \ {c}
  /\ UNCHANGED <<record, sessionHome, storedHome, startOf, sweeping, cleaning, sweepDue>>

\* the engine stops; its guards have not stopped their agents yet
StopStorageEngine ==
  /\ \E c \in Conversations : agentOf[c] = "owned"
  /\ agentOf' = [c \in Conversations |-> IF agentOf[c] = "owned" THEN "orphan" ELSE agentOf[c]]
  /\ startOf' = {}
  /\ sweeping' = NoSweep
  /\ cleaning' = [c \in Conversations |-> IF cleaning[c] \in Cleaned THEN cleaning[c] ELSE "idle"]
  /\ UNCHANGED <<record, sessionHome, storedHome, pidKnown, sweepDue, lost>>

\* bound: a day passes, the grace period, and never during a sweep
DayPasses ==
  /\ sweeping.at = "idle"
  /\ record' = [c \in Conversations |-> IF record[c] = "deleted" THEN "expired" ELSE record[c]]
  /\ storedHome' = [h \in StoredHomes |-> IF storedHome[h] = "new" THEN "old" ELSE storedHome[h]]
  /\ sweepDue' = TRUE
  /\ UNCHANGED <<sessionHome, agentOf, pidKnown, startOf, sweeping, cleaning, lost>>

-----------------------------------------------------------------------------
ActiveRecords == {c \in Conversations : record[c] = "active"}
Owned == {c \in Conversations : agentOf[c] = "owned"}

\* fault: the sessions of the records are forgotten
OwnHomesOnly == ActiveRecords \cup Owned

\* activeAgentStorageReferences: the records, their sessions, the registry
Referenced == ActiveRecords \cup {sessionHome[c] : c \in ActiveRecords} \cup Owned

BeginStorageSweep ==
  /\ sweeping.at = "idle" /\ sweepDue
  /\ sweeping' = [at |-> "pids", kept |-> Referenced, todo |-> pidKnown,
                  stale |-> NoConversation, since |-> startOf,
                  tombs |-> {c \in Conversations : record[c] = "expired"}]
  /\ UNCHANGED <<record, sessionHome, storedHome, agentOf, pidKnown, startOf, cleaning, sweepDue, lost>>

\* a PID file that tells a live process protects its home
ReadPidFile(c) ==
  /\ sweeping.at = "pids" /\ sweeping.stale = NoConversation /\ c \in sweeping.todo
  /\ sweeping' = IF c \in pidKnown /\ agentOf[c] # "down"
                 THEN [sweeping EXCEPT !.todo = @ \ {c}, !.kept = @ \cup {c}]
                 ELSE [sweeping EXCEPT !.todo = @ \ {c}, !.stale = c]
  /\ UNCHANGED <<record, sessionHome, storedHome, agentOf, pidKnown, startOf, cleaning, sweepDue, lost>>

\* another one is deleted, even when a start has written it anew meanwhile
DeletePidFile ==
  /\ sweeping.stale # NoConversation
  /\ pidKnown' = pidKnown \ {sweeping.stale}
  /\ sweeping' = [sweeping EXCEPT !.stale = NoConversation]
  /\ lost' = lost \cup {c \in {sweeping.stale} : agentOf[c] # "down"}
  /\ UNCHANGED <<record, sessionHome, storedHome, agentOf, startOf, cleaning, sweepDue>>

ListHomes ==
  /\ sweeping.at = "pids" /\ sweeping.todo = {} /\ sweeping.stale = NoConversation
  /\ sweeping' = [sweeping EXCEPT !.at = "homes",
                    !.todo = {h \in StoredHomes : storedHome[h] # "none"}]
  /\ UNCHANGED <<record, sessionHome, storedHome, agentOf, pidKnown, startOf, cleaning, sweepDue, lost>>

\* cleanupOrphanedAgentStorage on one home; its deletion may fail
SweepHome(h) ==
  /\ sweeping.at = "homes" /\ h \in sweeping.todo
  /\ sweeping' = [sweeping EXCEPT !.todo = @ \ {h}]
  /\ \/ /\ h \notin sweeping.kept /\ storedHome[h] = "old"
        /\ storedHome' = [storedHome EXCEPT ![h] = "none"]
     \/ UNCHANGED storedHome
  /\ UNCHANGED <<record, sessionHome, agentOf, pidKnown, startOf, cleaning, sweepDue, lost>>

\* the tombstones, then the marker, whose write may fail
EndStorageSweep ==
  /\ sweeping.at = "homes" /\ sweeping.todo = {}
  /\ record' = [c \in Conversations |-> IF c \in sweeping.tombs THEN "none" ELSE record[c]]
  /\ sweeping' = NoSweep
  /\ sweepDue' \in {FALSE, sweepDue}
  /\ UNCHANGED <<sessionHome, storedHome, agentOf, pidKnown, startOf, cleaning, lost>>

\* fault: only the registry is asked for the process
RegisteredOnly(c) == agentOf[c] = "owned"

\* cleanupConversationArtifacts stops the agent its entry or its PID file tells
CanBeStopped(c) == agentOf[c] = "owned" \/ c \in pidKnown

CleanAgent(c) ==
  /\ cleaning[c] \in Cleaned \cup {"idle"}
  /\ cleaning' = [cleaning EXCEPT ![c] = IF c \in startOf THEN "raced" ELSE "homes"]
  /\ agentOf' = [agentOf EXCEPT ![c] = IF CanBeStopped(c) THEN "down" ELSE @]
  /\ pidKnown' = pidKnown \ {c}
  /\ lost' = lost \ {d \in {c} : agentOf'[d] = "down"}
  /\ UNCHANGED <<record, sessionHome, storedHome, startOf, sweeping, sweepDue>>

\* its home, and the one that holds its session when the call names the session;
\* a failure is reported
CleanHomes(c) ==
  /\ cleaning[c] \in {"homes", "raced"}
  /\ \/ \E named \in BOOLEAN :
          /\ storedHome' = [h \in StoredHomes |->
                              IF h = c \/ (named /\ h = sessionHome[c]) THEN "none" ELSE storedHome[h]]
          /\ cleaning' = [cleaning EXCEPT ![c] = IF @ = "raced" THEN "idle"
                                                ELSE IF named THEN "clean" ELSE "unnamed"]
     \/ /\ UNCHANGED storedHome
        /\ cleaning' = [cleaning EXCEPT ![c] = "idle"]
  /\ UNCHANGED <<record, sessionHome, agentOf, pidKnown, startOf, sweeping, sweepDue, lost>>

StorageNext ==
  \/ \E c \in Conversations :
       \/ RecordConversation(c) \/ MarkDeleted(c)
       \/ StartHome(c) \/ SpawnInHome(c) \/ AgentEnds(c)
       \/ ReadPidFile(c) \/ CleanAgent(c) \/ CleanHomes(c)
  \/ \E h \in StoredHomes : SweepHome(h)
  \/ BeginStorageSweep \/ DeletePidFile \/ ListHomes \/ EndStorageSweep
  \/ StopStorageEngine \/ DayPasses

StorageSpec == StorageInit /\ [][StorageNext]_storageVars

-----------------------------------------------------------------------------
\* home h serves conversation c, as far as a record, the registry or a PID file tells
Serves(h, c) ==
  \/ record[c] = "active" /\ h \in {c, sessionHome[c]}
  \/ h = c /\ (agentOf[c] = "owned" \/ (agentOf[c] = "orphan" /\ c \in pidKnown))

\* The periodic sweep removes no home that serves a conversation, an orphan's or a
\* legacy one that holds its session included.  Only a conversation recorded or
\* started after the sweep took its references has no such promise.
HomeInUseIsKept ==
  [][\A h \in StoredHomes, c \in Conversations :
       /\ h \in sweeping.todo /\ sweeping'.todo = sweeping.todo \ {h}
       /\ storedHome[h] = "old" /\ storedHome'[h] = "none"
       /\ Serves(h, c)
       => c \in sweeping.since]_storageVars

\* A cleanup of one conversation that succeeds, and that no start crosses, leaves
\* neither home nor PID file nor agent, after a stop of the engine too, unless a
\* sweep took the PID file a start was writing; and where the call named the session,
\* no home that holds it either.
CleanedLeavesNothing ==
  \A c \in Conversations : cleaning[c] \in Cleaned =>
    /\ storedHome[c] = "none"
    /\ cleaning[c] = "clean" => storedHome[sessionHome[c]] = "none"
    /\ c \notin pidKnown
    /\ agentOf[c] = "down" \/ c \in lost

\* What serves a conversation stays, and what was cleaned is gone.
StorageIsSafe == []CleanedLeavesNothing /\ HomeInUseIsKept
=============================================================================
