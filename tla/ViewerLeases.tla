----------------------------- MODULE ViewerLeases -----------------------------
(***************************************************************************)
(* The debug port of the viewer that each conversation leases: one file per  *)
(* conversation, read by all, written with no lock.  A start asks for the     *)
(* port of its conversation: it first reads the ports of the others, then      *)
(* keeps its own or takes the first free one from a base its name gives.      *)
(* The storage sweep drops the old leases of unknown conversations.           *)
(***************************************************************************)
EXTENDS Naturals, FiniteSets

CONSTANTS
  Leasers,    \* conversations
  PortCount   \* bound: the ports 0 .. PortCount - 1 stand for 40000 .. 49999

ASSUME PortAssumption == PortCount \in Nat \ {0}

ViewerPorts == 0 .. (PortCount - 1)
NoLease == [port |-> PortCount, old |-> FALSE]

VARIABLES
  basePort,    \* the hash of each conversation's name
  leaseOf,     \* the lease files
  asking,      \* the ports each pending call has read as taken, and if another
               \* call has written a lease since
  known,       \* the conversations of the records, the registry, the PID files
  leaseSweep   \* the conversations a running sweep takes as known

leaseVars == <<basePort, leaseOf, asking, known, leaseSweep>>

NotAsking == [on |-> FALSE, taken |-> {}, raced |-> FALSE]
NotSweeping == [on |-> FALSE, kept |-> {}]

LeaseInit ==
  /\ basePort \in [Leasers -> ViewerPorts]
  /\ leaseOf = [c \in Leasers |-> NoLease]
  /\ asking = [c \in Leasers |-> NotAsking]
  /\ known = {}
  /\ leaseSweep = NotSweeping

\* leasedViewerDebugPorts: the ports of the others
LeasedByOthers(c) == {leaseOf[d].port : d \in Leasers \ {c}} \cap ViewerPorts

AskPort(c) ==
  /\ ~asking[c].on
  /\ asking' = [asking EXCEPT ![c] = [on |-> TRUE, taken |-> LeasedByOthers(c), raced |-> FALSE]]
  /\ UNCHANGED <<basePort, leaseOf, known, leaseSweep>>

\* fault: the lease of the conversation is taken as it is
KeepAnyLease(c) == leaseOf[c].port \in ViewerPorts

\* the lease of the conversation, unless another holds its port too
OwnLeaseHolds(c) == leaseOf[c].port \in ViewerPorts \ asking[c].taken

\* the first port from the base that is neither leased nor in use
FirstFree(c, busy) ==
  LET Candidate(k) == (basePort[c] + k) % PortCount
      Free(k) == Candidate(k) \notin asking[c].taken \cup busy
      free == {k \in ViewerPorts : Free(k)}
  IN IF free = {} THEN PortCount
     ELSE Candidate(CHOOSE k \in free : \A n \in free : k <= n)

Written(c) == [d \in Leasers |->
  IF d = c THEN NotAsking
  ELSE [asking[d] EXCEPT !.raced = asking[d].on]]

\* ensureManagedViewerDebugPort answers; with no port left it throws
GrantPort(c) ==
  /\ asking[c].on
  /\ \/ /\ OwnLeaseHolds(c)
        /\ asking' = [asking EXCEPT ![c] = NotAsking]
        /\ UNCHANGED leaseOf
     \/ /\ ~OwnLeaseHolds(c)
        /\ \E busy \in SUBSET ViewerPorts :
             IF FirstFree(c, busy) = PortCount
             THEN asking' = [asking EXCEPT ![c] = NotAsking] /\ UNCHANGED leaseOf
             ELSE /\ leaseOf' = [leaseOf EXCEPT ![c] = [port |-> FirstFree(c, busy), old |-> FALSE]]
                  /\ asking' = Written(c)
  /\ UNCHANGED <<basePort, known, leaseSweep>>

\* a conversation is opened, or ends and is forgotten
BecomeKnown(c) ==
  /\ c \notin known
  /\ known' = known \cup {c}
  /\ UNCHANGED <<basePort, leaseOf, asking, leaseSweep>>

BecomeUnknown(c) ==
  /\ c \in known
  /\ known' = known \ {c}
  /\ UNCHANGED <<basePort, leaseOf, asking, leaseSweep>>

\* cleanupConversationArtifacts drops the lease of its conversation
CleanLease(c) ==
  /\ leaseOf[c] # NoLease
  /\ leaseOf' = [leaseOf EXCEPT ![c] = NoLease]
  /\ UNCHANGED <<basePort, asking, known, leaseSweep>>

\* bound: the grace period passes for every lease
LeasesAge ==
  /\ ~leaseSweep.on
  /\ leaseOf' = [c \in Leasers |-> IF leaseOf[c] = NoLease THEN NoLease
                                   ELSE [leaseOf[c] EXCEPT !.old = TRUE]]
  /\ UNCHANGED <<basePort, asking, known, leaseSweep>>

\* the sweep: whom it takes as known, then one lease after another
BeginLeaseSweep ==
  /\ ~leaseSweep.on
  /\ leaseSweep' = [on |-> TRUE, kept |-> known]
  /\ UNCHANGED <<basePort, leaseOf, asking, known>>

SweepLease(c) ==
  /\ leaseSweep.on /\ c \notin leaseSweep.kept /\ leaseOf[c].old
  /\ leaseOf' = [leaseOf EXCEPT ![c] = NoLease]
  /\ UNCHANGED <<basePort, asking, known, leaseSweep>>

EndLeaseSweep ==
  /\ leaseSweep.on
  /\ leaseSweep' = NotSweeping
  /\ UNCHANGED <<basePort, leaseOf, asking, known>>

LeaseNext ==
  \/ \E c \in Leasers :
       \/ AskPort(c) \/ GrantPort(c) \/ BecomeKnown(c) \/ BecomeUnknown(c)
       \/ CleanLease(c) \/ SweepLease(c)
  \/ LeasesAge \/ BeginLeaseSweep \/ EndLeaseSweep

LeaseSpec == LeaseInit /\ [][LeaseNext]_leaseVars

-----------------------------------------------------------------------------
\* Two calls that overlap may lease one port twice; a call that no other crosses
\* always answers a port that no other conversation leases, so that the next
\* quiet call of either one undoes the sharing.
QuietCallIsAlone ==
  [][\A c \in Leasers :
       asking[c].on /\ ~asking'[c].on /\ ~asking[c].raced /\ leaseOf'[c] # NoLease
       => \/ \A d \in Leasers \ {c} : leaseOf'[d].port # leaseOf'[c].port
          \/ leaseOf' = leaseOf /\ ~OwnLeaseHolds(c)]_leaseVars
=============================================================================
