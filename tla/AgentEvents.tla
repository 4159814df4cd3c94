----------------------------- MODULE AgentEvents ----------------------------
(***************************************************************************)
(* The event buffer of one agent process.  Threads push events into it     *)
(* (the stdout and stderr readers, the prompt and interrupt calls, the     *)
(* stop), and a client long-polls it with a cursor.  The list itself is    *)
(* synchronized, the two counters beside it are not: each ++ reads, then   *)
(* stores, and events() makes one unsynchronized read after another.       *)
(***************************************************************************)
EXTENDS Naturals, Sequences

CONSTANTS
  Producers,   \* the threads that push events
  Budget,      \* bound: the events each of them pushes
  Buffer,      \* MAX_EVENT_BUFFER
  Limit        \* the limit of a poll

ASSUME BufferAssumption ==
  /\ Budget \in Nat
  /\ Buffer \in Nat \ {0}
  /\ Limit \in Nat \ {0}

VARIABLES
  nextIndex,   \* entry.nextIndex
  firstIndex,  \* entry.firstIndex
  events,      \* entry.events
  ppc,         \* where each producer is
  register,    \* the counter value a ++ of it has read and not yet stored
  pushed,      \* how many events it has pushed
  rpc,         \* where the poll is
  start,       \* startCursor
  truncated,   \* truncated
  next,        \* i, counted from 0 as in the code
  available,   \* available
  batch,       \* the events of the answer under construction
  cursor,      \* the cursor the client polls with
  got          \* every event the client was answered with

pushVars == <<nextIndex, firstIndex, events, ppc, register, pushed>>
pollVars == <<rpc, start, truncated, next, available, batch, cursor, got>>
eventsVars == <<pushVars, pollVars>>

Event == [by : Producers, nr : 1..Budget, index : Nat]

EventsInit ==
  /\ nextIndex = 0 /\ firstIndex = 0
  /\ events = <<>>
  /\ ppc = [p \in Producers |-> "idle"]
  /\ register = [p \in Producers |-> 0]
  /\ pushed = [p \in Producers |-> 0]
  /\ rpc = "idle"
  /\ start = 0 /\ truncated = FALSE /\ next = 0 /\ available = 0
  /\ batch = <<>>
  /\ cursor = 0
  /\ got = <<>>

Producing(p, from, to) == ppc[p] = from /\ ppc' = [ppc EXCEPT ![p] = to]
Load(p, value) == register' = [register EXCEPT ![p] = value]

-----------------------------------------------------------------------------
(* pushEvent *)

ReadNextIndex(p) ==
  /\ pushed[p] < Budget
  /\ Producing(p, "idle", "numbered")
  /\ Load(p, nextIndex)
  /\ UNCHANGED <<nextIndex, firstIndex, events, pushed, pollVars>>

StoreNextIndex(p) ==
  /\ Producing(p, "numbered", "built")
  /\ nextIndex' = register[p] + 1
  /\ UNCHANGED <<firstIndex, events, register, pushed, pollVars>>

AddEvent(p) ==
  /\ Producing(p, "built", "added")
  /\ events' = Append(events, [by |-> p, nr |-> pushed[p] + 1, index |-> register[p]])
  /\ pushed' = [pushed EXCEPT ![p] = @ + 1]
  /\ UNCHANGED <<nextIndex, firstIndex, register, pollVars>>

\* the test of the trimming loop
CheckSize(p) ==
  /\ Producing(p, "added", IF Len(events) > Buffer THEN "full" ELSE "idle")
  /\ UNCHANGED <<nextIndex, firstIndex, events, register, pushed, pollVars>>

RemoveOldest(p) ==
  /\ Producing(p, "full", "removed")
  /\ events' = Tail(events)
  /\ UNCHANGED <<nextIndex, firstIndex, register, pushed, pollVars>>

ReadFirstIndex(p) ==
  /\ Producing(p, "removed", "shifting")
  /\ Load(p, firstIndex)
  /\ UNCHANGED <<nextIndex, firstIndex, events, pushed, pollVars>>

StoreFirstIndex(p) ==
  /\ Producing(p, "shifting", "added")
  /\ firstIndex' = register[p] + 1
  /\ UNCHANGED <<nextIndex, events, register, pushed, pollVars>>

-----------------------------------------------------------------------------
(* events() *)

\* the long poll ends: an event came, the process died or the deadline passed.
\* The first read of firstIndex clamps the cursor
Clamp ==
  /\ rpc = "idle"
  /\ rpc' = "clamped"
  /\ truncated' = (cursor < firstIndex)
  /\ start' = IF cursor < firstIndex THEN firstIndex ELSE cursor
  /\ UNCHANGED <<pushVars, next, available, batch, cursor, got>>

\* the second read of firstIndex gives the offset in the list
ComputeOffset ==
  /\ rpc = "clamped"
  /\ rpc' = "placed"
  /\ next' = IF start < firstIndex THEN 0 ELSE start - firstIndex
  /\ UNCHANGED <<pushVars, start, truncated, available, batch, cursor, got>>

ReadSize ==
  /\ rpc = "placed"
  /\ rpc' = "reading"
  /\ available' = Len(events)
  /\ UNCHANGED <<pushVars, start, truncated, next, batch, cursor, got>>

More == next < available /\ Len(batch) < Limit

GetEvent ==
  /\ rpc = "reading" /\ More /\ next < Len(events)
  /\ batch' = Append(batch, events[next + 1])
  /\ next' = next + 1
  /\ UNCHANGED <<pushVars, rpc, start, truncated, available, cursor, got>>

\* the list has shrunk below available: get throws, and the client polls again
GetFails ==
  /\ rpc = "reading" /\ More /\ next >= Len(events)
  /\ rpc' = "idle"
  /\ batch' = <<>>
  /\ UNCHANGED <<pushVars, start, truncated, next, available, cursor, got>>

\* fault: the cursor is the last event given, not the one after it
NextCursorInclusive == IF batch = <<>> THEN start ELSE batch[Len(batch)].index

\* fault: an empty answer moves the cursor to the end of the numbering
NextCursorAhead == IF batch = <<>> THEN nextIndex ELSE batch[Len(batch)].index + 1

NextCursor == IF batch = <<>> THEN start ELSE batch[Len(batch)].index + 1

AnswerPoll ==
  /\ rpc = "reading" /\ ~More
  /\ rpc' = "idle"
  /\ cursor' = NextCursor
  /\ got' = got \o batch
  /\ batch' = <<>>
  /\ UNCHANGED <<pushVars, start, truncated, next, available>>

-----------------------------------------------------------------------------
Push(p) ==
  \/ ReadNextIndex(p) \/ StoreNextIndex(p) \/ AddEvent(p) \/ CheckSize(p)
  \/ RemoveOldest(p) \/ ReadFirstIndex(p) \/ StoreFirstIndex(p)

Poll == Clamp \/ ComputeOffset \/ ReadSize \/ GetEvent \/ GetFails \/ AnswerPoll

EventsNext == (\E p \in Producers : Push(p)) \/ Poll

EventsSpec == EventsInit /\ [][EventsNext]_eventsVars

\* the client keeps polling; a push, once begun, is carried through
EventsFairSpec == EventsSpec /\ WF_eventsVars(Poll) /\ \A p \in Producers : WF_eventsVars(Push(p))

-----------------------------------------------------------------------------
(* Properties *)

EventsTypeOK ==
  /\ nextIndex \in Nat /\ firstIndex \in Nat
  /\ events \in Seq(Event)
  /\ ppc \in [Producers -> {"idle", "numbered", "built", "added", "full",
                            "removed", "shifting"}]
  /\ register \in [Producers -> Nat]
  /\ pushed \in [Producers -> 0..Budget]
  /\ rpc \in {"idle", "clamped", "placed", "reading"}
  /\ start \in Nat /\ truncated \in BOOLEAN /\ next \in Nat /\ available \in Nat
  /\ batch \in Seq(Event) /\ cursor \in Nat /\ got \in Seq(Event)

Increasing(s) == \A k, l \in DOMAIN s : k < l => s[k].index < s[l].index

\* "index: curseur strictement croissant par process"
\* (docs/bridge-contract.md:207): the buffered events are numbered in order.
IndexStrictlyIncreasing == Increasing(events)

\* Whatever is trimmed while the client polls, no event reaches it twice and
\* none reaches it out of order: got and the answer being built never go back.
NeverGoesBack == Increasing(got \o batch)

\* The client gets to the end of the log: once the producers stop pushing, the
\* newest event is received, even after polls that failed or lost a race.
NewestIsReceived ==
  \A p \in Producers :
    (pushed[p] = Budget)
      ~> \E k \in DOMAIN got : got[k].by = p /\ got[k].nr = Budget

\* With one producer and a buffer that is never full, the events and the polls
\* implement the log the contract describes.
Log == INSTANCE EventLog WITH log <- events, received <- got
ImplementsLog == Log!Spec

\* With one producer the buffer is numbered in order, and no answer goes back,
\* whatever is trimmed between the reads it is made of (pushEvent, events).
BufferInv == EventsTypeOK /\ IndexStrictlyIncreasing /\ NeverGoesBack
=============================================================================
