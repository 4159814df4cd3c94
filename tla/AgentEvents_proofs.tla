------------------------- MODULE AgentEvents_proofs -------------------------
(* Theorems about AgentEvents when one thread pushes the events, for every   *)
(* budget, buffer and limit.                                                 *)
EXTENDS AgentEvents, Integers, TLAPS

\* an event about to be added is within the budget
WithinBudget ==
  \A p \in Producers : ppc[p] \in {"numbered", "built"} => pushed[p] < Budget

\* the index the next event to leave the buffer has, or would have
Base(p) == nextIndex - Len(events) - (IF ppc[p] = "built" THEN 1 ELSE 0)

\* With one producer the buffer is a window of the numbering: the events are
\* numbered from Base on, and firstIndex is Base but between a removal and its count.
WindowInv(p) ==
  /\ Base(p) = firstIndex + (IF ppc[p] \in {"removed", "shifting"} THEN 1 ELSE 0)
  /\ ppc[p] = "numbered" => register[p] = nextIndex
  /\ ppc[p] = "built" => register[p] + 1 = nextIndex
  /\ ppc[p] = "shifting" => register[p] = firstIndex
  /\ ppc[p] = "full" => Len(events) > Buffer
  /\ \A k \in 1..Len(events) : events[k].index = Base(p) + k - 1

\* What the client has is below its cursor; what the poll has read is not, and the
\* next element it will read comes after that.
PollInv(p) ==
  /\ rpc # "idle" => cursor <= start
  /\ rpc # "reading" => batch = <<>>
  /\ rpc \in {"placed", "reading"} => start <= Base(p) + next
  /\ \A k \in 1..Len(got) : got[k].index < cursor
  /\ \A k \in 1..Len(batch) : cursor <= batch[k].index /\ batch[k].index < Base(p) + next
  /\ Increasing(got)
  /\ Increasing(batch)

OneInv(p) == WithinBudget /\ WindowInv(p) /\ PollInv(p)

-----------------------------------------------------------------------------
\* What adding an event to the end of a list does.
LEMMA AppendFacts ==
  ASSUME NEW S, NEW s \in Seq(S), NEW e \in S
  PROVE  /\ Append(s, e) \in Seq(S)
         /\ Len(Append(s, e)) = Len(s) + 1
         /\ \A k \in 1..Len(s) : Append(s, e)[k] = s[k]
         /\ Append(s, e)[Len(s) + 1] = e
OBVIOUS

\* What removing the first event of a list does.
LEMMA TailFacts ==
  ASSUME NEW S, NEW s \in Seq(S), Len(s) > 0
  PROVE  /\ Tail(s) \in Seq(S)
         /\ Len(Tail(s)) = Len(s) - 1
         /\ \A k \in 1..Len(s) - 1 : Tail(s)[k] = s[k + 1]
OBVIOUS

\* What adding an answer to those before it does.
LEMMA ConcatFacts ==
  ASSUME NEW S, NEW s \in Seq(S), NEW t \in Seq(S)
  PROVE  /\ s \o t \in Seq(S)
         /\ Len(s \o t) = Len(s) + Len(t)
         /\ \A k \in 1..Len(s) : (s \o t)[k] = s[k]
         /\ \A k \in Len(s) + 1..Len(s) + Len(t) : (s \o t)[k] = t[k - Len(s)]
OBVIOUS

\* A list that is not empty has a last element.
LEMMA LastFacts ==
  ASSUME NEW S, NEW s \in Seq(S), s # <<>>
  PROVE  Len(s) \in 1..Len(s)
OBVIOUS

\* Lists with the same elements are the same.
LEMMA SameLists ==
  ASSUME NEW S, NEW s \in Seq(S), NEW t \in Seq(S), Len(s) = Len(t),
         \A k \in 1..Len(s) : s[k] = t[k]
  PROVE  s = t
OBVIOUS

\* The elements of a list of events have an index.
LEMMA EventFacts ==
  ASSUME NEW s \in Seq(Event)
  PROVE  /\ Len(s) \in Nat /\ DOMAIN s = 1..Len(s)
         /\ \A k \in 1..Len(s) : s[k] \in Event /\ s[k].index \in Nat
<1>1. Len(s) \in Nat /\ DOMAIN s = 1..Len(s) /\ \A k \in 1..Len(s) : s[k] \in Event
  OBVIOUS
<1>2. \A e \in Event : e.index \in Nat
  BY DEF Event
<1>3. QED
  BY <1>1, <1>2

\* Two lists that increase, the second from where the first ends, increase together.
LEMMA IncreasingConcat ==
  ASSUME NEW s \in Seq(Event), NEW t \in Seq(Event), NEW c \in Nat,
         Increasing(s), Increasing(t),
         \A k \in 1..Len(s) : s[k].index < c,
         \A k \in 1..Len(t) : c <= t[k].index
  PROVE  Increasing(s \o t)
<1>1. /\ Len(s \o t) = Len(s) + Len(t) /\ DOMAIN (s \o t) = 1..Len(s \o t)
      /\ \A j \in 1..Len(s) : (s \o t)[j] = s[j]
      /\ \A j \in Len(s) + 1..Len(s) + Len(t) : (s \o t)[j] = t[j - Len(s)]
  BY ConcatFacts
<1>2. Len(s) \in Nat /\ \A j \in 1..Len(s) : s[j].index \in Nat
  BY EventFacts
<1>3. Len(t) \in Nat /\ \A j \in 1..Len(t) : t[j].index \in Nat
  BY EventFacts
<1>4. \A k, l \in 1..Len(s) : k < l => s[k].index < s[l].index
  BY EventFacts DEF Increasing
<1>5. \A k, l \in 1..Len(t) : k < l => t[k].index < t[l].index
  BY EventFacts DEF Increasing
<1> SUFFICES ASSUME NEW k \in 1..Len(s) + Len(t), NEW l \in 1..Len(s) + Len(t), k < l
             PROVE  (s \o t)[k].index < (s \o t)[l].index
  BY <1>1 DEF Increasing
<1>6. CASE l <= Len(s)
  BY <1>1, <1>2, <1>3, <1>4, <1>6
<1>7. CASE k <= Len(s) /\ l > Len(s)
  <2>1. (s \o t)[k].index \in Nat /\ (s \o t)[k].index < c
    BY <1>1, <1>2, <1>3, <1>7
  <2>2. l - Len(s) \in 1..Len(t) /\ (s \o t)[l] = t[l - Len(s)]
    BY <1>1, <1>2, <1>3, <1>7
  <2>3. QED
    BY <1>3, <2>1, <2>2
<1>8. CASE k > Len(s)
  <2>1. /\ k - Len(s) \in 1..Len(t) /\ (s \o t)[k] = t[k - Len(s)]
        /\ l - Len(s) \in 1..Len(t) /\ (s \o t)[l] = t[l - Len(s)]
    BY <1>1, <1>2, <1>3, <1>8
  <2>2. QED
    BY <1>2, <1>3, <1>5, <1>8, <2>1
<1>9. QED
  BY <1>2, <1>3, <1>6, <1>7, <1>8

-----------------------------------------------------------------------------
(* Types, and the budget *)

\* With one producer every variable keeps its type: a poll reads no element the
\* list no longer has, and a removal finds an event to remove.
LEMMA TypeStep ==
  ASSUME NEW p, Producers = {p}, EventsTypeOK, OneInv(p), [EventsNext]_eventsVars
  PROVE  EventsTypeOK'
<1> USE BufferAssumption
<1> USE DEF pushVars, pollVars
<1>1. CASE UNCHANGED eventsVars
  BY <1>1 DEF eventsVars, EventsTypeOK
<1>2. CASE ReadNextIndex(p)
  BY <1>2 DEF EventsTypeOK, ReadNextIndex, Producing, Load
<1>3. CASE StoreNextIndex(p)
  BY <1>3 DEF EventsTypeOK, StoreNextIndex, Producing
<1>4. CASE AddEvent(p)
  <2>1. pushed[p] < Budget /\ pushed[p] \in 0..Budget /\ register[p] \in Nat
    BY <1>4 DEF EventsTypeOK, OneInv, WithinBudget, AddEvent, Producing
  <2>2. [by |-> p, nr |-> pushed[p] + 1, index |-> register[p]] \in Event
    BY <2>1 DEF Event
  <2>3. events' \in Seq(Event)
    BY <1>4, <2>2, AppendFacts DEF EventsTypeOK, AddEvent
  <2>4. ppc' \in [Producers -> {"idle", "numbered", "built", "added", "full",
                                "removed", "shifting"}]
    BY <1>4 DEF EventsTypeOK, AddEvent, Producing
  <2>5. pushed' \in [Producers -> 0..Budget]
    BY <1>4, <2>1 DEF EventsTypeOK, AddEvent
  <2>6. QED
    BY <1>4, <2>3, <2>4, <2>5 DEF EventsTypeOK, AddEvent
<1>5. CASE CheckSize(p)
  BY <1>5 DEF EventsTypeOK, CheckSize, Producing
<1>6. CASE RemoveOldest(p)
  <2>1. Len(events) > 0
    BY <1>6 DEF EventsTypeOK, OneInv, WindowInv, RemoveOldest, Producing
  <2>2. events' \in Seq(Event)
    BY <1>6, <2>1, TailFacts DEF EventsTypeOK, RemoveOldest
  <2>3. QED
    BY <1>6, <2>2 DEF EventsTypeOK, RemoveOldest, Producing
<1>7. CASE ReadFirstIndex(p)
  BY <1>7 DEF EventsTypeOK, ReadFirstIndex, Producing, Load
<1>8. CASE StoreFirstIndex(p)
  BY <1>8 DEF EventsTypeOK, StoreFirstIndex, Producing
<1>9. CASE Clamp
  BY <1>9 DEF EventsTypeOK, Clamp
<1>10. CASE ComputeOffset
  BY <1>10 DEF EventsTypeOK, ComputeOffset
<1>11. CASE ReadSize
  BY <1>11 DEF EventsTypeOK, ReadSize
<1>12. CASE GetEvent
  <2>1. events[next + 1] \in Event
    BY <1>12, EventFacts DEF EventsTypeOK, GetEvent
  <2>2. batch' \in Seq(Event)
    BY <1>12, <2>1, AppendFacts DEF EventsTypeOK, GetEvent
  <2>3. QED
    BY <1>12, <2>2 DEF EventsTypeOK, GetEvent
<1>13. CASE GetFails
  BY <1>13 DEF EventsTypeOK, GetFails
<1>14. CASE AnswerPoll
  <2>1. got' \in Seq(Event)
    BY <1>14, ConcatFacts DEF EventsTypeOK, AnswerPoll
  <2>2. NextCursor \in Nat
    <3>1. CASE batch = <<>>
      BY <3>1 DEF EventsTypeOK, NextCursor
    <3>2. CASE batch # <<>>
      <4>1. batch \in Seq(Event) /\ Len(batch) \in 1..Len(batch)
        BY <3>2, LastFacts DEF EventsTypeOK
      <4>2. batch[Len(batch)].index \in Nat
        BY <4>1, EventFacts
      <4>3. QED
        BY <3>2, <4>2 DEF NextCursor
    <3>3. QED
      BY <3>1, <3>2
  <2>3. QED
    BY <1>14, <2>1, <2>2 DEF EventsTypeOK, AnswerPoll
<1>15. QED
  BY <1>1, <1>2, <1>3, <1>4, <1>5, <1>6, <1>7, <1>8, <1>9, <1>10, <1>11, <1>12, <1>13,
    <1>14 DEF EventsNext, Push, Poll

-----------------------------------------------------------------------------
(* The window of the numbering *)

\* A push moves the window forward, and leaves it where its counters say.
LEMMA PushWindow ==
  ASSUME NEW p, Producers = {p}, EventsTypeOK, WithinBudget, WindowInv(p), Push(p)
  PROVE  WithinBudget' /\ WindowInv(p)' /\ Base(p)' \in Int /\ Base(p)' >= Base(p)
<1> USE BufferAssumption DEF WithinBudget, WindowInv, Base, Producing, Load
<1>0. /\ ppc \in [Producers -> {"idle", "numbered", "built", "added", "full",
                                "removed", "shifting"}]
      /\ register \in [Producers -> Nat] /\ pushed \in [Producers -> 0..Budget]
      /\ nextIndex \in Nat /\ firstIndex \in Nat /\ events \in Seq(Event)
      /\ Len(events) \in Nat
  BY DEF EventsTypeOK
<1>1. CASE ReadNextIndex(p)
  BY <1>0, <1>1 DEF ReadNextIndex
<1>2. CASE StoreNextIndex(p)
  BY <1>0, <1>2 DEF StoreNextIndex
<1>3. CASE AddEvent(p)
  <2> DEFINE e == [by |-> p, nr |-> pushed[p] + 1, index |-> register[p]]
  <2>1. e \in Event
    BY <1>0, <1>3 DEF AddEvent, Event
  <2>2. /\ Len(events') = Len(events) + 1
        /\ \A k \in 1..Len(events) : events'[k] = events[k]
        /\ events'[Len(events) + 1] = e
    BY <1>0, <1>3, <2>1, AppendFacts DEF AddEvent
  <2>3. e.index = register[p]
    OBVIOUS
  <2>4. /\ ppc[p] = "built" /\ ppc'[p] = "added" /\ register' = register
        /\ nextIndex' = nextIndex /\ register[p] \in Nat
    BY <1>0, <1>3 DEF AddEvent
  <2>5. Base(p)' = Base(p) /\ Base(p) \in Int /\ register[p] = Base(p) + Len(events)
    <3>1. Base(p) = nextIndex - Len(events) - 1
      BY <2>4
    <3>2. Base(p)' = nextIndex - Len(events') - 0
      BY <2>4
    <3>3. register[p] + 1 = nextIndex
      BY <2>4
    <3>4. Len(events') = Len(events) + 1
      BY <2>2
    <3> HIDE DEF Base, e
    <3>5. Base(p)' = Base(p) /\ Base(p) \in Int
      BY <1>0, <3>1, <3>2, <3>4
    <3>6. register[p] = Base(p) + Len(events)
      <4>1. register[p] \in Int /\ nextIndex \in Int /\ Len(events) \in Int
        BY <1>0, <2>4
      <4>2. QED
        BY <3>1, <3>3, <4>1
    <3>7. QED
      BY <3>5, <3>6
  <2>6. \A k \in 1..Len(events') : events'[k].index = Base(p) + k - 1
    <3> HIDE DEF e, Base
    <3> TAKE k \in 1..Len(events')
    <3>1. CASE k \in 1..Len(events)
      BY <1>0, <2>2, <3>1
    <3>2. CASE k = Len(events) + 1
      BY <1>0, <2>2, <2>3, <2>5, <3>2
    <3>3. QED
      BY <1>0, <2>2, <3>1, <3>2
  <2>7. QED
    BY <1>0, <1>3, <2>4, <2>5, <2>6 DEF AddEvent
<1>4. CASE CheckSize(p)
  BY <1>0, <1>4 DEF CheckSize
<1>5. CASE RemoveOldest(p)
  <2>1. Len(events) > 0 /\ ppc[p] = "full" /\ ppc'[p] = "removed"
    BY <1>0, <1>5 DEF RemoveOldest
  <2>2. /\ Len(events') = Len(events) - 1
        /\ \A k \in 1..Len(events) - 1 : events'[k] = events[k + 1]
    BY <1>0, <1>5, <2>1, TailFacts DEF RemoveOldest
  <2>3. Base(p)' = Base(p) + 1 /\ Base(p) \in Int
    <3>1. Base(p) = nextIndex - Len(events) - 0
      BY <2>1
    <3>2. Base(p)' = nextIndex - Len(events') - 0
      BY <1>5, <2>1 DEF RemoveOldest
    <3> HIDE DEF Base
    <3>3. QED
      BY <1>0, <2>1, <2>2, <3>1, <3>2
  <2>4. \A k \in 1..Len(events') : events'[k].index = Base(p) + k
    <3> HIDE DEF Base
    <3> TAKE k \in 1..Len(events')
    <3>1. k + 1 \in 1..Len(events) /\ events'[k] = events[k + 1]
      BY <1>0, <2>2
    <3>2. QED
      BY <1>0, <2>3, <3>1
  <2>5. Base(p) = firstIndex /\ firstIndex' = firstIndex
    BY <1>0, <1>5, <2>1 DEF RemoveOldest
  <2>6. WithinBudget'
    BY <1>0, <1>5 DEF RemoveOldest
  <2>7. WindowInv(p)'
    <3>1. \A k \in 1..Len(events') : events'[k].index = Base(p)' + k - 1
      <4> HIDE DEF Base
      <4>1. QED
        BY <1>0, <2>2, <2>3, <2>4
    <3>2. Base(p)' = firstIndex' + 1
      BY <2>3, <2>5
    <3> HIDE DEF Base
    <3>3. QED
      BY <2>1, <3>1, <3>2
  <2>8. QED
    BY <2>3, <2>6, <2>7
<1>6. CASE ReadFirstIndex(p)
  BY <1>0, <1>6 DEF ReadFirstIndex
<1>7. CASE StoreFirstIndex(p)
  BY <1>0, <1>7 DEF StoreFirstIndex
<1>8. QED
  BY <1>1, <1>2, <1>3, <1>4, <1>5, <1>6, <1>7 DEF Push

\* A window that moves forward only takes a poll further from what it has read.
LEMMA PollKeeps ==
  ASSUME NEW p, Producers = {p}, EventsTypeOK, PollInv(p), Base(p) \in Int, UNCHANGED pollVars,
         Base(p)' \in Int, Base(p)' >= Base(p)
  PROVE  PollInv(p)'
<1>1. start \in Nat /\ next \in Nat
  BY DEF EventsTypeOK
<1>2. \A k \in 1..Len(batch) : batch[k].index \in Nat
  BY EventFacts DEF EventsTypeOK
<1>3. start <= Base(p) + next => start <= Base(p)' + next'
  BY <1>1 DEF pollVars
<1>4. \A k \in 1..Len(batch) : batch[k].index < Base(p) + next
                               => batch[k].index < Base(p)' + next'
  BY <1>1, <1>2 DEF pollVars
<1>5. Increasing(got)' /\ Increasing(batch)'
  BY DEF PollInv, pollVars, Increasing
<1>6. QED
  BY <1>3, <1>4, <1>5 DEF PollInv, pollVars

\* The poll reads on from its start, in the order of the window, and the cursor
\* it answers with is beyond what it gives.
LEMMA PollStep ==
  ASSUME NEW p, Producers = {p}, EventsTypeOK, WindowInv(p), PollInv(p), Poll
  PROVE  PollInv(p)'
<1>0. /\ start \in Nat /\ next \in Nat /\ cursor \in Nat /\ firstIndex \in Nat
      /\ nextIndex \in Nat /\ events \in Seq(Event) /\ batch \in Seq(Event)
      /\ got \in Seq(Event) /\ Len(events) \in Nat /\ Len(batch) \in Nat
  BY DEF EventsTypeOK
<1>1. Base(p) \in Int /\ firstIndex <= Base(p)
  BY <1>0 DEF WindowInv, Base
<1>2. CASE UNCHANGED pushVars /\ (Clamp \/ ComputeOffset \/ ReadSize \/ GetFails)
  <2>1. Base(p)' = Base(p)
    BY <1>2 DEF pushVars, Base
  <2>2. UNCHANGED <<cursor, got>> /\ Increasing(got)'
    BY <1>2 DEF Clamp, ComputeOffset, ReadSize, GetFails, PollInv, Increasing
  <2>3. CASE Clamp
    BY <1>0, <1>2, <2>1, <2>2, <2>3 DEF Clamp, PollInv, Increasing
  <2>4. CASE ComputeOffset
    <3>1. start <= Base(p) + next'
      BY <1>0, <1>1, <2>4 DEF ComputeOffset
    <3>2. QED
      BY <1>0, <2>1, <2>2, <2>4, <3>1 DEF ComputeOffset, PollInv, Increasing
  <2>5. CASE ReadSize
    BY <1>0, <2>1, <2>2, <2>5 DEF ReadSize, PollInv, Increasing
  <2>6. CASE GetFails
    BY <1>0, <2>1, <2>2, <2>6 DEF GetFails, PollInv, Increasing
  <2>7. QED
    BY <1>2, <2>3, <2>4, <2>5, <2>6
<1>3. CASE GetEvent
  <2>1. /\ rpc = "reading" /\ rpc' = "reading" /\ next' = next + 1
        /\ Base(p)' = Base(p) /\ UNCHANGED <<start, cursor, got>>
    BY <1>3 DEF GetEvent, pushVars, Base
  <2>2. events[next + 1] \in Event /\ events[next + 1].index = Base(p) + next
    <3>1. next + 1 \in 1..Len(events)
      BY <1>0, <1>3 DEF GetEvent
    <3>2. events[next + 1].index = Base(p) + (next + 1) - 1
      BY <3>1 DEF WindowInv
    <3>3. QED
      BY <1>0, <1>1, <3>1, <3>2
  <2>3. /\ Len(batch') = Len(batch) + 1
        /\ \A k \in 1..Len(batch) : batch'[k] = batch[k]
        /\ batch'[Len(batch) + 1] = events[next + 1]
        /\ batch' \in Seq(Event)
    BY <1>0, <1>3, <2>2, AppendFacts DEF GetEvent
  <2>4. \A k \in 1..Len(batch) : batch[k].index \in Nat
    BY <1>0, EventFacts
  <2>5. /\ cursor <= start /\ start <= Base(p) + next
        /\ \A k \in 1..Len(batch) : /\ cursor <= batch[k].index
                                    /\ batch[k].index < Base(p) + next
    BY <2>1 DEF PollInv
  <2>6. \A k \in 1..Len(batch') : /\ cursor <= batch'[k].index
                                  /\ batch'[k].index < Base(p) + (next + 1)
    <3> TAKE k \in 1..Len(batch')
    <3>1. CASE k \in 1..Len(batch)
      BY <1>0, <1>1, <2>3, <2>4, <2>5, <3>1
    <3>2. CASE k = Len(batch) + 1
      BY <1>0, <1>1, <2>2, <2>3, <2>5, <3>2
    <3>3. QED
      BY <1>0, <2>3, <3>1, <3>2
  <2>7. Increasing(batch')
    <3>1. \A k, l \in 1..Len(batch) : k < l => batch[k].index < batch[l].index
      BY <1>0, EventFacts DEF PollInv, Increasing
    <3> SUFFICES ASSUME NEW k \in 1..Len(batch'), NEW l \in 1..Len(batch'), k < l
                 PROVE  batch'[k].index < batch'[l].index
      BY <2>3, EventFacts DEF Increasing
    <3>2. CASE l \in 1..Len(batch)
      BY <1>0, <2>3, <3>1, <3>2
    <3>3. CASE l = Len(batch) + 1
      <4>1. k \in 1..Len(batch)
        BY <1>0, <3>3
      <4>2. QED
        BY <2>2, <2>3, <2>5, <3>3, <4>1
    <3>4. QED
      BY <1>0, <2>3, <3>2, <3>3
  <2>8. QED
    BY <2>1, <2>6, <2>7 , <1>0, <1>1 DEF PollInv, Increasing
<1>4. CASE AnswerPoll
  <2>1. /\ rpc = "reading" /\ rpc' = "idle" /\ batch' = <<>> /\ got' = got \o batch
        /\ cursor' = NextCursor
    BY <1>4 DEF AnswerPoll
  <2>2. \A k \in 1..Len(got) : got[k].index \in Nat
    BY <1>0, EventFacts
  <2>3. \A k \in 1..Len(batch) : batch[k].index \in Nat
    BY <1>0, EventFacts
  <2>4. \A k, l \in 1..Len(batch) : k < l => batch[k].index < batch[l].index
    BY <1>0, EventFacts DEF PollInv, Increasing
  <2>5. cursor' \in Nat /\ cursor <= cursor' /\ \A k \in 1..Len(batch) : batch[k].index < cursor'
    <3>1. CASE batch = <<>>
      BY <1>0, <2>1, <3>1 DEF NextCursor, PollInv
    <3>2. CASE batch # <<>>
      <4>1. Len(batch) \in 1..Len(batch)
        BY <1>0, <3>2, LastFacts
      <4>2. cursor' = batch[Len(batch)].index + 1
        BY <2>1, <3>2 DEF NextCursor
      <4>3. cursor <= batch[Len(batch)].index
        BY <4>1 DEF PollInv
      <4>4. \A k \in 1..Len(batch) : k = Len(batch) \/ k < Len(batch)
        BY <1>0
      <4>5. QED
        BY <1>0, <2>3, <2>4, <4>1, <4>2, <4>3, <4>4
    <3>3. QED
      BY <3>1, <3>2
  <2>6. \A k \in 1..Len(got') : got'[k].index < cursor'
    <3>1. /\ Len(got') = Len(got) + Len(batch)
          /\ \A k \in 1..Len(got) : got'[k] = got[k]
          /\ \A k \in Len(got) + 1..Len(got) + Len(batch) : got'[k] = batch[k - Len(got)]
      BY <1>0, <2>1, ConcatFacts
    <3>2. Len(got) \in Nat
      BY <1>0
    <3>3. \A k \in 1..Len(got) : got[k].index < cursor
      BY DEF PollInv
    <3> TAKE k \in 1..Len(got')
    <3>4. CASE k <= Len(got)
      BY <1>0, <2>2, <2>5, <3>1, <3>2, <3>3, <3>4
    <3>5. CASE k > Len(got)
      <4>1. k - Len(got) \in 1..Len(batch) /\ got'[k] = batch[k - Len(got)]
        BY <1>0, <3>1, <3>2, <3>5
      <4>2. QED
        BY <2>5, <4>1
    <3>6. QED
      BY <3>1, <3>2, <3>4, <3>5
  <2>7. Increasing(got')
    BY <1>0, <2>1, IncreasingConcat DEF PollInv
  <2>8. QED
    BY <2>1, <2>6, <2>7 DEF PollInv, Increasing
<1>5. QED
  BY <1>2, <1>3, <1>4 DEF Poll, Clamp, ComputeOffset, ReadSize, GetFails

-----------------------------------------------------------------------------
\* At first nothing was pushed, and the poll has read nothing.
LEMMA OneInitially ==
  ASSUME NEW p, Producers = {p}
  PROVE  EventsInit => EventsTypeOK /\ OneInv(p)
<1> SUFFICES ASSUME EventsInit PROVE EventsTypeOK /\ OneInv(p)
  OBVIOUS
<1>1. <<>> \in Seq(Event) /\ Len(<<>>) = 0 /\ DOMAIN <<>> = {}
  OBVIOUS
<1>2. EventsTypeOK
  <2>1. /\ ppc \in [Producers -> {"idle", "numbered", "built", "added", "full",
                                  "removed", "shifting"}]
        /\ register \in [Producers -> Nat]
    BY DEF EventsInit
  <2>2. pushed \in [Producers -> 0..Budget]
    BY BufferAssumption DEF EventsInit
  <2>3. events \in Seq(Event) /\ batch \in Seq(Event) /\ got \in Seq(Event)
    BY <1>1 DEF EventsInit
  <2>4. QED
    BY <2>1, <2>2, <2>3 DEF EventsInit, EventsTypeOK
<1>3. WithinBudget /\ WindowInv(p)
  <2>1. \A q \in Producers : ppc[q] = "idle"
    BY DEF EventsInit
  <2>2. Base(p) = 0 - 0 - 0 /\ Len(events) = 0
    BY <1>1, <2>1 DEF EventsInit, Base
  <2>3. QED
    BY <2>1, <2>2 DEF EventsInit, WithinBudget, WindowInv
<1>4. PollInv(p)
  BY <1>1 DEF EventsInit, PollInv, Increasing
<1>5. QED
  BY <1>2, <1>3, <1>4 DEF OneInv

\* Each step of the producer and of the poll keeps the window and what was read of it.
LEMMA OneStep ==
  ASSUME NEW p, Producers = {p}
  PROVE  EventsTypeOK /\ OneInv(p) /\ [EventsNext]_eventsVars => EventsTypeOK' /\ OneInv(p)'
<1> SUFFICES ASSUME EventsTypeOK, OneInv(p), [EventsNext]_eventsVars PROVE EventsTypeOK' /\ OneInv(p)'
  OBVIOUS
<1>1. EventsTypeOK'
  BY TypeStep
<1>2. Base(p) \in Int
  BY DEF EventsTypeOK, Base
<1>3. CASE Push(p)
  <2>1. WithinBudget' /\ WindowInv(p)' /\ Base(p)' \in Int /\ Base(p)' >= Base(p)
    BY <1>3, PushWindow DEF OneInv
  <2>2. UNCHANGED pollVars
    BY <1>3 DEF Push, ReadNextIndex, StoreNextIndex, AddEvent, CheckSize, RemoveOldest,
      ReadFirstIndex, StoreFirstIndex
  <2>3. QED
    BY <1>1, <1>2, <2>1, <2>2, PollKeeps DEF OneInv
<1>4. CASE Poll
  <2>1. UNCHANGED pushVars
    BY <1>4 DEF Poll, Clamp, ComputeOffset, ReadSize, GetEvent, GetFails, AnswerPoll
  <2>2. WithinBudget' /\ WindowInv(p)'
    BY <2>1 DEF OneInv, WithinBudget, WindowInv, Base, pushVars
  <2>3. QED
    BY <1>1, <1>4, <2>2, PollStep DEF OneInv
<1>5. CASE UNCHANGED eventsVars
  <2>1. UNCHANGED pushVars /\ UNCHANGED pollVars
    BY <1>5 DEF eventsVars
  <2>2. WithinBudget' /\ WindowInv(p)' /\ Base(p)' = Base(p)
    BY <2>1 DEF OneInv, WithinBudget, WindowInv, Base, pushVars
  <2>3. QED
    BY <1>1, <1>2, <2>1, <2>2, PollKeeps DEF OneInv
<1>6. QED
  BY <1>3, <1>4, <1>5 DEF EventsNext

\* With one producer the invariant of the window and of the poll always holds.
LEMMA OneAlways ==
  ASSUME NEW p, Producers = {p}
  PROVE  EventsSpec => [](EventsTypeOK /\ OneInv(p))
BY OneInitially, OneStep, PTL DEF EventsSpec

\* Every variable keeps its type, the poll's offset and the removal included.
THEOREM TypeCorrect ==
  ASSUME NEW p, Producers = {p}
  PROVE  EventsSpec => []EventsTypeOK
BY OneAlways, PTL

\* The window is in order.
LEMMA IndexesInOrder ==
  ASSUME NEW p, EventsTypeOK, OneInv(p)
  PROVE  IndexStrictlyIncreasing
<1> SUFFICES ASSUME NEW k \in 1..Len(events), NEW l \in 1..Len(events), k < l
             PROVE  events[k].index < events[l].index
  BY EventFacts DEF IndexStrictlyIncreasing, Increasing, EventsTypeOK
<1>1. Base(p) \in Int
  BY DEF EventsTypeOK, Base
<1>2. events[k].index = Base(p) + k - 1 /\ events[l].index = Base(p) + l - 1
  BY DEF OneInv, WindowInv
<1>3. QED
  BY <1>1, <1>2

\* The buffered events of one producer are numbered in order
\* (docs/bridge-contract.md:207), whatever is trimmed.
THEOREM IndexIncreases ==
  ASSUME NEW p, Producers = {p}
  PROVE  EventsSpec => []IndexStrictlyIncreasing
<1>1. EventsTypeOK /\ OneInv(p) => IndexStrictlyIncreasing
  BY IndexesInOrder
<1>2. QED
  BY <1>1, OneAlways, PTL

\* However the trimming of one producer and the reads of a poll interleave, the
\* client receives no event twice and none out of order (events, pushEvent).
THEOREM NothingReceivedTwice ==
  ASSUME NEW p, Producers = {p}
  PROVE  EventsSpec => []NeverGoesBack
<1>1. EventsTypeOK /\ OneInv(p) => NeverGoesBack
  BY IncreasingConcat DEF OneInv, PollInv, NeverGoesBack, EventsTypeOK
<1>2. QED
  BY <1>1, OneAlways, PTL

-----------------------------------------------------------------------------
(* The buffer implements the log as long as it is never full. *)

\* Nothing has been removed, and the client has the events below its cursor.
WholeInv(p) ==
  /\ Len(events) <= pushed[p]
  /\ firstIndex = 0 /\ ppc[p] \notin {"full", "removed", "shifting"}
  /\ Len(got) = cursor /\ cursor <= Len(events)
  /\ \A k \in 1..cursor : got[k] = events[k]
  /\ rpc # "idle" => start = cursor
  /\ rpc \in {"placed", "reading"} => next = start + Len(batch) /\ next <= Len(events)
  /\ \A k \in 1..Len(batch) : batch[k] = events[start + k]

\* A push only adds to the end of what the poll reads.
LEMMA WholePush ==
  ASSUME NEW p, Producers = {p}, EventsTypeOK, OneInv(p), WholeInv(p), Push(p),
         CheckSize(p) => Len(events) <= Buffer
  PROVE  WholeInv(p)' /\ [Log!Report]_<<events, got>>
<1> USE BufferAssumption DEF Producing, Load
<1>0. /\ ppc \in [Producers -> {"idle", "numbered", "built", "added", "full",
                                "removed", "shifting"}]
      /\ register \in [Producers -> Nat] /\ pushed \in [Producers -> 0..Budget]
      /\ events \in Seq(Event) /\ Len(events) \in Nat /\ Len(batch) \in Nat
      /\ start \in Nat /\ cursor \in Nat /\ next \in Nat
  BY DEF EventsTypeOK
<1>1. CASE /\ UNCHANGED <<events, firstIndex, pushed, pollVars>>
           /\ ppc'[p] \notin {"full", "removed", "shifting"}
  BY <1>1 DEF WholeInv, pollVars
<1>2. CASE ReadNextIndex(p) \/ StoreNextIndex(p)
  BY <1>0, <1>1, <1>2 DEF ReadNextIndex, StoreNextIndex
<1>3. CASE AddEvent(p)
  <2> DEFINE e == [by |-> p, nr |-> pushed[p] + 1, index |-> register[p]]
  <2>1. /\ e \in Event /\ e.index = register[p]
    BY <1>0, <1>3 DEF AddEvent, OneInv, WithinBudget, Event
  <2>2. /\ Len(events') = Len(events) + 1
        /\ \A k \in 1..Len(events) : events'[k] = events[k]
        /\ events'[Len(events) + 1] = e
    BY <1>0, <1>3, <2>1, AppendFacts DEF AddEvent
  <2>3. /\ pushed'[p] = pushed[p] + 1 /\ ppc'[p] = "added"
        /\ firstIndex' = firstIndex /\ UNCHANGED pollVars
    BY <1>0, <1>3 DEF AddEvent
  <2>4. WholeInv(p)'
    <3> HIDE DEF e
    <3>1. \A k \in 1..cursor : got[k] = events'[k]
      <4>1. \A k \in 1..cursor : k \in 1..Len(events)
        BY <1>0 DEF WholeInv
      <4>2. QED
        BY <2>2, <4>1 DEF WholeInv
    <3>2. \A k \in 1..Len(batch) : batch[k] = events'[start + k]
      <4>1. CASE rpc = "reading"
        <5>1. \A k \in 1..Len(batch) : start + k \in 1..Len(events)
          BY <1>0, <4>1 DEF WholeInv
        <5>2. QED
          BY <2>2, <5>1 DEF WholeInv
      <4>2. CASE rpc # "reading"
        <5>1. batch = <<>> /\ Len(<<>>) = 0
          BY <4>2 DEF OneInv, PollInv
        <5>2. QED
          BY <5>1
      <4>3. QED
        BY <4>1, <4>2
    <3>3. Len(events') <= pushed'[p]
      BY <1>0, <2>2, <2>3 DEF WholeInv
    <3>4. cursor <= Len(events') /\ (next <= Len(events) => next <= Len(events'))
      BY <1>0, <2>2 DEF WholeInv
    <3>5. QED
      BY <2>3, <3>1, <3>2, <3>3, <3>4 DEF WholeInv, pollVars
  <2>5. \A k \in 1..Len(events) : events[k].index < register[p]
    <3>1. ppc[p] = "built"
      BY <1>3 DEF AddEvent
    <3>2. register[p] + 1 = nextIndex /\ Base(p) = 0
      BY <3>1 DEF OneInv, WindowInv, WholeInv
    <3>3. nextIndex - Len(events) - 1 = 0
      BY <3>1, <3>2 DEF Base
    <3>4. nextIndex \in Int /\ register[p] \in Int
      BY <1>0 DEF EventsTypeOK
    <3>5. register[p] = Len(events)
      BY <1>0, <3>2, <3>3, <3>4
    <3>6. \A k \in 1..Len(events) : events[k].index = 0 + k - 1
      BY <3>2 DEF OneInv, WindowInv
    <3>7. QED
      BY <1>0, <3>5, <3>6
  <2>6. Log!Report
    <3>1. DOMAIN events = 1..Len(events) /\ Len(events') = Len(events) + 1
      BY <1>0, <2>2, EventFacts
    <3>2. events'[Len(events')].index = register[p]
      BY <2>1, <2>2
    <3>3. got' = got
      BY <2>3 DEF pollVars
    <3> HIDE DEF e
    <3>4. QED
      BY <2>2, <2>5, <3>1, <3>2, <3>3 DEF Log!Report
  <2>7. QED
    BY <2>4, <2>6
<1>4. CASE CheckSize(p)
  <2>1. ~(Len(events) > Buffer)
    BY <1>0, <1>4
  <2>2. QED
    BY <1>0, <1>1, <1>4, <2>1 DEF CheckSize
<1>5. CASE RemoveOldest(p) \/ ReadFirstIndex(p) \/ StoreFirstIndex(p)
  BY <1>5 DEF RemoveOldest, ReadFirstIndex, StoreFirstIndex, WholeInv
<1>6. QED
  BY <1>2, <1>3, <1>4, <1>5 DEF Push

\* An answer carries the events that follow those the client has.
LEMMA WholePoll ==
  ASSUME NEW p, Producers = {p}, EventsTypeOK, OneInv(p), WholeInv(p), Poll
  PROVE  WholeInv(p)' /\ [Log!Answer]_<<events, got>>
<1>0. /\ start \in Nat /\ next \in Nat /\ cursor \in Nat /\ available \in Nat
      /\ events \in Seq(Event) /\ batch \in Seq(Event) /\ got \in Seq(Event)
      /\ Len(events) \in Nat /\ Len(batch) \in Nat
  BY DEF EventsTypeOK
<1>1. rpc # "reading" => batch = <<>> /\ Len(batch) = 0
  BY DEF OneInv, PollInv
<1>2. CASE Clamp
  BY <1>0, <1>1, <1>2 DEF Clamp, WholeInv, pushVars
<1>3. CASE ComputeOffset
  BY <1>0, <1>1, <1>3 DEF ComputeOffset, WholeInv, pushVars
<1>4. CASE ReadSize
  BY <1>0, <1>4 DEF ReadSize, WholeInv, pushVars
<1>5. CASE GetEvent
  <2>1. rpc = "reading" /\ next = start + Len(batch) /\ next + 1 \in 1..Len(events)
    BY <1>0, <1>5 DEF GetEvent, WholeInv
  <2>2. events[next + 1] \in Event
    BY <1>0, <2>1, EventFacts
  <2>3. /\ Len(batch') = Len(batch) + 1
        /\ \A k \in 1..Len(batch) : batch'[k] = batch[k]
        /\ batch'[Len(batch) + 1] = events[next + 1]
    BY <1>0, <1>5, <2>2, AppendFacts DEF GetEvent
  <2>4. /\ next' = next + 1 /\ UNCHANGED <<rpc, start, cursor, got, pushVars>>
    BY <1>5 DEF GetEvent
  <2>5. next' = start + Len(batch') /\ next' <= Len(events)
    BY <1>0, <2>1, <2>3, <2>4
  <2>6. \A k \in 1..Len(batch') : batch'[k] = events[start + k]
    <3> TAKE k \in 1..Len(batch')
    <3>1. CASE k \in 1..Len(batch)
      BY <2>3, <3>1 DEF WholeInv
    <3>2. CASE k = Len(batch) + 1
      <4>1. start + k = next + 1
        BY <1>0, <2>1, <3>2
      <4>2. QED
        BY <2>3, <3>2, <4>1
    <3>3. QED
      BY <1>0, <2>3, <3>1, <3>2
  <2>7. QED
    BY <2>4, <2>5, <2>6 DEF WholeInv, pushVars
<1>6. CASE GetFails
  <2>1. batch' = <<>> /\ Len(<<>>) = 0 /\ rpc' = "idle"
        /\ UNCHANGED <<cursor, got, pushVars>>
    BY <1>6 DEF GetFails
  <2>2. QED
    BY <2>1 DEF WholeInv, pushVars
<1>7. CASE AnswerPoll
  <2>1. /\ rpc = "reading" /\ rpc' = "idle" /\ batch' = <<>> /\ Len(<<>>) = 0
        /\ got' = got \o batch /\ cursor' = NextCursor /\ UNCHANGED pushVars
    BY <1>7 DEF AnswerPoll
  <2>2. start = cursor /\ next = start + Len(batch) /\ next <= Len(events)
    BY <2>1 DEF WholeInv
  <2>3. cursor' = next
    <3>1. CASE batch = <<>>
      BY <1>0, <2>1, <2>2, <3>1 DEF NextCursor
    <3>2. CASE batch # <<>>
      <4>1. Len(batch) \in 1..Len(batch) /\ next \in 1..Len(events)
        BY <1>0, <2>2, <3>2, LastFacts
      <4>2. batch[Len(batch)] = events[next]
        BY <2>2, <4>1 DEF WholeInv
      <4>3. Base(p) = 0
        BY DEF OneInv, WindowInv, WholeInv
      <4>4. events[next].index = 0 + next - 1
        BY <4>1, <4>3 DEF OneInv, WindowInv
      <4>5. cursor' = batch[Len(batch)].index + 1
        BY <2>1, <3>2 DEF NextCursor
      <4>6. QED
        BY <1>0, <4>2, <4>4, <4>5
    <3>3. QED
      BY <3>1, <3>2
  <2>4. /\ got' \in Seq(Event) /\ Len(got') = Len(got) + Len(batch)
        /\ \A k \in 1..Len(got) : got'[k] = got[k]
        /\ \A k \in Len(got) + 1..Len(got) + Len(batch) : got'[k] = batch[k - Len(got)]
    BY <1>0, <2>1, ConcatFacts
  <2>5. Len(got) = cursor /\ \A k \in 1..cursor : got[k] = events[k]
    BY DEF WholeInv
  <2>6. Len(got') = next
    BY <1>0, <2>2, <2>4, <2>5
  <2>7. \A k \in 1..next : got'[k] = events[k]
    <3> TAKE k \in 1..next
    <3>1. CASE k \in 1..cursor
      BY <2>4, <2>5, <3>1
    <3>2. CASE k > cursor
      <4>1. /\ k - cursor \in 1..Len(batch) /\ start + (k - cursor) = k
            /\ k \in cursor + 1..cursor + Len(batch)
        BY <1>0, <2>2, <3>2
      <4>2. batch[k - cursor] = events[start + (k - cursor)]
        BY <4>1 DEF WholeInv
      <4>3. got'[k] = batch[k - cursor]
        BY <2>4, <2>5, <4>1
      <4>4. QED
        BY <4>1, <4>2, <4>3
    <3>3. QED
      BY <1>0, <3>1, <3>2
  <2>8. WholeInv(p)'
    BY <1>0, <2>1, <2>2, <2>3, <2>6, <2>7 DEF WholeInv, pushVars
  <2>9. Log!Answer
    <3>1. got' = SubSeq(events, 1, next)
      <4>1. /\ SubSeq(events, 1, next) \in Seq(Event)
            /\ Len(SubSeq(events, 1, next)) = next
            /\ \A k \in 1..next : SubSeq(events, 1, next)[k] = events[k]
        BY <1>0, <2>2
      <4>2. /\ Len(got') = Len(SubSeq(events, 1, next))
            /\ \A k \in 1..Len(got') : got'[k] = SubSeq(events, 1, next)[k]
        BY <2>6, <2>7, <4>1
      <4>3. QED
        BY <2>4, <4>1, <4>2, SameLists
    <3>2. next \in Len(got)..Len(events)
      BY <1>0, <2>2, <2>5
    <3>3. events' = events
      BY <2>1 DEF pushVars
    <3>4. QED
      BY <3>1, <3>2, <3>3 DEF Log!Answer
  <2>10. QED
    BY <2>8, <2>9
<1>8. QED
  BY <1>2, <1>3, <1>4, <1>5, <1>6, <1>7 DEF Poll

\* Neither events nor answers at first.
LEMMA WholeInitially ==
  ASSUME NEW p, Producers = {p}
  PROVE  EventsInit => WholeInv(p) /\ Log!Init
<1>1. Len(<<>>) = 0
  OBVIOUS
<1>2. EventsInit => pushed[p] = 0 /\ ppc[p] = "idle"
  BY DEF EventsInit
<1>3. QED
  BY <1>1, <1>2 DEF EventsInit, WholeInv, Log!Init

\* As long as the buffer is never found full, each step is one of the log or a stutter.
LEMMA WholeStep ==
  ASSUME NEW p, Producers = {p}, EventsTypeOK, OneInv(p), WholeInv(p), [EventsNext]_eventsVars,
         CheckSize(p) => Len(events) <= Buffer
  PROVE  WholeInv(p)' /\ [Log!Next]_<<events, got>>
<1>1. CASE Push(p)
  BY <1>1, WholePush DEF Log!Next
<1>2. CASE Poll
  BY <1>2, WholePoll DEF Log!Next
<1>3. CASE UNCHANGED eventsVars
  BY <1>3 DEF eventsVars, pushVars, pollVars, WholeInv
<1>4. QED
  BY <1>1, <1>2, <1>3 DEF EventsNext

\* With one producer and a buffer as large as what it pushes, the events and the
\* polls implement the log that docs/bridge-contract.md:207-213 describes: each
\* step is a report, an answer with the next events, or none of the client's business.
THEOREM ImplementsTheLog ==
  ASSUME NEW p, Producers = {p}, Budget <= Buffer
  PROVE  EventsSpec => ImplementsLog
<1>1. EventsTypeOK /\ WholeInv(p) => Len(events) <= Buffer
  BY BufferAssumption DEF EventsTypeOK, WholeInv
<1>2. EventsTypeOK /\ OneInv(p) /\ WholeInv(p) /\ [EventsNext]_eventsVars
        => WholeInv(p)' /\ [Log!Next]_<<events, got>>
  BY <1>1, WholeStep
<1>3. QED
  BY <1>2, WholeInitially, OneAlways, PTL DEF EventsSpec, ImplementsLog, Log!Spec

\* The invariant of the buffer and of the answers, whole.
THEOREM BufferCorrect ==
  ASSUME NEW p, Producers = {p}
  PROVE  EventsSpec => []BufferInv
<1>1. EventsTypeOK /\ IndexStrictlyIncreasing /\ NeverGoesBack => BufferInv
  BY DEF BufferInv
<1>2. QED
  BY <1>1, TypeCorrect, IndexIncreases, NothingReceivedTwice, PTL
=============================================================================
