------------------------ MODULE AgentRegistry_proofs ------------------------
(* Theorems about AgentRegistry, for every number of conversations, entries, *)
(* threads and every user limit.                                             *)
EXTENDS AgentRegistry, FiniteSetTheorems, TLAPS

\* Where a call is; the stop of a victim is part of the place it goes back to.
Stopping(t) == call[t].pc \in {"kill", "close", "remove"}
Place(t) == IF Stopping(t) THEN call[t].back ELSE call[t].pc

\* What a call is about, and the entries it has, by its place.
CallShape(t) ==
  LET c == call[t] IN
  /\ c.pc = "free" => c = Free
  /\ Place(t) \in {"lookup", "waiting", "again", "setup", "limit", "others", "spawn",
                   "handshake", "failed"} => c.kind = "start"
  /\ Place(t) \in {"verdicts", "stops"} => c.kind \in {"start", "events", "sweep"}
  /\ c.pc = "remove" => c.back # "failed"
  /\ c.pc = "find" => c.kind = "close"
  /\ c.pc = "read" => c.kind = "events"
  /\ c.kind \in {"start", "events", "close"} => c.handle \in Handles
  /\ Place(t) \in {"limit", "others", "spawn", "handshake", "failed"} => c.own \in Entries
  /\ Stopping(t) \/ c.pc = "waiting" => c.victim \in Entries

ShapeInv == TypeOK /\ \A t \in Servers : CallShape(t)

\* None is neither an entry nor a handle.
LEMMA NoneIsNoEntry == None \notin Entries /\ None \notin Handles
BY RegistryAssumption

\* The records of an entry and of a call at rest are well typed.
LEMMA RestTypes == Unused \in EntryRecord /\ Free \in CallRecord
<1>1. Unused \in EntryRecord
  BY DEF Unused, EntryRecord
<1>2. Free \in CallRecord
  BY DEF Free, CallRecord, Places
<1>3. QED
  BY <1>1, <1>2

\* The registry starts well typed.
LEMMA ShapeInit == Init => ShapeInv
BY RestTypes DEF Init, ShapeInv, TypeOK, CallShape, Place, Stopping, Free

\* An entry with one of its fields set is an entry.
LEMMA FieldTypes ==
  ASSUME NEW r \in EntryRecord
  PROVE  /\ \A b \in BOOLEAN : /\ [r EXCEPT !.alive = b] \in EntryRecord
                              /\ [r EXCEPT !.turn = b] \in EntryRecord
                              /\ [r EXCEPT !.prewarm = b] \in EntryRecord
                              /\ [r EXCEPT !.late = b] \in EntryRecord
         /\ \A s \in {"starting", "running", "error", "closed", "exited", r.status} :
              [r EXCEPT !.status = s] \in EntryRecord
         /\ [r EXCEPT !.idle = 0] \in EntryRecord
         /\ r.idle < 3 => [r EXCEPT !.idle = @ + 1] \in EntryRecord
<1>1. \A b \in BOOLEAN : /\ [r EXCEPT !.alive = b] \in EntryRecord
                         /\ [r EXCEPT !.turn = b] \in EntryRecord
                         /\ [r EXCEPT !.prewarm = b] \in EntryRecord
                         /\ [r EXCEPT !.late = b] \in EntryRecord
  BY DEF EntryRecord
<1>2. \A s \in {"starting", "running", "error", "closed", "exited", r.status} :
        [r EXCEPT !.status = s] \in EntryRecord
  BY DEF EntryRecord
<1>3. [r EXCEPT !.idle = 0] \in EntryRecord
  BY DEF EntryRecord
<1>4. r.idle < 3 => [r EXCEPT !.idle = @ + 1] \in EntryRecord
  BY DEF EntryRecord
<1>5. QED
  BY <1>1, <1>2, <1>3, <1>4

\* An entry with the fields an action sets is an entry.
LEMMA EntryFields ==
  ASSUME NEW r \in EntryRecord
  PROVE  /\ \A b \in BOOLEAN : [r EXCEPT !.prewarm = b, !.idle = 0] \in EntryRecord
         /\ [r EXCEPT !.status = "running", !.idle = 0] \in EntryRecord
         /\ \A s \in {"error", "closed"} :
              [r EXCEPT !.status = s, !.turn = FALSE, !.idle = 0] \in EntryRecord
         /\ [r EXCEPT !.turn = TRUE, !.prewarm = FALSE, !.idle = 0] \in EntryRecord
         /\ [r EXCEPT !.turn = FALSE, !.idle = 0] \in EntryRecord
         /\ \A s \in {"exited", r.status} :
              [r EXCEPT !.alive = FALSE, !.status = s, !.idle = 0] \in EntryRecord
<1>1. ASSUME NEW b \in BOOLEAN
      PROVE  [r EXCEPT !.prewarm = b, !.idle = 0] \in EntryRecord
  <2>1. [r EXCEPT !.prewarm = b, !.idle = 0] = [[r EXCEPT !.prewarm = b] EXCEPT !.idle = 0]
    OBVIOUS
  <2>2. QED
    BY <2>1, FieldTypes
<1>2. [r EXCEPT !.status = "running", !.idle = 0] \in EntryRecord
  <2>1. [r EXCEPT !.status = "running", !.idle = 0]
          = [[r EXCEPT !.status = "running"] EXCEPT !.idle = 0]
    OBVIOUS
  <2>2. QED
    BY <2>1, FieldTypes
<1>3. ASSUME NEW s \in {"error", "closed"}
      PROVE  [r EXCEPT !.status = s, !.turn = FALSE, !.idle = 0] \in EntryRecord
  <2>1. [r EXCEPT !.status = s, !.turn = FALSE, !.idle = 0]
          = [[[r EXCEPT !.status = s] EXCEPT !.turn = FALSE] EXCEPT !.idle = 0]
    OBVIOUS
  <2>2. QED
    BY <2>1, FieldTypes
<1>4. [r EXCEPT !.turn = TRUE, !.prewarm = FALSE, !.idle = 0] \in EntryRecord
  <2>1. [r EXCEPT !.turn = TRUE, !.prewarm = FALSE, !.idle = 0]
          = [[[r EXCEPT !.turn = TRUE] EXCEPT !.prewarm = FALSE] EXCEPT !.idle = 0]
    OBVIOUS
  <2>2. QED
    BY <2>1, FieldTypes
<1>5. [r EXCEPT !.turn = FALSE, !.idle = 0] \in EntryRecord
  <2>1. [r EXCEPT !.turn = FALSE, !.idle = 0] = [[r EXCEPT !.turn = FALSE] EXCEPT !.idle = 0]
    OBVIOUS
  <2>2. QED
    BY <2>1, FieldTypes
<1>6. ASSUME NEW s \in {"exited", r.status}
      PROVE  [r EXCEPT !.alive = FALSE, !.status = s, !.idle = 0] \in EntryRecord
  <2>1. [r EXCEPT !.alive = FALSE, !.status = s, !.idle = 0]
          = [[[r EXCEPT !.alive = FALSE] EXCEPT !.status = s] EXCEPT !.idle = 0]
    OBVIOUS
  <2>2. [r EXCEPT !.alive = FALSE].status = r.status
    BY DEF EntryRecord
  <2>3. QED
    BY <2>1, <2>2, FieldTypes
<1>7. QED
  BY <1>1, <1>2, <1>3, <1>4, <1>5, <1>6

\* A step of a call touches no other call.
LEMMA OthersStay ==
  ASSUME ShapeInv, NEW t \in Servers, Receive(t) \/ ServerStep(t)
  PROVE  \A u \in Servers \ {t} : call'[u] = call[u]
<1> USE DEF ShapeInv, TypeOK, Move, Finish
<1>1. CASE StartStep(t)
  <2>1. CASE PutEntry(t)
    BY <2>1 DEF PutEntry
  <2>2. CASE JudgeOther(t)
    BY <2>2 DEF JudgeOther
  <2>3. CASE StopAboveLimit(t)
    BY <2>3 DEF StopAboveLimit
  <2>4. CASE LeaveAlone(t) \/ AwaitStart(t) \/ AwaitOver(t) \/ AwaitFails(t) \/ TakeExisting(t)
             \/ RestartExisting(t) \/ StartAnew(t) \/ SetupFails(t)
    BY <2>4 DEF LeaveAlone, AwaitStart, AwaitOver, AwaitFails, TakeExisting, RestartExisting,
                StartAnew, SetupFails
  <2>5. CASE EnforceUserLimit(t) \/ Spawn(t) \/ Ready(t) \/ StartFails(t)
    BY <2>5 DEF EnforceUserLimit, Spawn, Ready, StartFails
  <2>6. QED
    BY <1>1, <2>1, <2>2, <2>3, <2>4, <2>5 DEF StartStep
<1>2. CASE StopStep(t)
  <2>1. CASE NextVictim(t)
    <3>1. call[t].kind \in {"start", "events", "sweep"}
      BY <2>1 DEF NextVictim, CallShape, Place, Stopping, At
    <3>2. QED
      BY <2>1, <3>1 DEF NextVictim
  <2>2. CASE KillVictim(t) \/ CloseVictim(t) \/ RemoveVictim(t)
    BY <2>2 DEF KillVictim, CloseVictim, RemoveVictim
  <2>3. QED
    BY <1>2, <2>1, <2>2 DEF StopStep
<1>3. CASE Judge(t) \/ SweepUserLimit(t)
  BY <1>3 DEF Judge, SweepUserLimit
<1>4. CASE FindToClose(t) \/ ReadEvents(t)
  BY <1>4 DEF FindToClose, ReadEvents
<1>5. CASE Receive(t)
  BY <1>5 DEF Receive
<1>6. QED
  BY <1>1, <1>2, <1>3, <1>4, <1>5 DEF ServerStep

\* A call that ends.
LEMMA FinishShape ==
  ASSUME ShapeInv, NEW t \in Servers, Finish(t)
  PROVE  call' \in [Servers -> CallRecord] /\ CallShape(t)'
<1>1. call' \in [Servers -> CallRecord] /\ call'[t] = Free
  BY RestTypes DEF Finish, ShapeInv, TypeOK
<1>2. CallShape(t)'
  BY <1>1 DEF CallShape, Place, Stopping, Free
<1>3. QED
  BY <1>1, <1>2

\* What is registered, and under the handle of a call, is an entry.
LEMMA FoundType ==
  ASSUME ShapeInv
  PROVE  /\ Registered \subseteq Entries
         /\ \A t \in Servers : call[t].handle \in Handles => Found(t) \in Entries \cup {None}
BY DEF ShapeInv, TypeOK, Registered, Found

\* A sweep picks its victims among the entries.
LEMMA VictimsType ==
  ASSUME NEW mine, NEW keep, NEW V \in Victims(mine, keep)
  PROVE  V \subseteq mine \ keep
BY DEF Victims

\* A call that is received.
LEMMA ReceiveMoves ==
  ASSUME ShapeInv, NEW t \in Servers, Receive(t)
  PROVE  /\ call' \in [Servers -> CallRecord]
         /\ call'[t].pc \in {"verdicts", "lookup", "read", "find"}
         /\ \/ call'[t].kind = "start" /\ call'[t].pc \in {"verdicts", "lookup"}
            \/ call'[t].kind = "events" /\ call'[t].pc \in {"verdicts", "read"}
            \/ call'[t].kind = "close" /\ call'[t].pc = "find"
            \/ call'[t].kind = "sweep" /\ call'[t].pc = "verdicts"
         /\ call'[t].kind # "sweep" => call'[t].handle \in Handles
         /\ call'[t].todo \in {Registered, {}} /\ call'[t].kept = {}
         /\ call'[t].own = None /\ call'[t].victim = None
<1> USE FoundType DEF ShapeInv, TypeOK, CallShape, Place, Stopping, Free, At, CallRecord, Places
<1>1. call[t] = Free
  BY DEF Receive
<1>2. CASE t = Reaper
  <2>1. Move(t, [pc |-> "verdicts", kind |-> "sweep", todo |-> Registered])
    BY <1>2 DEF Receive
  <2>2. call' \in [Servers -> CallRecord]
    BY <1>1, <2>1 DEF Move
  <2>3. /\ call'[t].pc = "verdicts" /\ call'[t].kind = "sweep" /\ call'[t].todo = Registered
        /\ call'[t].kept = {} /\ call'[t].own = None /\ call'[t].victim = None
    BY <1>1, <2>1 DEF Move
  <2>4. QED
    BY <2>2, <2>3
<1>3. CASE t # Reaper
  <2>1. PICK h \in Handles, due \in BOOLEAN : Receive(t)!2!1!2!(h, due)
    BY <1>3 DEF Receive
  <2> DEFINE todo == IF due THEN Registered ELSE {}
  <2>2. CASE \E p \in BOOLEAN :
               Move(t, [pc |-> IF due THEN "verdicts" ELSE "lookup", kind |-> "start",
                        handle |-> h, prewarm |-> p, todo |-> todo])
    BY <1>1, <2>2 DEF Move
  <2>3. CASE Move(t, [pc |-> IF due THEN "verdicts" ELSE "read", kind |-> "events",
                      handle |-> h, todo |-> todo])
    <3>1. call' \in [Servers -> CallRecord]
      BY <1>1, <2>3 DEF Move
    <3>2. /\ call'[t].pc \in {"verdicts", "read"} /\ call'[t].kind = "events"
          /\ call'[t].handle = h /\ call'[t].todo \in {Registered, {}}
          /\ call'[t].kept = {} /\ call'[t].own = None /\ call'[t].victim = None
      BY <1>1, <2>3 DEF Move
    <3>3. QED
      BY <3>1, <3>2
  <2>4. CASE Move(t, [pc |-> "find", kind |-> "close", handle |-> h])
    <3>1. call' \in [Servers -> CallRecord]
      BY <1>1, <2>4 DEF Move
    <3>2. /\ call'[t].pc = "find" /\ call'[t].kind = "close" /\ call'[t].handle = h
          /\ call'[t].todo = {} /\ call'[t].kept = {}
          /\ call'[t].own = None /\ call'[t].victim = None
      BY <1>1, <2>4 DEF Move
    <3>3. QED
      BY <3>1, <3>2
  <2>5. QED
    BY <2>1, <2>2, <2>3, <2>4
<1>4. QED
  BY <1>2, <1>3

\* A call whose victims are all stopped goes back to what it is about.
LEMMA NextVictimMoves ==
  ASSUME ShapeInv, NEW t \in Servers, NextVictim(t)
  PROVE  /\ call' \in [Servers -> CallRecord]
         /\ \/ call'[t] = Free
            \/ /\ call'[t].kind = call[t].kind /\ call'[t].handle = call[t].handle
               /\ call'[t].prewarm = call[t].prewarm /\ call'[t].own = call[t].own
               /\ call'[t].kept = call[t].kept
               /\ \/ \E v \in call[t].todo :
                       /\ call'[t].pc = "kill" /\ call'[t].victim = v
                       /\ call'[t].todo = call[t].todo \ {v} /\ call'[t].back = "stops"
                  \/ /\ call[t].todo = {} /\ call'[t].todo = {}
                     /\ call'[t].victim = call[t].victim /\ call'[t].back = call[t].back
                     /\ \/ call[t].kind = "events" /\ call'[t].pc = "read"
                        \/ /\ call[t].kind = "start"
                           /\ call'[t].pc = IF call[t].own = None THEN "lookup" ELSE "spawn"
<1> USE FinishShape DEF ShapeInv, TypeOK, CallShape, Place, Stopping, Free, At, CallRecord, Places
<1>1. call[t].kind \in {"start", "events", "sweep"}
  BY DEF NextVictim
<1>2. CASE call[t].todo # {}
  <2>1. PICK v \in call[t].todo :
          Move(t, [pc |-> "kill", victim |-> v, todo |-> call[t].todo \ {v}, back |-> "stops"])
    BY <1>2 DEF NextVictim
  <2>2. call' \in [Servers -> CallRecord]
    BY <2>1 DEF Move
  <2>3. /\ call'[t].kind = call[t].kind /\ call'[t].handle = call[t].handle
        /\ call'[t].prewarm = call[t].prewarm /\ call'[t].own = call[t].own
        /\ call'[t].kept = call[t].kept
        /\ call'[t].pc = "kill" /\ call'[t].victim = v
        /\ call'[t].todo = call[t].todo \ {v} /\ call'[t].back = "stops"
    BY <2>1 DEF Move
  <2>4. QED
    BY <2>2, <2>3
<1>3. CASE call[t].todo = {} /\ call[t].kind = "sweep"
  BY <1>3 DEF NextVictim, Finish
<1>4. CASE call[t].todo = {} /\ call[t].kind = "events"
  BY <1>4 DEF NextVictim, Move
<1>5. CASE call[t].todo = {} /\ call[t].kind = "start"
  BY <1>5 DEF NextVictim, Move
<1>6. QED
  BY <1>1, <1>2, <1>3, <1>4, <1>5

\* Only a start puts an entry, and only a stop removes one.
LEMMA RegistryStays ==
  ASSUME ShapeInv, NEW t \in Servers, Receive(t) \/ ServerStep(t), ~PutEntry(t), ~RemoveVictim(t)
  PROVE  registry' = registry
<1>1. CASE Receive(t) \/ FindToClose(t) \/ ReadEvents(t) \/ Judge(t) \/ SweepUserLimit(t)
  BY <1>1 DEF Receive, FindToClose, ReadEvents, Judge, SweepUserLimit
<1>2. CASE StopStep(t)
  BY <1>2 DEF StopStep, NextVictim, KillVictim, CloseVictim
<1>3. CASE StartStep(t)
  BY <1>3
  DEF StartStep, LeaveAlone, AwaitStart, AwaitOver, AwaitFails, TakeExisting, RestartExisting,
      StartAnew, SetupFails, EnforceUserLimit, JudgeOther, StopAboveLimit, Spawn, Ready, StartFails
<1>4. QED
  BY <1>1, <1>2, <1>3 DEF ServerStep

\* Only these steps of a call touch an entry.
LEMMA EntryStays ==
  ASSUME NEW t \in Servers, Receive(t) \/ ServerStep(t), ~TakeExisting(t), ~PutEntry(t), ~Spawn(t),
         ~Ready(t), ~StartFails(t), ~ReadEvents(t), ~KillVictim(t), ~CloseVictim(t)
  PROVE  entry' = entry
<1>1. CASE Receive(t) \/ FindToClose(t) \/ Judge(t) \/ SweepUserLimit(t)
  BY <1>1 DEF Receive, FindToClose, Judge, SweepUserLimit
<1>2. CASE StopStep(t)
  BY <1>2 DEF StopStep, NextVictim, RemoveVictim
<1>3. CASE StartStep(t)
  BY <1>3
  DEF StartStep, LeaveAlone, AwaitStart, AwaitOver, AwaitFails, RestartExisting,
      StartAnew, SetupFails, EnforceUserLimit, JudgeOther, StopAboveLimit
<1>4. QED
  BY <1>1, <1>2, <1>3 DEF ServerStep

\* The fields of the entries keep their types.
LEMMA EntryTypeStep ==
  ASSUME ShapeInv, Next
  PROVE  entry' \in [Entries -> EntryRecord]
<1> USE DEF ShapeInv, TypeOK
<1>1. ASSUME NEW e \in Entries, NEW r \in EntryRecord, entry' = [entry EXCEPT ![e] = r]
      PROVE  entry' \in [Entries -> EntryRecord]
  BY <1>1
<1>2. ASSUME NEW t \in Servers, Receive(t) \/ ServerStep(t)
      PROVE  entry' \in [Entries -> EntryRecord]
  <2> USE DEF CallShape, Place, Stopping, At
  <2>1. CASE TakeExisting(t)
    <3>1. Found(t) \in Entries
      BY <2>1, FoundType DEF TakeExisting, Decided, Alive
    <3>2. entry' = [entry EXCEPT ![Found(t)] = [entry[Found(t)] EXCEPT
                       !.prewarm = entry[Found(t)].prewarm /\ call[t].prewarm, !.idle = 0]]
      BY <2>1 DEF TakeExisting
    <3>3. (entry[Found(t)].prewarm /\ call[t].prewarm) \in BOOLEAN
      OBVIOUS
    <3>4. QED
      BY <1>1, <3>1, <3>2, <3>3, EntryFields
  <2>2. CASE PutEntry(t)
    <3>1. PICK e \in Entries : PutEntry(t)!2!(e)
      BY <2>2 DEF PutEntry
    <3>2. call[t].handle \in Handles /\ call[t].prewarm \in BOOLEAN
      BY <2>2 DEF PutEntry, CallRecord
    <3>3. [Unused EXCEPT !.handle = call[t].handle] \in EntryRecord
      BY <3>2, RestTypes DEF EntryRecord
    <3>4. [Unused EXCEPT !.handle = call[t].handle, !.status = "starting",
                         !.prewarm = call[t].prewarm]
            = [[[Unused EXCEPT !.handle = call[t].handle] EXCEPT !.status = "starting"]
                 EXCEPT !.prewarm = call[t].prewarm]
      OBVIOUS
    <3>5. QED
      BY <1>1, <3>1, <3>2, <3>3, <3>4, FieldTypes
  <2>3. CASE Spawn(t) \/ Ready(t) \/ StartFails(t)
    <3>1. call[t].own \in Entries
      BY <2>3 DEF Spawn, Ready, StartFails
    <3>2. \/ entry' = [entry EXCEPT ![call[t].own] = [entry[call[t].own] EXCEPT !.alive = TRUE]]
          \/ entry' = [entry EXCEPT ![call[t].own] =
                         [entry[call[t].own] EXCEPT !.status = "running", !.idle = 0]]
          \/ entry' = [entry EXCEPT ![call[t].own] = [entry[call[t].own] EXCEPT !.status = "error"]]
      BY <2>3 DEF Spawn, Ready, StartFails
    <3>3. QED
      BY <1>1, <3>1, <3>2, EntryFields, FieldTypes
  <2>4. CASE ReadEvents(t)
    BY <2>4, FieldTypes DEF ReadEvents
  <2>5. CASE KillVictim(t) \/ CloseVictim(t)
    <3>1. call[t].victim \in Entries
      BY <2>5 DEF KillVictim, CloseVictim
    <3>2. \/ entry' = [entry EXCEPT ![call[t].victim] =
                         [entry[call[t].victim] EXCEPT !.alive = FALSE]]
          \/ \E s \in {"error", "closed"} :
               entry' = [entry EXCEPT ![call[t].victim] =
                          [entry[call[t].victim] EXCEPT !.status = s, !.turn = FALSE, !.idle = 0]]
      BY <2>5 DEF KillVictim, CloseVictim
    <3>3. QED
      BY <1>1, <3>1, <3>2, EntryFields, FieldTypes
  <2>6. QED
    BY <1>2, <2>1, <2>2, <2>3, <2>4, <2>5, EntryStays
<1>3. ASSUME NEW e \in Entries, TurnStarts(e) \/ TurnEnds(e)
      PROVE  entry' \in [Entries -> EntryRecord]
  <2>1. \/ entry' = [entry EXCEPT ![e] =
                       [entry[e] EXCEPT !.turn = TRUE, !.prewarm = FALSE, !.idle = 0]]
        \/ entry' = [entry EXCEPT ![e] = [entry[e] EXCEPT !.turn = FALSE, !.idle = 0]]
    BY <1>3 DEF TurnStarts, TurnEnds
  <2>2. QED
    BY <1>1, <2>1, EntryFields
<1>4. ASSUME NEW e \in Entries, TimePasses(e)
      PROVE  entry' \in [Entries -> EntryRecord]
  <2>1. \/ /\ entry[e].idle < 3
           /\ entry' = [entry EXCEPT ![e] = [entry[e] EXCEPT !.idle = @ + 1]]
        \/ entry' = [entry EXCEPT ![e] = [entry[e] EXCEPT !.late = TRUE]]
    BY <1>4 DEF TimePasses
  <2>2. QED
    BY <1>1, <2>1, FieldTypes
<1>5. ASSUME NEW e \in Entries, ProcessDies(e)
      PROVE  entry' \in [Entries -> EntryRecord]
  <2>1. \E s \in {"exited", entry[e].status} :
          entry' = [entry EXCEPT ![e] =
                     [entry[e] EXCEPT !.alive = FALSE, !.status = s, !.idle = 0]]
    BY <1>5 DEF ProcessDies
  <2>2. QED
    BY <1>1, <2>1, EntryFields
<1>6. QED
  BY <1>2, <1>3, <1>4, <1>5 DEF Next

\* A step of a call leaves it with what its place needs.
LEMMA CallShapeStep ==
  ASSUME ShapeInv, NEW t \in Servers, Receive(t) \/ ServerStep(t)
  PROVE  call' \in [Servers -> CallRecord] /\ CallShape(t)'
<1> USE NoneIsNoEntry, FoundType, FinishShape
    DEF ShapeInv, TypeOK, CallShape, Place, Stopping, Free, At, CallRecord, Places
<1>1. CASE Receive(t)
  BY <1>1, ReceiveMoves
<1>2. CASE LeaveAlone(t) \/ AwaitFails(t) \/ TakeExisting(t) \/ SetupFails(t) \/ Ready(t)
           \/ ReadEvents(t)
  BY <1>2 DEF LeaveAlone, AwaitFails, TakeExisting, SetupFails, Ready, ReadEvents
<1>3. CASE AwaitStart(t)
  BY <1>3 DEF AwaitStart, Found, Starting, Move
<1>4. CASE AwaitOver(t)
  BY <1>4 DEF AwaitOver, Move
<1>5. CASE RestartExisting(t)
  BY <1>5 DEF RestartExisting, Decided, Found, Alive, Move
<1>6. CASE StartAnew(t)
  BY <1>6 DEF StartAnew, Decided, Move
<1>7. CASE PutEntry(t)
  <2>1. PICK e \in Entries : PutEntry(t)!2!(e)
    BY <1>7 DEF PutEntry
  <2>2. QED
    BY <1>7, <2>1 DEF PutEntry, Move
<1>8. CASE EnforceUserLimit(t)
  BY <1>8 DEF EnforceUserLimit, Move
<1>9. CASE JudgeOther(t)
  <2>1. PICK e \in call[t].todo : JudgeOther(t)!2!(e)
    BY <1>9 DEF JudgeOther
  <2>2. QED
    BY <1>9, <2>1 DEF JudgeOther, Move
<1>10. CASE StopAboveLimit(t)
  <2>1. PICK V \in Victims(call[t].kept \cup {call[t].own}, {call[t].own}) :
          Move(t, [pc |-> "stops", todo |-> V])
    BY <1>10 DEF StopAboveLimit
  <2>2. V \subseteq call[t].kept
    BY VictimsType
  <2>3. QED
    BY <1>10, <2>1, <2>2 DEF StopAboveLimit, Move
<1>11. CASE Spawn(t)
  BY <1>11 DEF Spawn, Move
<1>12. CASE StartFails(t)
  BY <1>12 DEF StartFails, Move
<1>13. CASE FindToClose(t)
  <2>1. CASE Found(t) = None
    BY <1>13, <2>1 DEF FindToClose
  <2>2. CASE Found(t) # None
    BY <1>13, <2>2 DEF FindToClose, Move
  <2>3. QED
    BY <2>1, <2>2
<1>14. CASE Judge(t)
  <2>1. PICK e \in call[t].todo : Judge(t)!2!(e)
    BY <1>14 DEF Judge
  <2>2. QED
    BY <1>14, <2>1 DEF Judge, Move
<1>15. CASE SweepUserLimit(t)
  <2>1. PICK V \in Victims(call[t].kept, {e \in call[t].kept : Keeps(t, e)}) :
          Move(t, [pc |-> "stops", todo |-> V, kept |-> {}])
    BY <1>15 DEF SweepUserLimit
  <2>2. V \subseteq call[t].kept
    BY VictimsType
  <2>3. QED
    BY <1>15, <2>1, <2>2 DEF SweepUserLimit, Move
<1>16. CASE NextVictim(t)
  <2>1. At(t, "stops")
    BY <1>16 DEF NextVictim
  <2>2. CASE call'[t] = Free
    BY <1>16, <2>2, NextVictimMoves
  <2>3. CASE call'[t] # Free
    <3>1. /\ call'[t].kind = call[t].kind /\ call'[t].handle = call[t].handle
          /\ call'[t].own = call[t].own
      BY <1>16, <2>3, NextVictimMoves
    <3>2. \/ /\ call'[t].pc = "kill" /\ call'[t].back = "stops" /\ call'[t].victim \in Entries
          \/ call[t].kind = "events" /\ call'[t].pc = "read"
          \/ call[t].kind = "start" /\ call'[t].pc = IF call[t].own = None THEN "lookup" ELSE "spawn"
      <4>1. call[t].todo \subseteq Entries
        OBVIOUS
      <4>2. CASE \E v \in call[t].todo : call'[t].pc = "kill" /\ call'[t].victim = v /\ call'[t].back = "stops"
        BY <4>1, <4>2
      <4>3. QED
        BY <1>16, <2>3, <4>2, NextVictimMoves
    <3>3. CallShape(t)'
      BY <2>1, <3>1, <3>2
    <3>4. QED
      BY <1>16, <3>3, NextVictimMoves
  <2>4. QED
    BY <2>2, <2>3
<1>17. CASE KillVictim(t)
  BY <1>17 DEF KillVictim, Move
<1>18. CASE CloseVictim(t)
  <2>1. CASE call[t].back = "failed"
    BY <1>18, <2>1 DEF CloseVictim
  <2>2. CASE call[t].back # "failed"
    BY <1>18, <2>2 DEF CloseVictim, Move
  <2>3. QED
    BY <2>1, <2>2
<1>19. CASE RemoveVictim(t)
  <2>1. CASE call[t].back = "free"
    BY <1>19, <2>1 DEF RemoveVictim
  <2>2. CASE call[t].back # "free"
    BY <1>19, <2>2 DEF RemoveVictim, Move
  <2>3. QED
    BY <2>1, <2>2
<1>20. QED
  BY <1>1, <1>2, <1>3, <1>4, <1>5, <1>6, <1>7, <1>8, <1>9, <1>10, <1>11, <1>12, <1>13, <1>14,
     <1>15, <1>16, <1>17, <1>18, <1>19
  DEF ServerStep, StartStep, StopStep


\* An entry is used once a start has created it.
Used(e) == entry[e].status # "unused"

\* The entries a call has in hand.
Known(t) == call[t].todo \cup call[t].kept \cup ({call[t].own, call[t].victim} \ {None})

KnownIsUsed == \A t \in Servers : \A e \in Registered \cup Known(t) : Used(e)

\* What a limit has condemned is not starting, and what a sweep or a start of
\* another conversation is about to kill is not, within its grace.
SparesStart(t) ==
  /\ Place(t) = "stops" => \A e \in call[t].todo : entry[e].status # "starting"
  /\ At(t, "kill") /\ call[t].back \in {"others", "stops", "verdicts"} =>
       entry[call[t].victim].status # "starting" \/ entry[call[t].victim].late

StartsInv == ShapeInv /\ KnownIsUsed /\ \A t \in Servers : SparesStart(t)

\* No start is under way at first.
LEMMA StartsInit == Init => StartsInv
BY ShapeInit DEF StartsInv, Init, KnownIsUsed, Known, Registered, Free, SparesStart, Place, Stopping, At

\* What a sweep knows of the entries is well typed.
LEMMA KnownType ==
  ASSUME ShapeInv
  PROVE  \A t \in Servers : Known(t) \subseteq Entries
BY DEF ShapeInv, TypeOK, Known, CallRecord

\* What is used stays used and under its handle; what has started, or is late,
\* is never again a start within its grace.
LEMMA Lifecycle ==
  ASSUME ShapeInv, Next, NEW e \in Entries, Used(e)
  PROVE  /\ Used(e)' /\ entry'[e].handle = entry[e].handle
         /\ entry[e].status # "starting" => entry'[e].status # "starting"
         /\ entry[e].late => entry'[e].late
<1> USE DEF ShapeInv, TypeOK, Used
<1>1. ASSUME NEW t \in Servers, Receive(t) \/ ServerStep(t)
      PROVE  /\ Used(e)' /\ entry'[e].handle = entry[e].handle
             /\ entry[e].status # "starting" => entry'[e].status # "starting"
             /\ entry[e].late => entry'[e].late
  <2>1. CASE TakeExisting(t)
    BY <2>1 DEF TakeExisting
  <2>2. CASE PutEntry(t)
    <3>1. PICK f \in Entries : PutEntry(t)!2!(f)
      BY <2>2 DEF PutEntry
    <3>2. f # e
      BY <3>1 DEF Unused
    <3>3. QED
      BY <3>1, <3>2
  <2>3. CASE Spawn(t) \/ Ready(t) \/ StartFails(t)
    <3>1. CASE Spawn(t)
      BY <3>1 DEF Spawn
    <3>2. CASE Ready(t)
      BY <3>2 DEF Ready
    <3>3. CASE StartFails(t)
      BY <3>3 DEF StartFails
    <3>4. QED
      BY <2>3, <3>1, <3>2, <3>3
  <2>4. CASE ReadEvents(t)
    BY <2>4 DEF ReadEvents
  <2>5. CASE KillVictim(t) \/ CloseVictim(t)
    <3>1. CASE KillVictim(t)
      BY <3>1 DEF KillVictim
    <3>2. CASE CloseVictim(t)
      BY <3>2 DEF CloseVictim
    <3>3. QED
      BY <2>5, <3>1, <3>2
  <2>6. QED
    BY <1>1, <2>1, <2>2, <2>3, <2>4, <2>5, EntryStays
<1>2. ASSUME NEW f \in Entries, TurnStarts(f) \/ TurnEnds(f) \/ TimePasses(f) \/ ProcessDies(f)
      PROVE  /\ Used(e)' /\ entry'[e].handle = entry[e].handle
             /\ entry[e].status # "starting" => entry'[e].status # "starting"
             /\ entry[e].late => entry'[e].late
  <2>1. CASE TurnStarts(f)
    BY <2>1 DEF TurnStarts
  <2>2. CASE TurnEnds(f)
    BY <2>2 DEF TurnEnds
  <2>3. CASE TimePasses(f)
    <3>1. \/ entry' = [entry EXCEPT ![f].idle = @ + 1]
          \/ entry' = [entry EXCEPT ![f].late = TRUE]
      BY <2>3 DEF TimePasses
    <3>2. CASE entry' = [entry EXCEPT ![f].idle = @ + 1]
      BY <3>2 DEF EntryRecord
    <3>3. CASE entry' = [entry EXCEPT ![f].late = TRUE]
      BY <3>3 DEF EntryRecord
    <3>4. QED
      BY <3>1, <3>2, <3>3
  <2>4. CASE ProcessDies(f)
    BY <2>4 DEF ProcessDies
  <2>5. QED
    BY <1>2, <2>1, <2>2, <2>3, <2>4
<1>3. QED
  BY <1>1, <1>2 DEF Next

\* A call learns of entries from the registry, and puts but its own there.
LEMMA KnownStep ==
  ASSUME ShapeInv, NEW t \in Servers, Receive(t) \/ ServerStep(t),
         NEW e \in Registered' \cup Known(t)'
  PROVE  e \in Registered \cup Known(t) \/ entry'[e].status = "starting"
<1> USE DEF ShapeInv, TypeOK, Known, Move, Finish, Free
<1>1. CASE PutEntry(t)
  <2>1. PICK f \in Entries : PutEntry(t)!2!(f)
    BY <1>1 DEF PutEntry
  <2>2. entry'[f].status = "starting"
    BY <2>1
  <2>3. e \in Registered' => e = f \/ e \in Registered
    BY <2>1 DEF Registered
  <2>4. e \in Known(t)' => e = f \/ e \in Known(t)
    BY <2>1
  <2>5. QED
    BY <2>2, <2>3, <2>4
<1>2. CASE RemoveVictim(t)
  <2>1. Registered' \subseteq Registered
    BY <1>2 DEF RemoveVictim, Registered
  <2>2. Known(t)' \subseteq Known(t)
    BY <1>2 DEF RemoveVictim
  <2>3. QED
    BY <2>1, <2>2
<1>3. CASE ~PutEntry(t) /\ ~RemoveVictim(t)
  <2>1. Registered' = Registered
    BY <1>3, RegistryStays DEF Registered
  <2>2. Known(t)' \subseteq Registered \cup Known(t)
    <3>1. CASE Receive(t)
      BY <3>1, ReceiveMoves
    <3>2. CASE JudgeOther(t)
      BY <3>2 DEF JudgeOther
    <3>3. CASE StopAboveLimit(t)
      BY <3>3, VictimsType DEF StopAboveLimit
    <3>4. CASE Judge(t)
      BY <3>4 DEF Judge
    <3>5. CASE SweepUserLimit(t)
      BY <3>5, VictimsType DEF SweepUserLimit
    <3>6. CASE NextVictim(t)
      BY <3>6, NextVictimMoves
    <3>7. CASE AwaitStart(t) \/ RestartExisting(t) \/ FindToClose(t)
      <4>1. Found(t) # None => Found(t) \in Registered
        BY <3>7 DEF AwaitStart, RestartExisting, FindToClose, Decided, CallShape, Place, Stopping,
                    At, Found, Registered
      <4>2. QED
        BY <3>7, <4>1 DEF AwaitStart, RestartExisting, FindToClose, Starting, Alive
    <3>8. CASE EnforceUserLimit(t) \/ StartFails(t)
      BY <3>8 DEF EnforceUserLimit, StartFails
    <3>9. CASE LeaveAlone(t) \/ AwaitOver(t) \/ AwaitFails(t) \/ TakeExisting(t) \/ StartAnew(t)
               \/ SetupFails(t) \/ Spawn(t) \/ Ready(t) \/ ReadEvents(t)
      BY <3>9 DEF LeaveAlone, AwaitOver, AwaitFails, TakeExisting, StartAnew, SetupFails, Spawn,
                  Ready, ReadEvents
    <3>10. CASE KillVictim(t) \/ CloseVictim(t)
      BY <3>10 DEF KillVictim, CloseVictim
    <3>11. QED
      BY <1>3, <3>1, <3>2, <3>3, <3>4, <3>5, <3>6, <3>7, <3>8, <3>9, <3>10
      DEF ServerStep, StartStep, StopStep
  <2>3. QED
    BY <2>1, <2>2
<1>4. QED
  BY <1>1, <1>2, <1>3

\* A sweep goes on knowing the last use of an entry that is used no more.
LEMMA KnownIsUsedStep ==
  ASSUME StartsInv, Next
  PROVE  KnownIsUsed'
<1> USE DEF StartsInv
<1>1. ASSUME NEW t \in Servers, Receive(t) \/ ServerStep(t), NEW u \in Servers,
             NEW e \in Registered' \cup Known(u)'
      PROVE  Used(e)'
  <2>1. e \in Registered \cup Known(t) \cup Known(u) \/ entry'[e].status = "starting"
    <3>1. CASE u = t
      BY <1>1, <3>1, KnownStep
    <3>2. CASE u # t
      <4>1. Known(u)' = Known(u)
        BY <1>1, <3>2, OthersStay DEF Known
      <4>2. e \in Registered' => e \in Registered \cup Known(t) \/ entry'[e].status = "starting"
        BY <1>1, KnownStep
      <4>3. QED
        BY <4>1, <4>2
    <3>3. QED
      BY <3>1, <3>2
  <2>2. CASE e \in Registered \cup Known(t) \cup Known(u)
    <3>1. Used(e)
      BY <2>2 DEF KnownIsUsed
    <3>2. e \in Entries
      BY <2>2, FoundType, KnownType
    <3>3. QED
      BY <3>1, <3>2, Lifecycle
  <2>3. CASE entry'[e].status = "starting"
    BY <2>3 DEF Used
  <2>4. QED
    BY <2>1, <2>2, <2>3
<1>2. ASSUME NEW f \in Entries, TurnStarts(f) \/ TurnEnds(f) \/ TimePasses(f) \/ ProcessDies(f),
             NEW u \in Servers, NEW e \in Registered' \cup Known(u)'
      PROVE  Used(e)'
  <2>1. UNCHANGED <<registry, call>>
    BY <1>2 DEF TurnStarts, TurnEnds, TimePasses, ProcessDies
  <2>2. e \in Registered \cup Known(u)
    BY <2>1 DEF Registered, Known
  <2>3. e \in Entries /\ Used(e)
    BY <2>2, FoundType, KnownType DEF KnownIsUsed
  <2>4. QED
    BY <2>3, Lifecycle
<1>3. QED
  BY <1>1, <1>2 DEF Next, KnownIsUsed

\* What a limit picks runs.
LEMMA VictimsRun ==
  ASSUME NEW mine, NEW keep, NEW V \in Victims(mine, keep)
  PROVE  \A e \in V : entry[e].status = "running" /\ ~entry[e].turn
BY DEF Victims

\* A start under way is condemned by nobody.
LEMMA SparesStartStep ==
  ASSUME StartsInv, Next, NEW u \in Servers
  PROVE  SparesStart(u)'
<1> USE DEF StartsInv, ShapeInv, TypeOK
<1>1. \A e \in Known(u) :
        /\ entry[e].status # "starting" => entry'[e].status # "starting"
        /\ entry[e].late => entry'[e].late
  BY Lifecycle, KnownType DEF KnownIsUsed
<1>2. /\ call[u].todo \subseteq Known(u)
      /\ At(u, "kill") => call[u].victim \in Known(u)
  BY NoneIsNoEntry DEF Known, At, CallShape, Stopping
<1>3. CASE call'[u] = call[u]
  <2>1. /\ Place(u)' = Place(u) /\ At(u, "kill")' = At(u, "kill")
    BY <1>3 DEF Place, Stopping, At
  <2>2. QED
    BY <1>1, <1>2, <1>3, <2>1 DEF SparesStart
<1>4. CASE Receive(u) \/ ServerStep(u)
  <2> USE DEF Move, Finish, Free, Place, Stopping, At, SparesStart
  <2>1. CASE Receive(u)
    BY <2>1, ReceiveMoves
  <2>2. CASE JudgeOther(u)
    BY <2>2 DEF JudgeOther, Replaced
  <2>3. CASE StopAboveLimit(u)
    BY <2>3, VictimsRun DEF StopAboveLimit
  <2>4. CASE Judge(u)
    BY <2>4 DEF Judge, Expired
  <2>5. CASE SweepUserLimit(u)
    BY <2>5, VictimsRun DEF SweepUserLimit
  <2>6. CASE NextVictim(u)
    <3>1. At(u, "stops") /\ entry' = entry
      BY <2>6 DEF NextVictim
    <3>2. call'[u].pc = "kill" => call'[u].victim \in call[u].todo /\ call'[u].back = "stops"
      BY <2>6, NextVictimMoves
    <3>3. Place(u)' = "stops" => call'[u].todo \subseteq call[u].todo
      BY <2>6, NextVictimMoves
    <3>4. QED
      BY <3>1, <3>2, <3>3
  <2>7. CASE KillVictim(u)
    BY <1>1, <1>2, <2>7 DEF KillVictim
  <2>8. CASE CloseVictim(u)
    <3>1. CASE call[u].back = "failed"
      BY <2>8, <3>1 DEF CloseVictim
    <3>2. CASE call[u].back # "failed"
      <4>1. /\ call'[u].pc = "remove" /\ call'[u].back = call[u].back
            /\ call'[u].todo = call[u].todo
        BY <2>8, <3>2 DEF CloseVictim
      <4>2. QED
        BY <1>1, <1>2, <2>8, <4>1 DEF CloseVictim
    <3>3. QED
      BY <3>1, <3>2
  <2>9. CASE RemoveVictim(u)
    BY <1>1, <1>2, <2>9 DEF RemoveVictim
  <2>10. CASE RestartExisting(u) \/ FindToClose(u) \/ StartFails(u)
    BY <2>10 DEF RestartExisting, FindToClose, StartFails
  <2>11. CASE PutEntry(u) \/ EnforceUserLimit(u) \/ LeaveAlone(u) \/ AwaitStart(u) \/ AwaitOver(u)
              \/ AwaitFails(u) \/ TakeExisting(u) \/ StartAnew(u) \/ SetupFails(u)
    <3>1. CASE PutEntry(u)
      BY <3>1 DEF PutEntry
    <3>2. CASE EnforceUserLimit(u)
      BY <3>2 DEF EnforceUserLimit
    <3>3. CASE LeaveAlone(u) \/ AwaitFails(u) \/ TakeExisting(u) \/ SetupFails(u)
      BY <3>3 DEF LeaveAlone, AwaitFails, TakeExisting, SetupFails
    <3>4. CASE AwaitStart(u) \/ AwaitOver(u) \/ StartAnew(u)
      BY <3>4 DEF AwaitStart, AwaitOver, StartAnew
    <3>5. QED
      BY <2>11, <3>1, <3>2, <3>3, <3>4
  <2>12. CASE Spawn(u) \/ Ready(u) \/ ReadEvents(u)
    BY <2>12 DEF Spawn, Ready, ReadEvents
  <2>13. QED
    BY <1>4, <2>1, <2>2, <2>3, <2>4, <2>5, <2>6, <2>7, <2>8, <2>9, <2>10, <2>11, <2>12
    DEF ServerStep, StartStep, StopStep
<1>5. ASSUME NEW t \in Servers, Receive(t) \/ ServerStep(t), t # u
      PROVE  call'[u] = call[u]
  BY <1>5, OthersStay
<1>6. ASSUME NEW f \in Entries, TurnStarts(f) \/ TurnEnds(f) \/ TimePasses(f) \/ ProcessDies(f)
      PROVE  call'[u] = call[u]
  BY <1>6 DEF TurnStarts, TurnEnds, TimePasses, ProcessDies
<1>7. QED
  BY <1>3, <1>4, <1>5, <1>6 DEF Next

\* Every step leaves the registry well typed.
LEMMA ShapeStep ==
  ASSUME ShapeInv, Next
  PROVE  ShapeInv'
<1>1. entry' \in [Entries -> EntryRecord]
  BY EntryTypeStep
<1>2. ASSUME NEW t \in Servers, Receive(t) \/ ServerStep(t)
      PROVE  /\ registry' \in [Handles -> Entries \cup {None}]
             /\ call' \in [Servers -> CallRecord]
             /\ \A u \in Servers : CallShape(u)'
  <2>1. registry' \in [Handles -> Entries \cup {None}]
    <3>1. CASE PutEntry(t)
      BY <3>1 DEF PutEntry, ShapeInv, TypeOK
    <3>2. CASE RemoveVictim(t)
      BY <3>2 DEF RemoveVictim, ShapeInv, TypeOK
    <3>3. QED
      BY <1>2, <3>1, <3>2, RegistryStays DEF ShapeInv, TypeOK
  <2>2. call' \in [Servers -> CallRecord] /\ CallShape(t)'
    BY <1>2, CallShapeStep
  <2>3. ASSUME NEW u \in Servers, u # t
        PROVE  CallShape(u)'
    <3>1. call'[u] = call[u] /\ CallShape(u)
      BY <1>2, <2>3, OthersStay DEF ShapeInv
    <3>2. QED
      BY <3>1 DEF CallShape, Place, Stopping
  <2>4. QED
    BY <2>1, <2>2, <2>3
<1>3. ASSUME NEW f \in Entries, TurnStarts(f) \/ TurnEnds(f) \/ TimePasses(f) \/ ProcessDies(f)
      PROVE  UNCHANGED <<registry, call>>
  BY <1>3 DEF TurnStarts, TurnEnds, TimePasses, ProcessDies
<1>4. CASE UNCHANGED <<registry, call>>
  BY <1>1, <1>4 DEF ShapeInv, TypeOK, CallShape, Place, Stopping
<1>5. QED
  BY <1>1, <1>2, <1>3, <1>4 DEF Next, ShapeInv, TypeOK

\* Every step spares the starts under way.
LEMMA StartsStep ==
  ASSUME StartsInv, [Next]_vars
  PROVE  StartsInv'
<1>1. CASE Next
  BY <1>1, ShapeStep, KnownIsUsedStep, SparesStartStep DEF StartsInv
<1>2. CASE UNCHANGED vars
  BY <1>2 DEF vars, StartsInv, ShapeInv, TypeOK, CallShape, KnownIsUsed, Known, Used, Registered,
              SparesStart, Place, Stopping, At
<1>3. QED
  BY <1>1, <1>2

\* A start under way is spared, however many calls overlap: the inductive invariant.
THEOREM StartsCorrect == Spec => []StartsInv
BY StartsInit, StartsStep, PTL DEF Spec

\* The registry, the entries and the calls keep their types, however many calls
\* are served at the same time.
THEOREM TypeCorrect == Spec => []TypeOK
<1>1. StartsInv => TypeOK
  BY DEF StartsInv, ShapeInv
<1>2. QED
  BY <1>1, StartsCorrect, PTL

\* However many calls are served at the same time, no sweep and no start of
\* another conversation stops a start within its grace.
THEOREM StartsAreSpared == Spec => SweepSparesStarts
<1>1. ASSUME StartsInv, [Next]_vars
      PROVE  [ \A t \in Servers :
                 LET c == call[t] IN
                 c.pc = "kill" /\ call'[t].pc = "close" /\ c.back \in {"others", "stops", "verdicts"}
                   => entry[c.victim].status # "starting" \/ entry[c.victim].late ]_vars
  BY <1>1 DEF StartsInv, SparesStart, At
<1>2. QED
  BY <1>1, StartsCorrect, PTL DEF Spec, SweepSparesStarts


-----------------------------------------------------------------------------
(* What holds when calls come one at a time *)

\* A call served by one thread is the only one.
Alone == \A t, u \in Servers : call[t].pc # "free" /\ call[u].pc # "free" => t = u

\* An entry is registered under its own handle.
UnderHandle == \A h \in Handles : registry[h] # None => entry[registry[h]].handle = h

\* A prompt makes a prewarmed process its user's.
TurnsAreUsers == \A e \in Entries : entry[e].turn => ~entry[e].prewarm

\* The call has put its entry and not spawned its process.
HasOwn(t) ==
  Place(t) \in {"limit", "others", "spawn"} \/ (Place(t) = "stops" /\ call[t].own # None)

\* The entry a start has put is registered until its process runs, and has no
\* process before; what it replaces has none.
OwnIsNew(t) ==
  LET c == call[t] IN
  /\ Place(t) \in {"verdicts", "lookup", "waiting", "again", "setup"} => c.own = None
  /\ HasOwn(t) => /\ registry[c.handle] = c.own
                  /\ entry[c.own].status = "starting"
                  /\ ~entry[c.own].alive
                  /\ entry[c.own].prewarm = c.prewarm
  /\ c.pc = "handshake" => registry[c.handle] = c.own
  /\ Place(t) = "setup" =>
       ~Alive(registry[c.handle]) \/ (Stopping(t) /\ c.victim = registry[c.handle])

\* A victim is registered and another entry than the call's own, and it has no
\* process once it is killed.
VictimIsRegistered(t) ==
  LET c == call[t] IN
  /\ Stopping(t) /\ c.back # "failed" =>
       c.victim \in Registered /\ (HasOwn(t) => c.victim # c.own)
  /\ c.pc \in {"close", "remove"} => ~entry[c.victim].alive

\* The victim of a stop under way.
Stopped(t) == IF Stopping(t) THEN {call[t].victim} ELSE {}

\* What a call still has to judge, to count or to stop is registered, and no
\* entry is both.
ListsAreRegistered(t) ==
  LET c == call[t] IN
  /\ Place(t) \in {"verdicts", "others", "stops"} =>
       c.todo \subseteq Registered \ (Stopped(t) \cup {c.own})
  /\ Place(t) \in {"verdicts", "others"} =>
       c.kept \subseteq Registered \ (Stopped(t) \cup {c.own} \cup c.todo)
  /\ \/ Place(t) \in {"lookup", "waiting", "again", "setup", "limit"}
     \/ Place(t) = "stops" /\ c.own = None
     => c.kept = {}

\* What a sweep or a limit has condemned is in no turn, an hour of silence
\* excepted, and is not the conversation the call reads.
UseIsSpared(t) ==
  LET c == call[t] IN
  /\ Place(t) = "stops" => \A e \in c.todo : ~entry[e].turn
  /\ c.pc = "kill" /\ c.back \in {"others", "stops", "verdicts"} =>
       ~(entry[c.victim].alive /\ entry[c.victim].turn) \/ entry[c.victim].idle = 3
  /\ Place(t) = "stops" /\ c.kind = "events" => \A e \in c.todo : entry[e].handle # c.handle
  /\ c.pc = "kill" /\ c.kind = "events" => entry[c.victim].handle # c.handle

\* A start has its user's processes before it, the one it stops included; from
\* the last of them on, a prewarm is the only one.
OthersAreListed(t) ==
  LET c == call[t] IN
  /\ Place(t) = "others" =>
       \A e \in Registered : Counts(e) => e \in {c.own} \cup Stopped(t) \cup c.todo \cup c.kept
  /\ HasOwn(t) /\ Place(t) # "limit" /\ c.prewarm =>
       \A e \in Registered \ {c.own} :
         entry[e].status = "running" /\ entry[e].prewarm =>
           Place(t) = "others" /\ e \in c.todo \cup Stopped(t)

\* A live process can be reached.
Reachable == \A e \in Entries : entry[e].alive => e \in Registered

SerialCall(t) ==
  /\ OwnIsNew(t) /\ VictimIsRegistered(t) /\ ListsAreRegistered(t)
  /\ UseIsSpared(t) /\ OthersAreListed(t)

SerialInv ==
  /\ StartsInv /\ UnderHandle /\ TurnsAreUsers /\ Alone /\ Reachable
  /\ \A t \in Servers : SerialCall(t)

\* The registry starts with no call under way.
LEMMA SerialInit == Init => SerialInv
<1> SUFFICES ASSUME Init PROVE SerialInv
  OBVIOUS
<1>1. StartsInv
  BY StartsInit
<1>2. /\ \A h \in Handles : registry[h] = None
      /\ \A e \in Entries : entry[e] = Unused
      /\ \A t \in Servers : call[t] = Free
  BY DEF Init
<1>3. UnderHandle /\ TurnsAreUsers /\ Alone /\ Reachable
  BY <1>2 DEF UnderHandle, TurnsAreUsers, Alone, Reachable, Unused, Free
<1>4. \A t \in Servers : SerialCall(t)
  BY <1>2 DEF SerialCall, OwnIsNew, VictimIsRegistered, ListsAreRegistered, UseIsSpared,
              OthersAreListed, HasOwn, Stopped, Place, Stopping, Free
<1>5. QED
  BY <1>1, <1>3, <1>4 DEF SerialInv

\* What is registered is under its own handle only.
LEMMA RegisteredIs ==
  ASSUME ShapeInv, UnderHandle
  PROVE  /\ \A e \in Registered : /\ e \in Entries /\ entry[e].handle \in Handles
                                  /\ registry[entry[e].handle] = e
         /\ \A h \in Handles : registry[h] # None =>
              registry[h] \in Registered /\ entry[registry[h]].handle = h
<1>1. ASSUME NEW e \in Registered
      PROVE  /\ e \in Entries /\ entry[e].handle \in Handles
             /\ registry[entry[e].handle] = e
  <2>1. PICK h \in Handles : registry[h] = e /\ e # None
    BY DEF Registered
  <2>2. entry[e].handle = h
    BY <2>1 DEF UnderHandle
  <2>3. QED
    BY <2>1, <2>2, FoundType
<1>2. \A h \in Handles : registry[h] # None =>
        registry[h] \in Registered /\ entry[registry[h]].handle = h
  BY DEF Registered, UnderHandle
<1>3. QED
  BY <1>1, <1>2

\* A start replaces what was under its handle.
LEMMA PutRegisters ==
  ASSUME ShapeInv, NEW t \in Servers, NEW f \in Entries, call[t].handle \in Handles,
         registry' = [registry EXCEPT ![call[t].handle] = f]
  PROVE  /\ Registered' \subseteq Registered \cup {f} /\ f \in Registered'
         /\ Registered \ {Found(t)} \subseteq Registered'
BY NoneIsNoEntry DEF ShapeInv, TypeOK, Registered, Found

\* A stop removes its victim, and nothing else.
LEMMA RemoveUnregisters ==
  ASSUME ShapeInv, UnderHandle, NEW v \in Registered,
         registry' = [registry EXCEPT ![entry[v].handle] = None]
  PROVE  Registered' = Registered \ {v}
<1>1. entry[v].handle \in Handles /\ registry[entry[v].handle] = v
  BY RegisteredIs
<1>2. \A h \in Handles : registry'[h] = IF h = entry[v].handle THEN None ELSE registry[h]
  BY DEF ShapeInv, TypeOK
<1>3. \A h \in Handles : registry[h] = v => h = entry[v].handle
  BY NoneIsNoEntry, FoundType DEF UnderHandle
<1>4. QED
  BY <1>1, <1>2, <1>3 DEF Registered

\* A step of a call is one of a call under way.
LEMMA ServerBusy ==
  ASSUME NEW t \in Servers, ServerStep(t)
  PROVE  call[t].pc # "free"
<1> USE DEF At
<1>1. CASE StartStep(t)
  BY <1>1 DEF StartStep, LeaveAlone, AwaitStart, AwaitOver, AwaitFails, TakeExisting,
              RestartExisting, StartAnew, Decided, SetupFails, PutEntry, EnforceUserLimit, JudgeOther,
              StopAboveLimit, Spawn, Ready, StartFails
<1>2. CASE StopStep(t)
  BY <1>2 DEF StopStep, NextVictim, KillVictim, CloseVictim, RemoveVictim
<1>3. CASE FindToClose(t) \/ ReadEvents(t) \/ Judge(t) \/ SweepUserLimit(t)
  BY <1>3 DEF FindToClose, ReadEvents, Judge, SweepUserLimit
<1>4. QED
  BY <1>1, <1>2, <1>3 DEF ServerStep

\* The entries keep their handles in the registry.
LEMMA UnderHandleStep ==
  ASSUME StartsInv, UnderHandle, Next
  PROVE  UnderHandle'
<1> USE DEF StartsInv, ShapeInv, TypeOK
<1>1. ASSUME NEW h \in Handles, registry'[h] # None, registry'[h] = registry[h]
      PROVE  entry'[registry'[h]].handle = h
  <2>1. registry[h] \in Entries /\ registry[h] \in Registered
    BY <1>1 DEF Registered
  <2>2. Used(registry[h])
    BY <2>1, SMT DEF KnownIsUsed, Servers
  <2>3. QED
    BY <1>1, <2>1, <2>2, Lifecycle DEF UnderHandle
<1>2. ASSUME NEW t \in Servers, PutEntry(t)
      PROVE  UnderHandle'
  <2>1. PICK f \in Entries : PutEntry(t)!2!(f)
    BY <1>2 DEF PutEntry
  <2>2. call[t].handle \in Handles
    BY <1>2 DEF PutEntry, CallShape, Place, Stopping, At
  <2>3. registry'[call[t].handle] = f /\ entry'[f].handle = call[t].handle
    BY <2>1, <2>2 DEF Unused
  <2>4. \A h \in Handles \ {call[t].handle} : registry'[h] = registry[h]
    BY <2>1
  <2>5. QED
    BY <1>1, <2>3, <2>4 DEF UnderHandle
<1>3. ASSUME NEW t \in Servers, RemoveVictim(t)
      PROVE  UnderHandle'
  <2>1. \A h \in Handles : registry'[h] = registry[h] \/ registry'[h] = None
    BY <1>3 DEF RemoveVictim
  <2>2. QED
    BY <1>1, <2>1 DEF UnderHandle
<1>4. CASE registry' = registry
  BY <1>1, <1>4 DEF UnderHandle
<1>5. ASSUME NEW f \in Entries, TurnStarts(f) \/ TurnEnds(f) \/ TimePasses(f) \/ ProcessDies(f)
      PROVE  registry' = registry
  BY <1>5 DEF TurnStarts, TurnEnds, TimePasses, ProcessDies
<1>6. QED
  BY <1>2, <1>3, <1>4, <1>5, RegistryStays DEF Next

\* A process in a turn is no prewarm.
LEMMA TurnsAreUsersStep ==
  ASSUME ShapeInv, TurnsAreUsers, Next
  PROVE  TurnsAreUsers'
<1> USE DEF ShapeInv, TypeOK, TurnsAreUsers
<1>1. ASSUME NEW t \in Servers, Receive(t) \/ ServerStep(t)
      PROVE  TurnsAreUsers'
  <2> USE DEF CallShape, Place, Stopping, At
  <2>1. CASE TakeExisting(t)
    <3>1. Found(t) \in Entries
      BY <2>1, FoundType DEF TakeExisting, Decided, Alive
    <3>2. \A e \in Entries : /\ entry'[e].turn = entry[e].turn
                             /\ entry'[e].prewarm => entry[e].prewarm
      BY <2>1, <3>1 DEF TakeExisting, EntryRecord
    <3>3. QED
      BY <3>2
  <2>2. CASE PutEntry(t)
    <3>1. PICK f \in Entries : PutEntry(t)!2!(f)
      BY <2>2 DEF PutEntry
    <3>2. ~entry'[f].turn /\ \A e \in Entries \ {f} : entry'[e] = entry[e]
      BY <3>1 DEF Unused
    <3>3. QED
      BY <3>2
  <2>3. CASE Spawn(t) \/ Ready(t) \/ StartFails(t)
    <3>1. \A e \in Entries : entry'[e].turn = entry[e].turn /\ entry'[e].prewarm = entry[e].prewarm
      <4>1. CASE Spawn(t)
        BY <4>1 DEF Spawn, EntryRecord
      <4>2. CASE Ready(t)
        BY <4>2 DEF Ready, EntryRecord
      <4>3. CASE StartFails(t)
        BY <4>3 DEF StartFails, EntryRecord
      <4>4. QED
        BY <2>3, <4>1, <4>2, <4>3
    <3>2. QED
      BY <3>1
  <2>4. CASE ReadEvents(t)
    BY <2>4 DEF ReadEvents
  <2>5. CASE KillVictim(t)
    BY <2>5 DEF KillVictim
  <2>6. CASE CloseVictim(t)
    BY <2>6 DEF CloseVictim
  <2>7. QED
    BY <1>1, <2>1, <2>2, <2>3, <2>4, <2>5, <2>6, EntryStays
<1>2. ASSUME NEW f \in Entries, TurnStarts(f) \/ TurnEnds(f) \/ TimePasses(f) \/ ProcessDies(f)
      PROVE  TurnsAreUsers'
  <2>1. CASE TurnStarts(f)
    BY <2>1 DEF TurnStarts
  <2>2. CASE TurnEnds(f)
    BY <2>2 DEF TurnEnds
  <2>3. CASE TimePasses(f)
    <3>1. \A e \in Entries : entry'[e].turn = entry[e].turn /\ entry'[e].prewarm = entry[e].prewarm
      BY <2>3 DEF TimePasses, EntryRecord
    <3>2. QED
      BY <3>1
  <2>4. CASE ProcessDies(f)
    BY <2>4 DEF ProcessDies
  <2>5. QED
    BY <1>2, <2>1, <2>2, <2>3, <2>4
<1>3. QED
  BY <1>1, <1>2 DEF Next

\* A call that is over has nothing left to go wrong.
LEMMA FreeIsSerial ==
  ASSUME NEW t \in Servers, call'[t] = Free
  PROVE  SerialCall(t)'
BY DEF SerialCall, OwnIsNew, VictimIsRegistered, ListsAreRegistered, UseIsSpared,
       OthersAreListed, HasOwn, Stopped, Place, Stopping, Free

\* A step of a call finds the others free, and leaves them so.
LEMMA StepIsAlone ==
  ASSUME SerialInv, ~Overlap, NEW t \in Servers, Receive(t) \/ ServerStep(t)
  PROVE  \A u \in Servers \ {t} : call'[u] = Free
<1>1. \A u \in Servers \ {t} : call[u].pc = "free"
  BY ServerBusy DEF Receive, Idle, SerialInv, Alone
<1>2. \A u \in Servers \ {t} : call[u] = Free
  BY <1>1 DEF SerialInv, StartsInv, ShapeInv, CallShape
<1>3. QED
  BY <1>2, OthersStay DEF SerialInv, StartsInv

\* A process is spawned for a registered entry only, and only what has no
\* process is replaced or removed.
LEMMA ReachableStep ==
  ASSUME SerialInv, Next
  PROVE  Reachable'
<1> USE DEF SerialInv, StartsInv, ShapeInv, TypeOK
<1>1. ASSUME NEW t \in Servers, Receive(t) \/ ServerStep(t)
      PROVE  Reachable'
  <2> USE DEF CallShape, Place, Stopping, At
  <2>1. CASE PutEntry(t)
    <3>1. PICK f \in Entries : PutEntry(t)!2!(f)
      BY <2>1 DEF PutEntry
    <3>2. call[t].handle \in Handles /\ ~Alive(Found(t))
      BY <2>1 DEF PutEntry, SerialCall, OwnIsNew, Found
    <3>3. Registered \ {Found(t)} \subseteq Registered'
      BY <3>1, <3>2, PutRegisters
    <3>4. ~entry'[f].alive /\ \A e \in Entries \ {f} : entry'[e] = entry[e]
      BY <3>1 DEF Unused
    <3>5. \A e \in Entries : entry[e].alive => e # Found(t)
      BY <3>2, NoneIsNoEntry DEF Alive
    <3>6. QED
      BY <3>3, <3>4, <3>5 DEF Reachable
  <2>2. CASE RemoveVictim(t)
    <3>1. call[t].victim \in Registered /\ ~entry[call[t].victim].alive
      BY <2>2 DEF RemoveVictim, SerialCall, VictimIsRegistered
    <3>2. Registered' = Registered \ {call[t].victim}
      BY <2>2, <3>1, RemoveUnregisters DEF RemoveVictim
    <3>3. QED
      BY <2>2, <3>1, <3>2 DEF RemoveVictim, Reachable
  <2>3. CASE ~PutEntry(t) /\ ~RemoveVictim(t)
    <3>1. Registered' = Registered
      BY <1>1, <2>3, RegistryStays DEF Registered
    <3>2. CASE Spawn(t)
      <4>1. registry[call[t].handle] = call[t].own /\ call[t].handle \in Handles
        BY <3>2 DEF Spawn, SerialCall, OwnIsNew, HasOwn
      <4>2. call[t].own \in Registered
        BY <3>2, <4>1, NoneIsNoEntry DEF Spawn, Registered
      <4>3. \A e \in Entries \ {call[t].own} : entry'[e] = entry[e]
        BY <3>2 DEF Spawn
      <4>4. QED
        BY <3>1, <4>2, <4>3 DEF Reachable
    <3>3. CASE ~Spawn(t)
      <4>1. \A e \in Entries : entry'[e].alive => entry[e].alive
        <5>1. CASE TakeExisting(t)
          <6>1. Found(t) \in Entries
            BY <5>1, FoundType DEF TakeExisting, Decided, Alive
          <6>2. QED
            BY <5>1, <6>1 DEF TakeExisting, EntryRecord
        <5>2. CASE Ready(t)
          BY <5>2 DEF Ready
        <5>3. CASE StartFails(t)
          BY <5>3 DEF StartFails
        <5>4. CASE ReadEvents(t)
          BY <5>4 DEF ReadEvents
        <5>5. CASE KillVictim(t)
          BY <5>5 DEF KillVictim
        <5>6. CASE CloseVictim(t)
          BY <5>6 DEF CloseVictim
        <5>7. QED
          BY <1>1, <2>3, <3>3, <5>1, <5>2, <5>3, <5>4, <5>5, <5>6, EntryStays
      <4>2. QED
        BY <3>1, <4>1 DEF Reachable
    <3>4. QED
      BY <3>2, <3>3
  <2>4. QED
    BY <2>1, <2>2, <2>3
<1>2. ASSUME NEW f \in Entries, TurnStarts(f) \/ TurnEnds(f) \/ TimePasses(f) \/ ProcessDies(f)
      PROVE  Reachable'
  <2>1. Registered' = Registered
    BY <1>2 DEF TurnStarts, TurnEnds, TimePasses, ProcessDies, Registered
  <2>2. \A e \in Entries : entry'[e].alive => entry[e].alive
    <3>1. CASE TurnStarts(f)
      BY <3>1 DEF TurnStarts
    <3>2. CASE TurnEnds(f)
      BY <3>2 DEF TurnEnds
    <3>3. CASE TimePasses(f)
      BY <3>3 DEF TimePasses, EntryRecord
    <3>4. CASE ProcessDies(f)
      BY <3>4 DEF ProcessDies
    <3>5. QED
      BY <1>2, <3>1, <3>2, <3>3, <3>4
  <2>3. QED
    BY <2>1, <2>2 DEF Reachable
<1>3. QED
  BY <1>1, <1>2 DEF Next

\* A start that looks for what runs, waits for it or decides on it.
LEMMA LookupKeepsSerial ==
  ASSUME SerialInv, NEW t \in Servers,
         \/ AwaitStart(t) \/ AwaitOver(t) \/ RestartExisting(t) \/ StartAnew(t) \/ FindToClose(t)
  PROVE  SerialCall(t)'
<1> USE DEF SerialInv, StartsInv, ShapeInv, TypeOK, CallShape, Place, Stopping, At
<1>1. Registered' = Registered /\ entry' = entry /\ registry' = registry
  BY DEF AwaitStart, AwaitOver, RestartExisting, StartAnew, FindToClose, Registered
<1>2. SerialCall(t)
  OBVIOUS
<1>3. call[t].handle \in Handles /\ (Found(t) # None => Found(t) \in Registered)
  BY DEF AwaitStart, AwaitOver, RestartExisting, StartAnew, FindToClose, Decided, Found, Registered
<1>4. CASE AwaitStart(t) \/ AwaitOver(t)
  <2>1. /\ call[t].pc \in {"lookup", "waiting"} /\ call'[t].pc \in {"waiting", "again"}
        /\ call'[t].own = call[t].own /\ call'[t].kept = call[t].kept
        /\ call'[t].kind = call[t].kind
    BY <1>4 DEF AwaitStart, AwaitOver, Move, Free
  <2>2. call'[t].own = None /\ call'[t].kept = {}
    BY <1>2, <2>1 DEF SerialCall, OwnIsNew, ListsAreRegistered
  <2>3. OwnIsNew(t)' /\ VictimIsRegistered(t)' /\ ListsAreRegistered(t)'
    BY <2>1, <2>2 DEF OwnIsNew, VictimIsRegistered, ListsAreRegistered, HasOwn
  <2>4. UseIsSpared(t)' /\ OthersAreListed(t)'
    BY <2>1 DEF UseIsSpared, OthersAreListed, HasOwn
  <2>5. QED
    BY <2>3, <2>4 DEF SerialCall
<1>5. CASE RestartExisting(t)
  <2>1. /\ call[t].pc \in {"lookup", "again"} /\ call'[t].pc = "kill" /\ call'[t].back = "setup"
        /\ call'[t].own = call[t].own /\ call'[t].kept = call[t].kept
        /\ call'[t].kind = call[t].kind /\ call'[t].handle = call[t].handle
        /\ call'[t].victim = Found(t)
    BY <1>5 DEF RestartExisting, Decided, Move, Free
  <2>2. call'[t].own = None /\ call'[t].kept = {} /\ call'[t].kind = "start"
    BY <1>2, <2>1 DEF SerialCall, OwnIsNew, ListsAreRegistered
  <2>3. OwnIsNew(t)'
    BY <1>1, <2>1, <2>2 DEF OwnIsNew, HasOwn, Found
  <2>4. VictimIsRegistered(t)'
    BY <1>1, <1>3, <1>5, <2>1 DEF VictimIsRegistered, HasOwn, RestartExisting, Alive
  <2>5. ListsAreRegistered(t)'
    BY <2>1, <2>2 DEF ListsAreRegistered
  <2>6. UseIsSpared(t)' /\ OthersAreListed(t)'
    BY <2>1, <2>2 DEF UseIsSpared, OthersAreListed, HasOwn
  <2>7. QED
    BY <2>3, <2>4, <2>5, <2>6 DEF SerialCall
<1>6. CASE StartAnew(t)
  <2>1. /\ call[t].pc \in {"lookup", "again"} /\ call'[t].pc = "setup"
        /\ call'[t].own = call[t].own /\ call'[t].kept = call[t].kept
        /\ call'[t].handle = call[t].handle
    BY <1>6 DEF StartAnew, Decided, Move, Free
  <2>2. call'[t].own = None /\ call'[t].kept = {}
    BY <1>2, <2>1 DEF SerialCall, OwnIsNew, ListsAreRegistered
  <2>3. OwnIsNew(t)'
    BY <1>1, <1>6, <2>1, <2>2 DEF OwnIsNew, HasOwn, Found, StartAnew, Alive
  <2>4. VictimIsRegistered(t)' /\ ListsAreRegistered(t)'
    BY <2>1, <2>2 DEF VictimIsRegistered, ListsAreRegistered
  <2>5. UseIsSpared(t)' /\ OthersAreListed(t)'
    BY <2>1 DEF UseIsSpared, OthersAreListed, HasOwn
  <2>6. QED
    BY <2>3, <2>4, <2>5 DEF SerialCall
<1>7. CASE FindToClose(t)
  <2>1. CASE Found(t) = None
    BY <1>7, <2>1, FreeIsSerial DEF FindToClose, Finish
  <2>2. CASE Found(t) # None
    <3>1. /\ call'[t].pc = "kill" /\ call'[t].back = "free" /\ call'[t].kind = "close"
          /\ call'[t].victim = Found(t)
      BY <1>7, <2>2 DEF FindToClose, Move, Free
    <3>2. OwnIsNew(t)' /\ ListsAreRegistered(t)'
      BY <3>1 DEF OwnIsNew, ListsAreRegistered, HasOwn
    <3>3. VictimIsRegistered(t)'
      BY <1>1, <1>3, <2>2, <3>1 DEF VictimIsRegistered, HasOwn
    <3>4. UseIsSpared(t)' /\ OthersAreListed(t)'
      BY <3>1 DEF UseIsSpared, OthersAreListed, HasOwn
    <3>5. QED
      BY <3>2, <3>3, <3>4 DEF SerialCall
  <2>3. QED
    BY <2>1, <2>2
<1>8. QED
  BY <1>4, <1>5, <1>6, <1>7

\* A start that puts its entry, judges the others and spawns its process.
LEMMA PutKeepsSerial ==
  ASSUME SerialInv, NEW t \in Servers,
         PutEntry(t) \/ EnforceUserLimit(t) \/ Spawn(t) \/ StartFails(t)
  PROVE  SerialCall(t)'
<1> USE DEF SerialInv, StartsInv, ShapeInv, TypeOK, CallShape, Place, Stopping, At
<1>1. SerialCall(t)
  OBVIOUS
<1>2. CASE PutEntry(t)
  <2>1. PICK f \in Entries : PutEntry(t)!2!(f)
    BY <1>2 DEF PutEntry
  <2>2. /\ call[t].pc = "setup" /\ call'[t].pc = "limit"
        /\ call'[t].own = f /\ call'[t].kept = call[t].kept
        /\ call'[t].handle = call[t].handle /\ call'[t].prewarm = call[t].prewarm
        /\ call[t].handle \in Handles
    BY <1>2, <2>1 DEF PutEntry, Move, Free
  <2>3. call'[t].kept = {}
    BY <1>1, <2>2 DEF SerialCall, ListsAreRegistered
  <2>4. registry'[call[t].handle] = f
    BY <2>1, <2>2
  <2>5. /\ entry'[f].status = "starting" /\ ~entry'[f].alive
        /\ entry'[f].prewarm = call[t].prewarm
    BY <2>1 DEF Unused
  <2>6. OwnIsNew(t)'
    BY <2>2, <2>4, <2>5 DEF OwnIsNew, HasOwn
  <2>7. VictimIsRegistered(t)' /\ ListsAreRegistered(t)'
    BY <2>2, <2>3 DEF VictimIsRegistered, ListsAreRegistered
  <2>8. UseIsSpared(t)' /\ OthersAreListed(t)'
    BY <2>2 DEF UseIsSpared, OthersAreListed, HasOwn
  <2>9. QED
    BY <2>6, <2>7, <2>8 DEF SerialCall
<1>3. CASE EnforceUserLimit(t)
  <2>1. /\ call[t].pc = "limit" /\ call[t].kept = {} /\ Counts(call[t].own)
    BY <1>1, <1>3 DEF EnforceUserLimit, SerialCall, OwnIsNew, HasOwn, ListsAreRegistered, Counts
  <2>2. Registered' = Registered /\ entry' = entry /\ registry' = registry
    BY <1>3 DEF EnforceUserLimit, Registered
  <2>3. /\ call'[t].pc = "others" /\ call'[t].own = call[t].own /\ call'[t].kept = {}
        /\ call'[t].todo = Registered \ {call[t].own}
        /\ call'[t].handle = call[t].handle /\ call'[t].prewarm = call[t].prewarm
    BY <1>3, <2>1 DEF EnforceUserLimit, Move, Free
  <2>4. OwnIsNew(t)'
    BY <1>1, <2>1, <2>2, <2>3 DEF SerialCall, OwnIsNew, HasOwn
  <2>5. VictimIsRegistered(t)' /\ ListsAreRegistered(t)'
    BY <2>2, <2>3 DEF VictimIsRegistered, ListsAreRegistered, Stopped
  <2>6. UseIsSpared(t)'
    BY <2>3 DEF UseIsSpared
  <2>7. OthersAreListed(t)'
    BY <2>2, <2>3 DEF OthersAreListed, HasOwn, Counts
  <2>8. QED
    BY <2>4, <2>5, <2>6, <2>7 DEF SerialCall
<1>4. CASE Spawn(t)
  <2>1. /\ call[t].pc = "spawn" /\ call'[t].pc = "handshake" /\ call'[t].own = call[t].own
        /\ call'[t].handle = call[t].handle /\ registry' = registry
    BY <1>4 DEF Spawn, Move, Free
  <2>2. OwnIsNew(t)'
    BY <1>1, <2>1 DEF SerialCall, OwnIsNew, HasOwn
  <2>3. VictimIsRegistered(t)' /\ ListsAreRegistered(t)'
    BY <2>1 DEF VictimIsRegistered, ListsAreRegistered
  <2>4. UseIsSpared(t)' /\ OthersAreListed(t)'
    BY <2>1 DEF UseIsSpared, OthersAreListed, HasOwn
  <2>5. QED
    BY <2>2, <2>3, <2>4 DEF SerialCall
<1>5. CASE StartFails(t)
  <2>1. call'[t].pc = "kill" /\ call'[t].back = "failed" /\ call'[t].kind = "start"
    BY <1>5 DEF StartFails, Move, Free
  <2>2. OwnIsNew(t)' /\ VictimIsRegistered(t)' /\ ListsAreRegistered(t)'
    BY <2>1 DEF OwnIsNew, VictimIsRegistered, ListsAreRegistered, HasOwn
  <2>3. UseIsSpared(t)' /\ OthersAreListed(t)'
    BY <2>1 DEF UseIsSpared, OthersAreListed, HasOwn
  <2>4. QED
    BY <2>2, <2>3 DEF SerialCall
<1>6. QED
  BY <1>2, <1>3, <1>4, <1>5

\* A start or a sweep that judges an entry, or picks what the limit stops.
LEMMA JudgeKeepsSerial ==
  ASSUME SerialInv, NEW t \in Servers,
         JudgeOther(t) \/ StopAboveLimit(t) \/ Judge(t) \/ SweepUserLimit(t)
  PROVE  SerialCall(t)'
<1> USE DEF SerialInv, StartsInv, ShapeInv, TypeOK, CallShape, Place, Stopping, At
<1>1. SerialCall(t)
  OBVIOUS
<1>2. Registered' = Registered /\ entry' = entry /\ registry' = registry
  BY DEF JudgeOther, StopAboveLimit, Judge, SweepUserLimit, Registered
<1>3. CASE JudgeOther(t)
  <2>1. PICK e \in call[t].todo : JudgeOther(t)!2!(e)
    BY <1>3 DEF JudgeOther
  <2>2. /\ call[t].pc = "others" /\ HasOwn(t) /\ Stopped(t) = {}
        /\ call[t].kind = "start" /\ call'[t].kind = "start"
        /\ call'[t].own = call[t].own /\ call'[t].handle = call[t].handle
        /\ call'[t].prewarm = call[t].prewarm /\ call'[t].todo = call[t].todo \ {e}
    BY <1>3, <2>1 DEF JudgeOther, Move, Free, HasOwn, Stopped
  <2>3. /\ call[t].todo \subseteq Registered \ {call[t].own}
        /\ call[t].kept \subseteq Registered \ ({call[t].own} \cup call[t].todo)
    BY <1>1, <2>2 DEF SerialCall, ListsAreRegistered
  <2>4. \/ /\ call'[t].pc = "kill" /\ call'[t].back = "others" /\ call'[t].victim = e
           /\ call'[t].kept = call[t].kept
           /\ Replaced(call[t].own, e)
        \/ /\ call'[t].pc = "others"
           /\ call'[t].kept = call[t].kept \cup (IF Counts(e) THEN {e} ELSE {})
           /\ ~(Counts(e) /\ Replaced(call[t].own, e))
    <3>1. CASE Counts(e) /\ Replaced(call[t].own, e)
      BY <1>3, <2>1, <3>1 DEF Move, Free, JudgeOther
    <3>2. CASE ~(Counts(e) /\ Replaced(call[t].own, e))
      BY <1>3, <2>1, <3>2 DEF Move, Free, JudgeOther
    <3>3. QED
      BY <3>1, <3>2
  <2>5. OwnIsNew(t)'
    BY <1>1, <1>2, <2>2, <2>4 DEF SerialCall, OwnIsNew, HasOwn
  <2>6. VictimIsRegistered(t)'
    BY <1>2, <2>2, <2>3, <2>4 DEF VictimIsRegistered
  <2>7. ListsAreRegistered(t)'
    BY <1>2, <2>2, <2>3, <2>4 DEF ListsAreRegistered, Stopped
  <2>8. UseIsSpared(t)'
    <3>1. CASE call'[t].pc = "kill"
      <4>1. e \in Entries /\ entry[e].prewarm /\ ~entry[e].turn
        <5>1. e \in Entries
          BY <2>3, FoundType
        <5>2. entry[e].prewarm
          BY <2>4, <3>1 DEF Replaced
        <5>3. QED
          BY <5>1, <5>2 DEF TurnsAreUsers
      <4>2. QED
        BY <1>2, <2>2, <2>4, <3>1, <4>1 DEF UseIsSpared
    <3>2. CASE call'[t].pc = "others"
      BY <2>2, <3>2 DEF UseIsSpared
    <3>3. QED
      BY <2>4, <3>1, <3>2
  <2>9. OthersAreListed(t)'
    <3>1. \A x \in Registered : Counts(x) => x \in {call[t].own} \cup call[t].todo \cup call[t].kept
      BY <1>1, <2>2 DEF SerialCall, OthersAreListed
    <3>2. call[t].prewarm => \A x \in Registered \ {call[t].own} :
             entry[x].status = "running" /\ entry[x].prewarm => x \in call[t].todo
      BY <1>1, <2>2 DEF SerialCall, OthersAreListed
    <3>3. call[t].prewarm /\ entry[e].status = "running" /\ entry[e].prewarm
             => call'[t].pc = "kill"
      BY <1>1, <2>2, <2>4 DEF Replaced, Counts, SerialCall, OwnIsNew
    <3>4. CASE call'[t].pc = "kill"
      <4>1. Stopped(t)' = {e} /\ Place(t)' = "others" /\ Counts(e)' = Counts(e)
        BY <1>2, <2>4, <3>4 DEF Stopped, Counts
      <4>2. \A x : Counts(x)' = Counts(x)
        BY <1>2 DEF Counts
      <4>3. call'[t].kept = call[t].kept
        BY <2>4, <3>4
      <4>4. QED
        BY <1>2, <2>2, <3>1, <3>2, <4>1, <4>2, <4>3 DEF OthersAreListed
    <3>5. CASE call'[t].pc = "others"
      <4>1. Stopped(t)' = {} /\ Place(t)' = "others"
        BY <3>5 DEF Stopped
      <4>2. \A x : Counts(x)' = Counts(x)
        BY <1>2 DEF Counts
      <4>3. Counts(e) => e \in call'[t].kept
        BY <2>4, <3>5
      <4>4. call[t].kept \subseteq call'[t].kept
        BY <2>4, <3>5
      <4>5. QED
        BY <1>2, <2>2, <3>1, <3>2, <3>3, <3>5, <4>1, <4>2, <4>3, <4>4 DEF OthersAreListed
    <3>6. QED
      BY <2>4, <3>4, <3>5
  <2>10. QED
    BY <2>5, <2>6, <2>7, <2>8, <2>9 DEF SerialCall
<1>4. CASE StopAboveLimit(t)
  <2>1. PICK V \in Victims(call[t].kept \cup {call[t].own}, {call[t].own}) :
          Move(t, [pc |-> "stops", todo |-> V])
    BY <1>4 DEF StopAboveLimit
  <2>2. /\ call[t].pc = "others" /\ call[t].todo = {} /\ HasOwn(t) /\ Stopped(t) = {}
        /\ call[t].own \in Entries
        /\ call'[t].pc = "stops" /\ call'[t].todo = V /\ call'[t].own = call[t].own
        /\ call'[t].kind = "start"
        /\ call'[t].handle = call[t].handle /\ call'[t].prewarm = call[t].prewarm
    BY <1>4, <2>1 DEF StopAboveLimit, Move, Free, HasOwn, Stopped
  <2>3. V \subseteq Registered \ {call[t].own}
    <3>1. V \subseteq call[t].kept
      BY <2>1, VictimsType
    <3>2. QED
      BY <1>1, <2>2, <3>1 DEF SerialCall, ListsAreRegistered
  <2>4. OwnIsNew(t)'
    BY <1>1, <1>2, <2>2 DEF SerialCall, OwnIsNew, HasOwn
  <2>5. VictimIsRegistered(t)' /\ ListsAreRegistered(t)'
    BY <1>2, <2>2, <2>3, NoneIsNoEntry DEF VictimIsRegistered, ListsAreRegistered, Stopped
  <2>6. UseIsSpared(t)'
    BY <1>2, <2>1, <2>2, VictimsRun DEF UseIsSpared
  <2>7. OthersAreListed(t)'
    BY <1>1, <1>2, <2>2 DEF SerialCall, OthersAreListed, HasOwn
  <2>8. QED
    BY <2>4, <2>5, <2>6, <2>7 DEF SerialCall
<1>5. CASE Judge(t)
  <2>1. PICK e \in call[t].todo : Judge(t)!2!(e)
    BY <1>5 DEF Judge
  <2>2. /\ call[t].pc = "verdicts" /\ Stopped(t) = {}
        /\ call'[t].kind = call[t].kind /\ call'[t].own = call[t].own
        /\ call'[t].handle = call[t].handle /\ call'[t].todo = call[t].todo \ {e}
    BY <1>5, <2>1 DEF Judge, Move, Free, Stopped
  <2>3. /\ call[t].own = None /\ call[t].todo \subseteq Registered
        /\ call[t].kept \subseteq Registered \ call[t].todo
    BY <1>1, <2>2 DEF SerialCall, OwnIsNew, ListsAreRegistered
  <2>4. \/ /\ call'[t].pc = "kill" /\ call'[t].back = "verdicts" /\ call'[t].victim = e
           /\ call'[t].kept = call[t].kept
           /\ ~Keeps(t, e) /\ Expired(e)
        \/ /\ call'[t].pc = "verdicts"
           /\ call'[t].kept = call[t].kept \cup (IF Counts(e) THEN {e} ELSE {})
    <3>1. CASE ~Keeps(t, e) /\ Expired(e)
      BY <1>5, <2>1, <3>1 DEF Move, Free, Judge
    <3>2. CASE ~(~Keeps(t, e) /\ Expired(e))
      BY <1>5, <2>1, <3>2 DEF Move, Free, Judge
    <3>3. QED
      BY <3>1, <3>2
  <2>5. OwnIsNew(t)'
    BY <2>2, <2>3, <2>4 DEF OwnIsNew, HasOwn
  <2>6. VictimIsRegistered(t)'
    BY <1>2, <2>2, <2>3, <2>4 DEF VictimIsRegistered, HasOwn
  <2>7. ListsAreRegistered(t)'
    BY <1>2, <2>2, <2>3, <2>4, NoneIsNoEntry, FoundType DEF ListsAreRegistered, Stopped
  <2>8. UseIsSpared(t)'
    <3>1. CASE call'[t].pc = "kill"
      <4>1. e \in Entries /\ entry[e].idle \in 0..3
        BY <2>3, FoundType DEF EntryRecord
      <4>2. ~(entry[e].alive /\ entry[e].turn) \/ entry[e].idle = 3
        BY <2>4, <3>1, <4>1 DEF Expired, TurnsAreUsers
      <4>3. call[t].kind = "events" => entry[e].handle # call[t].handle
        BY <2>4, <3>1 DEF Keeps
      <4>4. QED
        BY <1>2, <2>2, <2>4, <3>1, <4>2, <4>3 DEF UseIsSpared
    <3>2. CASE call'[t].pc = "verdicts"
      BY <3>2 DEF UseIsSpared
    <3>3. QED
      BY <2>4, <3>1, <3>2
  <2>9. OthersAreListed(t)'
    BY <2>2, <2>4 DEF OthersAreListed, HasOwn
  <2>10. QED
    BY <2>5, <2>6, <2>7, <2>8, <2>9 DEF SerialCall
<1>6. CASE SweepUserLimit(t)
  <2> DEFINE keep == {e \in call[t].kept : Keeps(t, e)}
  <2>1. PICK V \in Victims(call[t].kept, keep) :
          Move(t, [pc |-> "stops", todo |-> V, kept |-> {}])
    BY <1>6 DEF SweepUserLimit
  <2>2. /\ call[t].pc = "verdicts" /\ Stopped(t) = {}
        /\ call'[t].pc = "stops" /\ call'[t].todo = V /\ call'[t].kept = {}
        /\ call'[t].kind = call[t].kind /\ call'[t].own = call[t].own
        /\ call'[t].handle = call[t].handle
    BY <1>6, <2>1 DEF SweepUserLimit, Move, Free, Stopped
  <2>3. call[t].own = None /\ call[t].kept \subseteq Registered
    BY <1>1, <2>2 DEF SerialCall, OwnIsNew, ListsAreRegistered
  <2>4. V \subseteq call[t].kept \ keep
    BY <2>1, VictimsType
  <2>5. OwnIsNew(t)' /\ VictimIsRegistered(t)'
    BY <2>2, <2>3 DEF OwnIsNew, VictimIsRegistered, HasOwn
  <2>6. ListsAreRegistered(t)'
    BY <1>2, <2>2, <2>3, <2>4, NoneIsNoEntry, FoundType DEF ListsAreRegistered, Stopped
  <2>7. UseIsSpared(t)'
    BY <1>2, <2>1, <2>2, <2>4, VictimsRun DEF UseIsSpared, Keeps
  <2>8. OthersAreListed(t)'
    BY <2>2, <2>3 DEF OthersAreListed, HasOwn
  <2>9. QED
    BY <2>5, <2>6, <2>7, <2>8 DEF SerialCall
<1>7. QED
  BY <1>3, <1>4, <1>5, <1>6

\* A call that stops its victims one after the other.
LEMMA StopKeepsSerial ==
  ASSUME SerialInv, NEW t \in Servers, StopStep(t)
  PROVE  SerialCall(t)'
<1> USE DEF SerialInv, StartsInv, ShapeInv, TypeOK, CallShape, Place, Stopping, At
<1>1. SerialCall(t)
  OBVIOUS
<1>2. CASE NextVictim(t)
  <2>1. call[t].pc = "stops" /\ Registered' = Registered /\ entry' = entry /\ registry' = registry
    BY <1>2 DEF NextVictim, Registered
  <2>2. CASE call'[t] = Free
    BY <2>2, FreeIsSerial
  <2>3. CASE call'[t] # Free
    <3>1. /\ call'[t].kind = call[t].kind /\ call'[t].handle = call[t].handle
          /\ call'[t].prewarm = call[t].prewarm /\ call'[t].own = call[t].own
          /\ call'[t].kept = call[t].kept
      BY <1>2, <2>3, NextVictimMoves
    <3>2. CASE \E v \in call[t].todo :
                  /\ call'[t].pc = "kill" /\ call'[t].victim = v
                  /\ call'[t].todo = call[t].todo \ {v} /\ call'[t].back = "stops"
      <4>1. PICK v \in call[t].todo :
                  /\ call'[t].pc = "kill" /\ call'[t].victim = v
                  /\ call'[t].todo = call[t].todo \ {v} /\ call'[t].back = "stops"
        BY <3>2
      <4>2. HasOwn(t)' = HasOwn(t) /\ Place(t)' = Place(t) /\ Stopped(t)' = {v} /\ Stopped(t) = {}
        BY <2>1, <3>1, <4>1 DEF HasOwn, Stopped
      <4>3. call[t].todo \subseteq Registered \ {call[t].own}
        BY <1>1, <2>1 DEF SerialCall, ListsAreRegistered
      <4>4. OwnIsNew(t)'
        BY <1>1, <2>1, <3>1, <4>1, <4>2 DEF SerialCall, OwnIsNew
      <4>5. VictimIsRegistered(t)'
        BY <2>1, <3>1, <4>1, <4>3 DEF VictimIsRegistered
      <4>6. ListsAreRegistered(t)'
        BY <1>1, <2>1, <3>1, <4>1, <4>2, <4>3 DEF SerialCall, ListsAreRegistered
      <4>7. UseIsSpared(t)'
        BY <1>1, <2>1, <3>1, <4>1 DEF SerialCall, UseIsSpared
      <4>8. OthersAreListed(t)'
        BY <1>1, <2>1, <3>1, <4>1, <4>2 DEF SerialCall, OthersAreListed
      <4>9. QED
        BY <4>4, <4>5, <4>6, <4>7, <4>8 DEF SerialCall
    <3>3. CASE call[t].kind = "events" /\ call'[t].pc = "read"
      BY <3>3 DEF SerialCall, OwnIsNew, VictimIsRegistered, ListsAreRegistered, UseIsSpared,
                  OthersAreListed, HasOwn
    <3>4. CASE /\ call[t].kind = "start"
               /\ call'[t].pc = IF call[t].own = None THEN "lookup" ELSE "spawn"
      <4>1. call[t].own = None => call'[t].kept = {}
        BY <1>1, <2>1, <3>1 DEF SerialCall, ListsAreRegistered
      <4>2. call[t].own # None => HasOwn(t)
        BY <2>1 DEF HasOwn
      <4>3. OwnIsNew(t)'
        BY <1>1, <2>1, <3>1, <3>4, <4>2 DEF SerialCall, OwnIsNew, HasOwn
      <4>4. VictimIsRegistered(t)' /\ ListsAreRegistered(t)'
        BY <3>4, <4>1, <3>1 DEF VictimIsRegistered, ListsAreRegistered
      <4>5. UseIsSpared(t)'
        BY <3>4 DEF UseIsSpared
      <4>6. OthersAreListed(t)'
        BY <1>1, <2>1, <3>1, <3>4, <4>2 DEF SerialCall, OthersAreListed, HasOwn
      <4>7. QED
        BY <4>3, <4>4, <4>5, <4>6 DEF SerialCall
    <3>5. QED
      BY <1>2, <2>3, <3>2, <3>3, <3>4, NextVictimMoves
  <2>4. QED
    BY <2>2, <2>3
<1>3. CASE KillVictim(t) \/ (CloseVictim(t) /\ call[t].back # "failed")
  <2> DEFINE v == call[t].victim
  <2>1. /\ v \in Entries
        /\ call[t].pc \in {"kill", "close"} /\ call'[t].pc \in {"close", "remove"}
        /\ Registered' = Registered /\ registry' = registry
    <3>1. CASE KillVictim(t)
      BY <3>1 DEF KillVictim, Move, Free, Registered
    <3>2. CASE CloseVictim(t) /\ call[t].back # "failed"
      BY <3>2 DEF CloseVictim, Move, Free, Registered
    <3>3. QED
      BY <1>3, <3>1, <3>2
  <2>2. /\ call'[t].kind = call[t].kind /\ call'[t].handle = call[t].handle
        /\ call'[t].prewarm = call[t].prewarm /\ call'[t].own = call[t].own
        /\ call'[t].kept = call[t].kept /\ call'[t].todo = call[t].todo
        /\ call'[t].victim = v /\ call'[t].back = call[t].back
    <3>1. CASE KillVictim(t)
      BY <3>1 DEF KillVictim, Move, Free
    <3>2. CASE CloseVictim(t) /\ call[t].back # "failed"
      BY <3>2 DEF CloseVictim, Move, Free
    <3>3. QED
      BY <1>3, <3>1, <3>2
  <2>3. /\ Place(t)' = Place(t) /\ HasOwn(t)' = HasOwn(t)
        /\ Stopped(t) = {v} /\ Stopped(t)' = {v}
    BY <2>1, <2>2 DEF HasOwn, Stopped
  <2>4. \A e \in Entries \ {v} : entry'[e] = entry[e]
    BY <1>3, <2>1 DEF KillVictim, CloseVictim
  <2>5. /\ entry'[v].handle = entry[v].handle /\ ~entry'[v].alive
        /\ entry'[v].prewarm = entry[v].prewarm /\ (entry'[v].turn => entry[v].turn)
        /\ entry'[v].status \in {"starting", "running"} => entry'[v].status = entry[v].status
    <3>1. CASE KillVictim(t)
      BY <2>1, <3>1 DEF KillVictim, EntryRecord
    <3>2. CASE CloseVictim(t) /\ call[t].back # "failed"
      <4>1. ~entry[v].alive
        BY <1>1, <3>2 DEF CloseVictim, SerialCall, VictimIsRegistered
      <4>2. entry'[v].status \in {"error", "closed"}
        BY <2>1, <3>2 DEF CloseVictim, EntryRecord
      <4>3. /\ entry'[v].handle = entry[v].handle /\ entry'[v].alive = entry[v].alive
            /\ entry'[v].prewarm = entry[v].prewarm /\ ~entry'[v].turn
        BY <2>1, <3>2 DEF CloseVictim, EntryRecord
      <4>4. QED
        BY <4>1, <4>2, <4>3
    <3>3. QED
      BY <1>3, <3>1, <3>2
  <2>6. OwnIsNew(t)'
    <3>1. HasOwn(t) => call[t].own # v /\ call[t].own \in Entries
      <4>1. HasOwn(t) => call[t].own \in Entries
        BY <2>1, NoneIsNoEntry DEF HasOwn, CallRecord
      <4>2. HasOwn(t) => call[t].own # v
        BY <1>1, <2>1 DEF HasOwn, SerialCall, VictimIsRegistered
      <4>3. QED
        BY <4>1, <4>2
    <3>2. Place(t) = "setup" =>
            ~Alive(registry[call[t].handle])' \/ v = registry'[call[t].handle]
      <4>1. Place(t) = "setup" =>
              /\ registry[call[t].handle] \in Entries \cup {None}
              /\ ~Alive(registry[call[t].handle]) \/ v = registry[call[t].handle]
        BY <1>1 DEF SerialCall, OwnIsNew
      <4>2. QED
        BY <2>1, <2>2, <2>4, <4>1 DEF Alive
    <3>3. QED
      BY <1>1, <2>1, <2>2, <2>3, <2>4, <3>1, <3>2 DEF SerialCall, OwnIsNew, Alive
  <2>7. VictimIsRegistered(t)'
    BY <1>1, <2>1, <2>2, <2>3, <2>5 DEF SerialCall, VictimIsRegistered
  <2>8. ListsAreRegistered(t)'
    BY <1>1, <2>1, <2>2, <2>3 DEF SerialCall, ListsAreRegistered
  <2>9. UseIsSpared(t)'
    <3>1. \A e \in Entries : /\ entry'[e].turn => entry[e].turn
                             /\ entry'[e].handle = entry[e].handle
      BY <2>4, <2>5
    <3>2. call[t].todo \subseteq Entries
      BY DEF CallRecord
    <3>3. QED
      BY <1>1, <2>1, <2>2, <2>3, <3>1, <3>2 DEF SerialCall, UseIsSpared
  <2>10. OthersAreListed(t)'
    <3>1. \A e \in Entries :
            /\ Counts(e)' => Counts(e)
            /\ entry'[e].status = "running" /\ entry'[e].prewarm =>
                 entry[e].status = "running" /\ entry[e].prewarm
      BY <2>4, <2>5 DEF Counts
    <3>2. QED
      BY <1>1, <2>1, <2>2, <2>3, <3>1, FoundType DEF SerialCall, OthersAreListed
  <2>11. QED
    BY <2>6, <2>7, <2>8, <2>9, <2>10 DEF SerialCall
<1>4. CASE CloseVictim(t) /\ call[t].back = "failed"
  BY <1>4, FreeIsSerial DEF CloseVictim, Finish
<1>5. CASE RemoveVictim(t) /\ call[t].back = "free"
  BY <1>5, FreeIsSerial DEF RemoveVictim, Finish
<1>6. CASE RemoveVictim(t) /\ call[t].back # "free"
  <2> DEFINE v == call[t].victim
  <2>1. /\ call[t].pc = "remove" /\ call[t].back # "failed" /\ Stopped(t) = {v}
        /\ v \in Registered /\ (HasOwn(t) => v # call[t].own)
    BY <1>1, <1>6 DEF RemoveVictim, SerialCall, VictimIsRegistered, Stopped
  <2>2. /\ call'[t].kind = call[t].kind /\ call'[t].handle = call[t].handle
        /\ call'[t].prewarm = call[t].prewarm /\ call'[t].own = call[t].own
        /\ call'[t].kept = call[t].kept /\ call'[t].todo = call[t].todo
        /\ call'[t].pc = call[t].back /\ entry' = entry
    BY <1>6 DEF RemoveVictim, Move, Free
  <2>3. call[t].back \in {"setup", "others", "stops", "verdicts"}
    BY <1>6, <2>1 DEF CallRecord
  <2>4. /\ Place(t)' = Place(t) /\ HasOwn(t)' = HasOwn(t) /\ ~Stopping(t)'
        /\ Stopped(t)' = {}
    BY <2>1, <2>2, <2>3 DEF HasOwn, Stopped
  <2>5. Registered' = Registered \ {v}
    BY <1>6, <2>1, RemoveUnregisters DEF RemoveVictim
  <2>6. /\ entry[v].handle \in Handles /\ registry[entry[v].handle] = v
        /\ \A h \in Handles : registry'[h] = IF h = entry[v].handle THEN None ELSE registry[h]
    BY <1>6, <2>1, RegisteredIs DEF RemoveVictim
  <2>7. OwnIsNew(t)'
    <3>1. Place(t) \in {"verdicts", "lookup", "waiting", "again", "setup"} => call'[t].own = None
      BY <1>1, <2>2 DEF SerialCall, OwnIsNew
    <3>2. HasOwn(t) => /\ registry'[call[t].handle] = call[t].own
                       /\ entry[call[t].own].status = "starting"
                       /\ ~entry[call[t].own].alive
                       /\ entry[call[t].own].prewarm = call[t].prewarm
      <4>1. HasOwn(t) => registry[call[t].handle] = call[t].own /\ call[t].own # v
        BY <1>1, <2>1 DEF SerialCall, OwnIsNew
      <4>2. HasOwn(t) => registry'[call[t].handle] = registry[call[t].handle]
        BY <1>6, <2>6, <4>1 DEF RemoveVictim
      <4>3. QED
        BY <1>1, <4>1, <4>2 DEF SerialCall, OwnIsNew
    <3>3. Place(t) = "setup" => ~Alive(registry[call[t].handle])'
      <4>1. SUFFICES ASSUME Place(t) = "setup" PROVE ~Alive(registry[call[t].handle])'
        OBVIOUS
      <4>2. call[t].handle \in Handles
        BY <4>1
      <4>3. CASE v = registry[call[t].handle]
        <5>1. entry[v].handle = call[t].handle
          BY <4>2, <4>3, <2>1, NoneIsNoEntry, FoundType DEF UnderHandle
        <5>2. QED
          BY <4>2, <5>1, <2>2, <2>6 DEF Alive
      <4>4. CASE ~Alive(registry[call[t].handle])
        BY <2>2, <2>6, <4>2, <4>4 DEF Alive
      <4>5. QED
        BY <1>1, <4>1, <4>3, <4>4 DEF SerialCall, OwnIsNew
    <3>4. QED
      BY <2>2, <2>3, <2>4, <3>1, <3>2, <3>3 DEF OwnIsNew
  <2>8. VictimIsRegistered(t)'
    BY <2>2, <2>3 DEF VictimIsRegistered
  <2>9. ListsAreRegistered(t)'
    BY <1>1, <2>1, <2>2, <2>4, <2>5 DEF SerialCall, ListsAreRegistered
  <2>10. UseIsSpared(t)'
    BY <1>1, <2>2, <2>3, <2>4 DEF SerialCall, UseIsSpared
  <2>11. OthersAreListed(t)'
    <3>1. \A e : Counts(e)' = Counts(e)
      BY <2>2 DEF Counts
    <3>2. QED
      BY <1>1, <2>1, <2>2, <2>4, <2>5, <3>1 DEF SerialCall, OthersAreListed
  <2>12. QED
    BY <2>7, <2>8, <2>9, <2>10, <2>11 DEF SerialCall
<1>7. QED
  BY <1>2, <1>3, <1>4, <1>5, <1>6 DEF StopStep

\* A step of a call leaves it fit to go on.
LEMMA ServerKeepsSerial ==
  ASSUME SerialInv, NEW t \in Servers, Receive(t) \/ ServerStep(t)
  PROVE  SerialCall(t)'
<1>1. CASE Receive(t)
  <2>1. Registered' = Registered
    BY <1>1 DEF Receive, Registered
  <2>2. /\ call'[t].pc \in {"verdicts", "lookup", "read", "find"}
        /\ call'[t].todo \in {Registered, {}} /\ call'[t].kept = {} /\ call'[t].own = None
    BY <1>1, ReceiveMoves DEF SerialInv, StartsInv
  <2>3. None \notin Registered
    BY DEF Registered
  <2>4. QED
    BY <2>1, <2>2, <2>3
    DEF SerialCall, OwnIsNew, VictimIsRegistered, ListsAreRegistered, UseIsSpared,
        OthersAreListed, HasOwn, Stopped, Place, Stopping
<1>2. CASE \/ AwaitStart(t) \/ AwaitOver(t) \/ RestartExisting(t) \/ StartAnew(t) \/ FindToClose(t)
  BY <1>2, LookupKeepsSerial
<1>3. CASE PutEntry(t) \/ EnforceUserLimit(t) \/ Spawn(t) \/ StartFails(t)
  BY <1>3, PutKeepsSerial
<1>4. CASE JudgeOther(t) \/ StopAboveLimit(t) \/ Judge(t) \/ SweepUserLimit(t)
  BY <1>4, JudgeKeepsSerial
<1>5. CASE StopStep(t)
  BY <1>5, StopKeepsSerial
<1>6. CASE LeaveAlone(t) \/ AwaitFails(t) \/ TakeExisting(t) \/ SetupFails(t) \/ Ready(t)
           \/ ReadEvents(t)
  <2>1. call'[t] = Free
    BY <1>6 DEF LeaveAlone, AwaitFails, TakeExisting, SetupFails, Ready, ReadEvents, Finish,
                SerialInv, StartsInv, ShapeInv, TypeOK
  <2>2. QED
    BY <2>1, FreeIsSerial
<1>7. QED
  BY <1>1, <1>2, <1>3, <1>4, <1>5, <1>6 DEF ServerStep, StartStep

\* What happens to an entry during a call: a turn ends, or a process dies.
LEMMA EntryKeepsSerial ==
  ASSUME SerialInv, ~Overlap, NEW t \in Servers, NEW f \in Entries,
         TurnStarts(f) \/ TurnEnds(f) \/ TimePasses(f) \/ ProcessDies(f)
  PROVE  SerialCall(t)'
<1> USE DEF SerialInv, StartsInv, ShapeInv, TypeOK, CallShape, Place, Stopping, At
<1>1. SerialCall(t)
  OBVIOUS
<1>2. call' = call /\ registry' = registry /\ Registered' = Registered
  BY DEF TurnStarts, TurnEnds, TimePasses, ProcessDies, Registered
<1>3. CASE TurnStarts(f) \/ TimePasses(f)
  <2>1. call[t] = Free
    BY <1>3 DEF TurnStarts, TimePasses, Idle
  <2>2. QED
    BY <1>2, <2>1, FreeIsSerial
<1>4. CASE TurnEnds(f) \/ ProcessDies(f)
  <2>1. \A e \in Entries \ {f} : entry'[e] = entry[e]
    BY <1>4 DEF TurnEnds, ProcessDies
  <2>2. /\ entry[f].alive /\ entry'[f].handle = entry[f].handle
        /\ entry'[f].prewarm = entry[f].prewarm /\ (entry'[f].turn => entry[f].turn)
        /\ (entry'[f].alive => entry[f].alive)
        /\ entry'[f].status \in {"starting", "running"} => entry'[f].status = entry[f].status
        /\ ~(entry'[f].alive /\ entry'[f].turn)
    <3>1. CASE TurnEnds(f)
      BY <3>1 DEF TurnEnds, EntryRecord
    <3>2. CASE ProcessDies(f)
      BY <3>2 DEF ProcessDies, EntryRecord
    <3>3. QED
      BY <1>4, <3>1, <3>2
  <2>3. HasOwn(t)' = HasOwn(t) /\ Place(t)' = Place(t) /\ Stopped(t)' = Stopped(t)
    BY <1>2 DEF HasOwn, Stopped
  <2>4. OwnIsNew(t)'
    <3>1. HasOwn(t) => call[t].own # f /\ call[t].own \in Entries
      <4>1. HasOwn(t) => call[t].own \in Entries
        BY NoneIsNoEntry DEF HasOwn, CallRecord
      <4>2. HasOwn(t) => ~entry[call[t].own].alive
        BY <1>1 DEF SerialCall, OwnIsNew
      <4>3. QED
        BY <2>2, <4>1, <4>2
    <3>2. Place(t) = "setup" => registry[call[t].handle] \in Entries \cup {None}
      OBVIOUS
    <3>3. QED
      BY <1>1, <1>2, <2>1, <2>2, <2>3, <3>1, <3>2 DEF SerialCall, OwnIsNew, Alive
  <2>5. VictimIsRegistered(t)'
    BY <1>1, <1>2, <2>1, <2>2, <2>3 DEF SerialCall, VictimIsRegistered
  <2>6. ListsAreRegistered(t)'
    BY <1>1, <1>2, <2>3 DEF SerialCall, ListsAreRegistered
  <2>7. UseIsSpared(t)'
    <3>1. \A e \in Entries : /\ entry'[e].turn => entry[e].turn
                             /\ entry'[e].handle = entry[e].handle
                             /\ e = f \/ entry'[e] = entry[e]
      BY <2>1, <2>2
    <3>2. call[t].todo \subseteq Entries /\ (call[t].pc = "kill" => call[t].victim \in Entries)
      BY DEF CallRecord
    <3>3. QED
      BY <1>1, <1>2, <2>2, <2>3, <3>1, <3>2 DEF SerialCall, UseIsSpared
  <2>8. OthersAreListed(t)'
    <3>1. \A e \in Entries :
            /\ Counts(e)' => Counts(e)
            /\ entry'[e].status = "running" /\ entry'[e].prewarm =>
                 entry[e].status = "running" /\ entry[e].prewarm
      BY <2>1, <2>2 DEF Counts
    <3>2. QED
      BY <1>1, <1>2, <2>3, <3>1, FoundType DEF SerialCall, OthersAreListed
  <2>9. QED
    BY <2>4, <2>5, <2>6, <2>7, <2>8 DEF SerialCall
<1>5. QED
  BY <1>3, <1>4

\* Every step of calls that come one at a time keeps the serial invariant.
LEMMA SerialStep ==
  ASSUME SerialInv, ~Overlap, [Next]_vars
  PROVE  SerialInv'
<1>1. CASE Next
  <2>1. StartsInv' /\ UnderHandle' /\ TurnsAreUsers' /\ Reachable'
    BY <1>1, StartsStep, UnderHandleStep, TurnsAreUsersStep, ReachableStep DEF SerialInv, StartsInv
  <2>2. ASSUME NEW t \in Servers, Receive(t) \/ ServerStep(t)
        PROVE  Alone' /\ \A u \in Servers : SerialCall(u)'
    <3>1. \A u \in Servers \ {t} : call'[u] = Free
      BY <2>2, StepIsAlone
    <3>2. Alone'
      BY <3>1 DEF Alone, Free
    <3>3. QED
      BY <2>2, <3>1, <3>2, ServerKeepsSerial, FreeIsSerial
  <2>3. ASSUME NEW f \in Entries, TurnStarts(f) \/ TurnEnds(f) \/ TimePasses(f) \/ ProcessDies(f)
        PROVE  Alone' /\ \A u \in Servers : SerialCall(u)'
    <3>1. Alone'
      BY <2>3 DEF SerialInv, Alone, TurnStarts, TurnEnds, TimePasses, ProcessDies
    <3>2. QED
      BY <2>3, <3>1, EntryKeepsSerial
  <2>4. QED
    BY <1>1, <2>1, <2>2, <2>3 DEF Next, SerialInv
<1>2. CASE UNCHANGED vars
  <2>1. StartsInv'
    BY <1>2, StartsStep DEF SerialInv
  <2>2. UnderHandle' /\ TurnsAreUsers' /\ Alone' /\ Reachable'
    BY <1>2 DEF vars, SerialInv, UnderHandle, TurnsAreUsers, Alone, Reachable, Registered
  <2>3. \A t \in Servers : SerialCall(t)'
    BY <1>2 DEF vars, SerialInv, SerialCall, OwnIsNew, VictimIsRegistered, ListsAreRegistered,
                UseIsSpared, OthersAreListed, HasOwn, Stopped, Place, Stopping, Registered,
                Alive, Counts
  <2>4. QED
    BY <2>1, <2>2, <2>3 DEF SerialInv
<1>3. QED
  BY <1>1, <1>2

\* What the calls of a user, one at a time, keep to.
THEOREM SerialCorrect ==
  ASSUME ~Overlap
  PROVE  Spec => []SerialInv
BY SerialInit, SerialStep, PTL DEF Spec

\* When calls come one at a time, a live process is found under its handle, and
\* a user has one prewarmed process.
THEOREM RegistryCorrect ==
  ASSUME ~Overlap
  PROVE  Spec => []RegistryInv
<1>1. ASSUME SerialInv
      PROVE  RegistryInv
  <2>1. TypeOK
    BY <1>1 DEF SerialInv, StartsInv, ShapeInv
  <2>2. LiveIsRegistered
    BY <1>1, RegisteredIs DEF SerialInv, StartsInv, Reachable, LiveIsRegistered
  <2>3. OnePrewarm
    BY <1>1
    DEF SerialInv, SerialCall, OthersAreListed, OnePrewarm, HasOwn, Place, Stopping
  <2>4. QED
    BY <2>1, <2>2, <2>3 DEF RegistryInv
<1>2. QED
  BY <1>1, SerialCorrect, PTL

\* When calls come one at a time, a conversation never has two processes.
THEOREM OneProcess ==
  ASSUME ~Overlap
  PROVE  Spec => []OneProcessPerHandle
<1>1. RegistryInv => OneProcessPerHandle
  BY DEF RegistryInv, LiveIsRegistered, OneProcessPerHandle
<1>2. QED
  BY <1>1, RegistryCorrect, PTL

\* When calls come one at a time, a sweep or a start that enforces the limit stops
\* no turn, and an events read never stops the conversation it reads.
THEOREM UseIsNeverSwept ==
  ASSUME ~Overlap
  PROVE  Spec => SweepsSpareUse
<1>1. ASSUME SerialInv, [Next]_vars
      PROVE  /\ [ \A t \in Servers :
                    LET c == call[t] IN
                    c.pc = "kill" /\ call'[t].pc = "close" /\ c.back \in {"others", "stops", "verdicts"}
                      => ~(entry[c.victim].alive /\ entry[c.victim].turn)
                         \/ entry[c.victim].idle = 3 ]_vars
             /\ [ \A t \in Servers :
                    LET c == call[t] IN
                    c.kind = "events" /\ c.pc = "kill" => entry[c.victim].handle # c.handle ]_vars
  BY <1>1 DEF SerialInv, SerialCall, UseIsSpared
<1>2. QED
  BY <1>1, SerialCorrect, PTL DEF Spec, SweepsSpareUse, SweepSparesTurns, PollKeepsConversation

\* The step at which a start has judged its user's other processes.
LEMMA LimitStep ==
  ASSUME ShapeInv, Next, NEW t \in Servers, call[t].pc = "others", call'[t].pc = "stops"
  PROVE  StopAboveLimit(t)
<1>1. ASSUME NEW u \in Servers, Receive(u) \/ ServerStep(u)
      PROVE  Receive(t) \/ ServerStep(t)
  BY <1>1, OthersStay
<1>2. ASSUME NEW f \in Entries, TurnStarts(f) \/ TurnEnds(f) \/ TimePasses(f) \/ ProcessDies(f)
      PROVE  FALSE
  BY <1>2 DEF TurnStarts, TurnEnds, TimePasses, ProcessDies
<1>3. Receive(t) \/ ServerStep(t)
  BY <1>1, <1>2 DEF Next
<1>4. ~JudgeOther(t)
  <2>1. SUFFICES ASSUME JudgeOther(t) PROVE FALSE
    OBVIOUS
  <2>2. PICK e \in call[t].todo : JudgeOther(t)!2!(e)
    BY <2>1 DEF JudgeOther
  <2>3. call'[t].pc \in {"kill", "others"}
    <3>1. CASE Counts(e) /\ Replaced(call[t].own, e)
      BY <2>2, <3>1 DEF Move, Free, ShapeInv, TypeOK
    <3>2. CASE ~(Counts(e) /\ Replaced(call[t].own, e))
      BY <2>2, <3>2 DEF Move, Free, ShapeInv, TypeOK
    <3>3. QED
      BY <3>1, <3>2
  <2>4. QED
    BY <2>3
<1>5. QED
  BY <1>3, <1>4
  DEF At, Decided, Receive, ServerStep, StartStep, StopStep, LeaveAlone, AwaitStart, AwaitOver, AwaitFails,
      TakeExisting, RestartExisting, StartAnew, SetupFails, PutEntry, EnforceUserLimit, Spawn,
      Ready, StartFails, FindToClose, ReadEvents, Judge, SweepUserLimit, NextVictim, KillVictim,
      CloseVictim, RemoveVictim

\* What the limit picks brings what it may stop down to the limit, or picks all of it.
LEMMA VictimsAreEnough ==
  ASSUME NEW mine \in SUBSET Entries, NEW keep, NEW V \in Victims(mine, keep),
         NEW spared \in SUBSET (mine \ V)
  PROVE  \/ Cardinality(spared) <= UserLimit
         \/ {e \in spared \ keep : entry[e].status = "running" /\ ~entry[e].turn} = {}
<1> DEFINE candidates == {e \in mine \ keep : entry[e].status = "running" /\ ~entry[e].turn}
           excess == IF Cardinality(mine) > UserLimit THEN Cardinality(mine) - UserLimit ELSE 0
<1>1. /\ V \subseteq candidates
      /\ Cardinality(V) = IF excess < Cardinality(candidates) THEN excess ELSE Cardinality(candidates)
  BY DEF Victims
<1>2. /\ IsFiniteSet(mine) /\ IsFiniteSet(candidates) /\ IsFiniteSet(V)
      /\ IsFiniteSet(mine \ V) /\ IsFiniteSet(spared)
  BY <1>1, FS_Subset, RegistryAssumption
<1>3. /\ Cardinality(mine) \in Nat /\ Cardinality(candidates) \in Nat /\ Cardinality(V) \in Nat
      /\ Cardinality(spared) \in Nat /\ UserLimit \in Nat
  BY <1>2, FS_CardinalityType, RegistryAssumption
<1>4. Cardinality(spared) <= Cardinality(mine) - Cardinality(V)
  <2>1. Cardinality(spared) <= Cardinality(mine \ V)
    BY <1>2, FS_Subset
  <2>2. Cardinality(mine \ V) = Cardinality(mine) - Cardinality(mine \cap V)
    BY <1>2, FS_Difference
  <2>3. mine \cap V = V
    BY <1>1
  <2>4. QED
    BY <2>1, <2>2, <2>3
<1>5. CASE Cardinality(V) = excess
  BY <1>3, <1>4, <1>5
<1>6. CASE Cardinality(V) = Cardinality(candidates)
  <2>1. V = candidates
    BY <1>1, <1>2, <1>6, FS_Subset
  <2>2. QED
    BY <2>1
<1>7. QED
  BY <1>1, <1>5, <1>6

\* When calls come one at a time, a start that enforces the user limit stops
\* enough, and the longest idle first.
THEOREM LimitCorrect ==
  ASSUME ~Overlap
  PROVE  Spec => LimitIsEnforced
<1>1. ASSUME SerialInv, Next, NEW t \in Servers, call[t].pc = "others", call'[t].pc = "stops"
      PROVE  LET own == call[t].own
                 spared == {e \in Registered : Counts(e)} \ call'[t].todo
                 stoppable == {e \in spared \ {own} : entry[e].status = "running" /\ ~entry[e].turn}
             IN  /\ Cardinality(spared) <= UserLimit \/ stoppable = {}
                 /\ \A v \in call'[t].todo, e \in stoppable : entry[v].idle >= entry[e].idle
  <2> DEFINE own == call[t].own
             mine == call[t].kept \cup {own}
             spared == {e \in Registered : Counts(e)} \ call'[t].todo
             stoppable == {e \in spared \ {own} : entry[e].status = "running" /\ ~entry[e].turn}
  <2>1. StopAboveLimit(t)
    BY <1>1, LimitStep DEF SerialInv, StartsInv
  <2>2. PICK V \in Victims(mine, {own}) : Move(t, [pc |-> "stops", todo |-> V])
    BY <2>1 DEF StopAboveLimit
  <2>3. call'[t].todo = V
    BY <1>1, <2>2 DEF Move, Free, SerialInv, StartsInv, ShapeInv, TypeOK
  <2>4. mine \subseteq Entries
    BY <1>1 DEF SerialInv, StartsInv, ShapeInv, TypeOK, CallShape, Place, Stopping, CallRecord
  <2>5. \A e \in Registered : Counts(e) => e \in mine
    BY <1>1, <2>1
    DEF SerialInv, SerialCall, OthersAreListed, Place, Stopping, Stopped, StopAboveLimit
  <2>6. spared \subseteq mine \ V
    BY <2>3, <2>5
  <2>7. Cardinality(spared) <= UserLimit \/ stoppable = {}
    <3> HIDE DEF mine, spared
    <3>1. mine \in SUBSET Entries /\ spared \in SUBSET (mine \ V)
      BY <2>4, <2>6
    <3>2. QED
      BY <2>2, <3>1, VictimsAreEnough DEF stoppable
  <2>8. \A v \in V, e \in stoppable : entry[v].idle >= entry[e].idle
    BY <2>2, <2>6 DEF Victims
  <2>9. QED
    BY <2>3, <2>7, <2>8
<1>2. ASSUME SerialInv, [Next]_vars
      PROVE  [ \A t \in Servers :
                 call[t].pc = "others" /\ call'[t].pc = "stops" =>
                   LET own == call[t].own
                       spared == {e \in Registered : Counts(e)} \ call'[t].todo
                       stoppable == {e \in spared \ {own} : entry[e].status = "running" /\ ~entry[e].turn}
                   IN  /\ Cardinality(spared) <= UserLimit \/ stoppable = {}
                       /\ \A v \in call'[t].todo, e \in stoppable :
                            entry[v].idle >= entry[e].idle ]_vars
  BY <1>1, <1>2
<1>3. QED
  BY <1>2, SerialCorrect, PTL DEF Spec, LimitIsEnforced
=============================================================================
