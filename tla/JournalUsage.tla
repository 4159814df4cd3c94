----------------------------- MODULE JournalUsage -----------------------------
(***************************************************************************)
(* vibeJournalUsage: what a Vibe session has used, read from its journal.    *)
(* Vibe appends records to the last segment of the journal, removes old     *)
(* segments and rewrites some.  Each call resumes where the state file      *)
(* says that the last one stopped, then saves; the usage updates of the     *)
(* session and the export of its measures call it at the same time.         *)
(*                                                                         *)
(* Two actions stand for the session: a call of a vision tool ("look") and a *)
(* later tool ("echo") whose result repeats the usage of that call, with its *)
(* call id.  The result of each also stands for the request to the model    *)
(* that goes with it.                                                       *)
(* Tokens, costs, times and the model of a bucket are left out.             *)
(***************************************************************************)
EXTENDS Naturals, Sequences, FiniteSets

CONSTANTS
  UsageReaders,   \* calls of vibeJournalUsage in progress
  SegmentCount    \* bound: segments that Vibe opens

ASSUME SegmentAssumption == SegmentCount \in Nat \ {0}

Segments == 1 .. SegmentCount
\* the records of the session, in the order Vibe writes them
Session == << <<"intent", "look">>, <<"result", "look">>, <<"intent", "echo">>, <<"result", "echo">> >>

VARIABLES
  journal,   \* the complete records of each segment
  opened,    \* the last segment that Vibe opened
  removed,   \* the segments that Vibe removed
  partial,   \* whether a record is half written at the end of the last segment
  usageFile, \* convertigo-usage.json
  reading,   \* what each call of vibeJournalUsage holds
  journaled, \* history: how many records of the session were written
  intact     \* history: no segment was rewritten, removed under a call or removed unread,
             \* and none was removed when the file was lost

usageVars == <<journal, opened, removed, partial, usageFile, reading, journaled, intact>>
vibeVars == <<journal, opened, removed, partial, journaled, intact>>

EmptySegment == [offset |-> 0, requests |-> 0, looks |-> 0, callIds |-> {}]
EmptyMeasures == [calls |-> 0, strays |-> 0, pending |-> {}]

\* no state file, or one that cannot be read
NoUsageFile == [segments |-> [s \in Segments |-> EmptySegment],
                hasMeasures |-> FALSE, measures |-> EmptyMeasures]

\* next: the segment to read, 0 for no call and SegmentCount + 1 to save
IdleReader == [next |-> 0, names |-> {}, file |-> NoUsageFile, changed |-> FALSE,
               quiet |-> FALSE]

UsageInit ==
  /\ journal = [s \in Segments |-> <<>>]
  /\ opened = 1 /\ removed = {} /\ partial = FALSE
  /\ usageFile = NoUsageFile
  /\ reading = [r \in UsageReaders |-> IdleReader]
  /\ journaled = 0 /\ intact = TRUE

Present == (1 .. opened) \ removed
NobodyReads == \A r \in UsageReaders : reading[r].next = 0
Answers(r) == reading[r].next = SegmentCount + 1

-----------------------------------------------------------------------------
(* Vibe.                                                                   *)

\* a record reaches the file in two writes
BeginRecord ==
  /\ ~partial /\ journaled < Len(Session)
  /\ partial' = TRUE
  /\ UNCHANGED <<journal, opened, removed, usageFile, reading, journaled, intact>>

EndRecord ==
  /\ partial
  /\ journal' = [journal EXCEPT ![opened] = Append(@, Session[journaled + 1])]
  /\ journaled' = journaled + 1
  /\ partial' = FALSE
  /\ reading' = [r \in UsageReaders |-> [reading[r] EXCEPT !.quiet = FALSE]]
  /\ UNCHANGED <<opened, removed, usageFile, intact>>

OpenSegment ==
  /\ opened < SegmentCount /\ ~partial
  /\ opened' = opened + 1
  /\ UNCHANGED <<journal, removed, partial, usageFile, reading, journaled, intact>>

RemoveSegment(s) ==
  /\ s \in Present \ {opened}
  /\ removed' = removed \union {s}
  /\ journal' = [journal EXCEPT ![s] = <<>>]
  /\ intact' = (intact /\ NobodyReads /\ usageFile.hasMeasures
                /\ usageFile.segments[s].offset = Len(journal[s]))
  /\ UNCHANGED <<opened, partial, usageFile, reading, journaled>>

\* a segment is rewritten without its first record; bound: once, after the last
\* record of the session, which calls may still have to read
RewriteSegment(s) ==
  /\ intact /\ journaled = Len(Session)
  /\ s \in Present /\ journal[s] # <<>> /\ ~partial
  /\ journal' = [journal EXCEPT ![s] = Tail(@)]
  /\ intact' = FALSE
  /\ UNCHANGED <<opened, removed, partial, usageFile, reading, journaled>>

-----------------------------------------------------------------------------
(* vibeJournalUsage.                                                       *)

\* fault: the calls that were counted are not looked up
NoneSeen(file) == {}

\* the call ids counted so far, by the calls before too
SeenCalls(file) == UNION {file.segments[s].callIds : s \in Segments}

After(names, s) ==
  IF \E n \in names : n > s
  THEN CHOOSE n \in names : n > s /\ \A m \in names : m > s => n <= m
  ELSE SegmentCount + 1

\* a file is truncated before it is written: a call that comes while another saves
\* may find none
FilesFound ==
  {usageFile} \cup (IF \E q \in UsageReaders : Answers(q) /\ reading[q].changed
                   THEN {NoUsageFile} ELSE {})

ListSegments(r) ==
  /\ reading[r].next = 0
  /\ \E file \in FilesFound :
       /\ reading' = [reading EXCEPT ![r] =
            [next |-> After(Present, 0), names |-> Present, file |-> file,
             changed |-> FALSE, quiet |-> TRUE]]
       /\ intact' = (intact /\ (file = usageFile \/ removed = {}))
  /\ UNCHANGED <<journal, opened, removed, partial, usageFile, journaled>>

\* fault: a record still being written is read with the others
AfterPartial(s) == Len(journal[s]) + (IF s = opened /\ partial THEN 1 ELSE 0)

\* the offset after a reading: only complete records are read
AfterRead(s) == Len(journal[s])

Read(s, from, kind) == {a \in {"look", "echo"} :
                          \E i \in from + 1 .. Len(journal[s]) : journal[s][i] = <<kind, a>>}

\* addVibeJournalText: requests, and one vision call for each call id
Counted(segment, s, seen) ==
  LET found == Read(s, segment.offset, "result")
      look == found # {} /\ "call" \notin seen
  IN [offset |-> AfterRead(s),
      requests |-> segment.requests + Cardinality(found),
      looks |-> segment.looks + (IF look THEN 1 ELSE 0),
      callIds |-> segment.callIds \union (IF look THEN {"call"} ELSE {})]

\* addVibeJournalMetrics: a result is measured with the intent it answers, which
\* may have been read by an earlier call
Measured(m, s, from) ==
  LET found == Read(s, from, "result")
      intended == m.pending \union Read(s, from, "intent")
  IN [calls |-> m.calls + Cardinality(found),
      strays |-> m.strays + Cardinality(found \ intended),
      pending |-> intended \ found]

\* fault: the measures of an older state start where its totals stopped
FromTheTotals(file, segment) == segment.offset

\* a state without measures reads the segments still present from their start
MeasuredFrom(file, segment) == IF file.hasMeasures THEN segment.offset ELSE 0

\* a segment shorter than what was read of it was rewritten, or has just been
\* removed: its totals start over
ReadSegment(r) ==
  LET me == reading[r]
      s == me.next
      known == me.file.segments[s]
      shrunk == Len(journal[s]) < known.offset
      segment == IF shrunk THEN EmptySegment ELSE known
      seen == SeenCalls([me.file EXCEPT !.segments[s] = segment])
      from == MeasuredFrom(me.file, segment)
      after == Counted(segment, s, seen)
  IN /\ s \in Segments
     /\ reading' = [reading EXCEPT ![r] =
          [me EXCEPT !.next = After(me.names, s),
                     !.file.segments[s] = after,
                     !.file.measures = Measured(@, s, from),
                     !.changed = @ \/ Len(journal[s]) > from]]
     /\ UNCHANGED <<vibeVars, usageFile>>

\* a segment that was removed since its length was asked ends the call
ReadFails(r) ==
  /\ reading[r].next \in removed
  /\ reading' = [reading EXCEPT ![r] = IdleReader]
  /\ UNCHANGED <<vibeVars, usageFile>>

\* what was read is the answer, saved for the next call
SaveUsage(r) ==
  /\ reading[r].next = SegmentCount + 1
  /\ usageFile' = IF reading[r].changed
                  THEN [reading[r].file EXCEPT !.hasMeasures = TRUE] ELSE usageFile
  /\ reading' = [reading EXCEPT ![r] = IdleReader]
  /\ UNCHANGED vibeVars

\* a write that fails or crosses another, or an engine that stops, leaves the file of
\* before or none
SaveFails(r) ==
  /\ reading[r].next = SegmentCount + 1 /\ reading[r].changed
  /\ reading' = [reading EXCEPT ![r] = IdleReader]
  /\ \/ UNCHANGED <<usageFile, intact>>
     \/ usageFile' = NoUsageFile /\ intact' = (intact /\ removed = {})
  /\ UNCHANGED <<journal, opened, removed, partial, journaled>>

\* a version of the bridge that had no measures kept the totals
OldVersionReads ==
  /\ NobodyReads /\ ~usageFile.hasMeasures /\ removed = {} /\ opened = 1
  /\ usageFile.segments[1].offset = 0
  /\ usageFile' = [usageFile EXCEPT !.segments[1] = Counted(EmptySegment, 1, {})]
  /\ UNCHANGED <<vibeVars, reading>>

JournalStep ==
  \/ BeginRecord \/ EndRecord \/ OpenSegment
  \/ \E s \in Segments : RemoveSegment(s) \/ RewriteSegment(s)

ReaderStep(r) == ListSegments(r) \/ ReadSegment(r) \/ ReadFails(r) \/ SaveUsage(r) \/ SaveFails(r)

UsageNext == JournalStep \/ OldVersionReads \/ \E r \in UsageReaders : ReaderStep(r)

UsageSpec == UsageInit /\ [][UsageNext]_usageVars

-----------------------------------------------------------------------------
Sum(f) ==
  LET upTo[n \in 0 .. SegmentCount] == IF n = 0 THEN 0 ELSE upTo[n - 1] + f[n]
  IN upTo[SegmentCount]
Requests(file) == Sum([s \in Segments |-> file.segments[s].requests])
Looks(file) == Sum([s \in Segments |-> file.segments[s].looks])
WrittenResults == {Session[i][2] : i \in {j \in 1 .. journaled : Session[j][1] = "result"}}

\* A vision call is charged once to the session, although its usage comes back in
\* the results of later tools: whatever segments are rewritten, removed or read
\* again, and however many calls read the journal and save at the same time.
VisionIsCountedOnce ==
  /\ Looks(usageFile) <= 1
  /\ \A r \in UsageReaders : Looks(reading[r].file) <= 1

\* A call that reads while Vibe writes nothing answers with every request and
\* vision call of the session: those read before a segment was removed, those
\* half written at an earlier call, and those an overlapping call saved over or
\* was saving when this one began.
UsageIsComplete ==
  \A r \in UsageReaders : Answers(r) /\ reading[r].quiet /\ intact =>
    /\ Requests(reading[r].file) = Cardinality(WrittenResults)
    /\ Looks(reading[r].file) = (IF WrittenResults = {} THEN 0 ELSE 1)

\* Its measures count every tool call once, each with its intent,
\* when the intent was read by an earlier call or the totals are older than the
\* measures.
MeasuresAreComplete ==
  \A r \in UsageReaders : Answers(r) /\ reading[r].quiet /\ intact =>
    /\ reading[r].file.measures.calls = Cardinality(WrittenResults)
    /\ reading[r].file.measures.strays = 0

\* Usage is counted once and completely by calls that resume where others stopped.
UsageIsCounted == VisionIsCountedOnce /\ UsageIsComplete /\ MeasuresAreComplete
=============================================================================
