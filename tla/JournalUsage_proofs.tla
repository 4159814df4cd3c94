------------------------ MODULE JournalUsage_proofs ------------------------
(***************************************************************************)
(* Theorems about what calls of vibeJournalUsage count, for any number of  *)
(* calls and of segments.  While the journal is intact its segments divide *)
(* the records of the session, and the state file and every call hold the  *)
(* totals of the first records, up to one of them.                         *)
(***************************************************************************)
EXTENDS JournalUsage, TLAPS, FiniteSetTheorems, SequenceTheorems, WellFoundedInduction

-----------------------------------------------------------------------------
(* What calls of vibeJournalUsage keep of the journal.                      *)

Actions == {"look", "echo"}
JournalRecords == {"intent", "result"} \X Actions

\* nothing was counted of a segment that was not read, and a vision call has an id
SegmentTotals ==
  {t \in [offset : Nat, requests : Nat, looks : Nat, callIds : SUBSET {"call"}] :
     /\ t.offset = 0 => t = EmptySegment
     /\ t.looks = IF "call" \in t.callIds THEN 1 ELSE 0}

MeasureTotals == [calls : Nat, strays : Nat, pending : SUBSET Actions]
UsageFiles == [segments : [Segments -> SegmentTotals], hasMeasures : BOOLEAN,
               measures : MeasureTotals]
Readers == [next : 0 .. SegmentCount + 1, names : SUBSET Segments, file : UsageFiles,
            changed : BOOLEAN, quiet : BOOLEAN]

JournalTypes ==
  /\ journal \in [Segments -> Seq(JournalRecords)]
  /\ opened \in Segments /\ removed \subseteq 1 .. opened - 1
  /\ journaled \in 0 .. 4 /\ (partial => journaled < 4)
  /\ \A s \in Segments : s \in removed \/ s > opened => journal[s] = <<>>

\* one segment at most has the vision call, and nothing was read of those to come
IsCountedOnce(file) ==
  /\ \A s, t \in Segments : "call" \in file.segments[s].callIds \cap file.segments[t].callIds
                              => s = t
  /\ \A s \in Segments : s > opened => file.segments[s].offset = 0

ReaderIsInside(r) ==
  /\ reading[r].names \subseteq 1 .. opened
  /\ reading[r].next \in reading[r].names \cup {0, SegmentCount + 1}
  /\ IsCountedOnce(reading[r].file)

UsageTypes ==
  /\ JournalTypes
  /\ usageFile \in UsageFiles /\ IsCountedOnce(usageFile)
  /\ reading \in [UsageReaders -> Readers] /\ \A r \in UsageReaders : ReaderIsInside(r)

\* the results among the first records of the session
Results(n) == IF n < 2 THEN 0 ELSE IF n < 4 THEN 1 ELSE 2

\* the actions of the records between two
Between(kind, m, n) == {a \in Actions : \E i \in m + 1 .. n : Session[i] = <<kind, a>>}

\* while the journal is intact: begin[s] is the number of records before segment s
EndOf(begin, s) == IF s < opened THEN begin[s + 1] ELSE journaled

Divides(begin) ==
  /\ begin[1] = 0
  /\ \A s, t \in 1 .. opened : s <= t => begin[s] <= begin[t] /\ begin[t] <= journaled
  /\ \A s \in 1 .. opened :
       s \notin removed =>
         /\ Len(journal[s]) = EndOf(begin, s) - begin[s]
         /\ \A i \in 1 .. Len(journal[s]) : journal[s][i] = Session[begin[s] + i]

\* of the first m records, those of segment s
Part(begin, m, s) ==
  IF m <= begin[s] THEN 0
  ELSE IF m < EndOf(begin, s) THEN m - begin[s] ELSE EndOf(begin, s) - begin[s]

MeasuresOf(n) == [calls |-> Results(n), strays |-> 0,
                  pending |-> Between("intent", 0, n) \ Between("result", 0, n)]

\* a file that has read the first m records, and the segments removed
HasRead(file, begin, m) ==
  /\ \A s \in 1 .. opened : file.segments[s].offset = Part(begin, m, s)
  /\ \A s \in removed : m >= begin[s + 1] \/ begin[s] = begin[s + 1]
  /\ Requests(file) = Results(m)
  /\ SeenCalls(file) # {} <=> m >= 2
  /\ file.hasMeasures => file.measures = MeasuresOf(m)

\* a call that listed the segments up to the last, and has read the first m records
ReadsOn(r, begin, last, m) ==
  LET me == reading[r] IN
  /\ last \in 1 .. opened
  /\ me.names = (1 .. last) \ removed /\ last \notin removed
  /\ m <= EndOf(begin, last)
  /\ HasRead(me.file, begin, m)
  /\ me.next \in me.names => begin[me.next] <= m
  /\ me.quiet => EndOf(begin, last) = journaled
  /\ Answers(r) /\ me.quiet => m = journaled
  /\ ~me.file.hasMeasures =>
       /\ removed = {}
       /\ me.file.measures = MeasuresOf(IF Answers(r) THEN m ELSE begin[me.next])

FileIsIntact(begin) ==
  \E m \in 0 .. journaled :
    /\ HasRead(usageFile, begin, m)
    /\ ~usageFile.hasMeasures => removed = {} /\ usageFile.measures = EmptyMeasures

ReaderIsIntact(r, begin) == \E last \in Segments, m \in 0 .. journaled : ReadsOn(r, begin, last, m)

IsIntact(begin) ==
  /\ Divides(begin)
  /\ FileIsIntact(begin)
  /\ \A r \in UsageReaders : reading[r].next # 0 => ReaderIsIntact(r, begin)

UsageInv ==
  /\ UsageTypes
  /\ intact => \E begin \in [Segments -> 0 .. 4] : IsIntact(begin)

-----------------------------------------------------------------------------
(* Sums                                                                    *)

\* A set of naturals that is not empty has a least member: the members below it are
\* a set that has no strict subset of this kind.
LEMMA LeastMember ==
  ASSUME NEW S \in SUBSET Nat, S # {}
  PROVE  \E k \in S : \A n \in S : k <= n
<1> DEFINE below(k) == {n \in S : n < k}
           initial == {below(k) : k \in S}
<1>1. \A k \in S : below(k) \in FiniteSubsetsOf(S)
  <2> SUFFICES ASSUME NEW k \in S PROVE IsFiniteSet(below(k))
    BY DEF FiniteSubsetsOf
  <2>1. k \in Nat /\ below(k) \in SUBSET Nat
    OBVIOUS
  <2>2. \A n \in below(k) : n <= k
    <3> SUFFICES ASSUME NEW n \in S, n < k PROVE n <= k
      OBVIOUS
    <3>1. n \in Nat
      OBVIOUS
    <3>2. QED
      BY <2>1, <3>1
  <2>3. QED
    BY <2>1, <2>2, FS_BoundedSetOfNaturals
<1>2. PICK x \in initial : \A y \in initial : <<y, x>> \notin StrictSubsetOrdering(S)
  <2>1. initial \subseteq FiniteSubsetsOf(S) /\ initial # {}
    BY <1>1
  <2> HIDE DEF initial
  <2>2. QED
    BY <2>1, FS_StrictSubsetOrderingWellFounded, WFMin
<1>3. PICK k \in S : x = below(k)
  BY <1>2
<1>4. ASSUME NEW n \in S, ~(k <= n) PROVE FALSE
  <2>1. n \in Nat /\ k \in Nat
    OBVIOUS
  <2>2. n < k /\ \A m \in Nat : m < n => m < k
    BY <1>4, <2>1
  <2>3. n \in below(k) /\ n \notin below(n)
    BY <2>1, <2>2
  <2>4. below(n) \subseteq below(k)
    BY <2>2
  <2>5. <<below(n), below(k)>> \in StrictSubsetOrdering(S)
    BY <2>3, <2>4 DEF StrictSubsetOrdering
  <2>6. QED
    BY <1>2, <1>3, <2>5
<1>5. QED
  BY <1>4

\* The running totals behind a sum, which is their last.
LEMMA SumRuns ==
  ASSUME NEW f \in [Segments -> Nat]
  PROVE  \E g \in [0 .. SegmentCount -> Nat] :
           /\ g[0] = 0 /\ \A n \in 1 .. SegmentCount : g[n] = g[n - 1] + f[n]
           /\ Sum(f) = g[SegmentCount]
<1> DEFINE Runs(g, k) == g[0] = 0 /\ \A n \in 1 .. k : g[n] = g[n - 1] + f[n]
           Missed == {k \in 0 .. SegmentCount : ~ \E g \in [0 .. k -> Nat] : Runs(g, k)}
           Next1(h) == [n \in 0 .. SegmentCount |-> IF n = 0 THEN 0 ELSE h[n - 1] + f[n]]
<1>1. \E g \in [0 .. SegmentCount -> Nat] : Runs(g, SegmentCount)
  <2>1. SUFFICES ASSUME Missed # {} PROVE FALSE
    <3>1. SegmentCount \in 0 .. SegmentCount
      BY SegmentAssumption
    <3>2. Missed = {}
      BY <2>1
    <3>3. QED BY <3>1, <3>2
  <2>2. PICK k \in Missed : \A n \in Missed : k <= n
    <3>1. Missed \in SUBSET Nat
      OBVIOUS
    <3> HIDE DEF Missed
    <3>2. QED BY <2>1, <3>1, LeastMember
  <2>3. k # 0
    <3>1. [n \in 0 .. 0 |-> 0] \in [0 .. 0 -> Nat] /\ Runs([n \in 0 .. 0 |-> 0], 0)
      OBVIOUS
    <3>2. QED BY <3>1, <2>2
  <2>4. k - 1 \in 0 .. SegmentCount /\ k - 1 \notin Missed
    <3>1. k \in 0 .. SegmentCount
      BY <2>2
    <3> HIDE DEF Missed
    <3>2. k - 1 \in 0 .. SegmentCount /\ ~(k <= k - 1)
      BY <3>1, <2>3, SegmentAssumption
    <3>3. QED BY <3>2, <2>2
  <2>5. PICK g \in [0 .. k - 1 -> Nat] : Runs(g, k - 1)
    BY <2>4
  <2> DEFINE longer == [n \in 0 .. k |-> IF n = k THEN g[k - 1] + f[k] ELSE g[n]]
  <2>6. k \in 1 .. SegmentCount /\ k \in Segments
    BY <2>2, <2>3, SegmentAssumption DEF Segments
  <2>7. longer \in [0 .. k -> Nat]
    <3>1. g[k - 1] \in Nat /\ f[k] \in Nat
      BY <2>5, <2>6
    <3>2. QED BY <3>1, <2>5, <2>6
  <2>8. Runs(longer, k)
    BY <2>5, <2>6
  <2>9. QED BY <2>7, <2>8, <2>2
<1>2. PICK g \in [0 .. SegmentCount -> Nat] : Runs(g, SegmentCount)
  BY <1>1
<1>3. g = Next1(g)
  <2>1. \A n \in 0 .. SegmentCount : g[n] = Next1(g)[n]
    BY <1>2, SegmentAssumption
  <2>2. g = [n \in 0 .. SegmentCount |-> g[n]]
    BY <1>2
  <2>3. QED BY <2>1, <2>2
<1> DEFINE upTo[n \in 0 .. SegmentCount] == IF n = 0 THEN 0 ELSE upTo[n - 1] + f[n]
<1>4. upTo = CHOOSE h : h = Next1(h)
  OBVIOUS
<1>5. upTo = Next1(upTo)
  BY <1>3, <1>4
<1>6. Sum(f) = upTo[SegmentCount]
  BY DEF Sum
<1> HIDE DEF upTo
<1>7. \A n \in 0 .. SegmentCount : upTo[n] = g[n]
  <2> DEFINE Apart == {n \in 0 .. SegmentCount : upTo[n] # g[n]}
  <2>1. SUFFICES ASSUME Apart # {} PROVE FALSE
    OBVIOUS
  <2>2. PICK k \in Apart : \A n \in Apart : k <= n
    <3>1. Apart \in SUBSET Nat
      OBVIOUS
    <3> HIDE DEF Apart
    <3>2. QED BY <2>1, <3>1, LeastMember
  <2>3. upTo[k] = IF k = 0 THEN 0 ELSE upTo[k - 1] + f[k]
    BY <1>5, <2>2
  <2>4. k # 0
    BY <2>2, <2>3, <1>2
  <2>5. k - 1 \in 0 .. SegmentCount /\ k - 1 \notin Apart
    BY <2>2, <2>4, SegmentAssumption
  <2>6. QED BY <2>2, <2>3, <2>4, <2>5, <1>2
<1>8. Sum(f) = g[SegmentCount]
  BY <1>6, <1>7, SegmentAssumption
<1>9. QED
  BY <1>2, <1>8

\* A sum of nothing.
LEMMA SumOfZeros ==
  ASSUME NEW f \in [Segments -> Nat], \A s \in Segments : f[s] = 0
  PROVE  Sum(f) = 0
<1>1. PICK g \in [0 .. SegmentCount -> Nat] :
        /\ g[0] = 0 /\ \A n \in 1 .. SegmentCount : g[n] = g[n - 1] + f[n]
        /\ Sum(f) = g[SegmentCount]
  BY SumRuns
<1> DEFINE Apart == {n \in 0 .. SegmentCount : g[n] # 0}
<1>2. SUFFICES ASSUME Apart # {} PROVE FALSE
  BY <1>1, SegmentAssumption
<1>3. PICK k \in Apart : \A n \in Apart : k <= n
  <2>1. Apart \in SUBSET Nat
    OBVIOUS
  <2> HIDE DEF Apart
  <2>2. QED BY <1>2, <2>1, LeastMember
<1>4. k \in 1 .. SegmentCount /\ k \in Segments
  BY <1>1, <1>3 DEF Segments
<1>5. k - 1 \in 0 .. SegmentCount /\ k - 1 \notin Apart
  BY <1>3, <1>4, SegmentAssumption
<1>6. QED BY <1>1, <1>3, <1>4, <1>5

\* A sum of which one part changes.
LEMMA SumChanges ==
  ASSUME NEW f \in [Segments -> Nat], NEW e \in [Segments -> Nat], NEW s \in Segments,
         \A t \in Segments \ {s} : e[t] = f[t]
  PROVE  Sum(f) \in Nat /\ Sum(e) \in Nat /\ Sum(e) + f[s] = Sum(f) + e[s]
<1>1. PICK g \in [0 .. SegmentCount -> Nat] :
        /\ g[0] = 0 /\ \A n \in 1 .. SegmentCount : g[n] = g[n - 1] + f[n]
        /\ Sum(f) = g[SegmentCount]
  BY SumRuns
<1>2. PICK h \in [0 .. SegmentCount -> Nat] :
        /\ h[0] = 0 /\ \A n \in 1 .. SegmentCount : h[n] = h[n - 1] + e[n]
        /\ Sum(e) = h[SegmentCount]
  BY SumRuns
<1> DEFINE Agree(n) == IF n < s THEN h[n] = g[n] ELSE h[n] + f[s] = g[n] + e[s]
           Apart == {n \in 0 .. SegmentCount : ~Agree(n)}
<1>3. ASSUME Apart # {} PROVE FALSE
  <2>1. PICK k \in Apart : \A n \in Apart : k <= n
    <3>1. Apart \in SUBSET Nat
      OBVIOUS
    <3> HIDE DEF Apart
    <3>2. QED BY <1>3, <3>1, LeastMember
  <2>2. s \in 1 .. SegmentCount /\ f[s] \in Nat /\ e[s] \in Nat
    BY DEF Segments
  <2>3. k \in 1 .. SegmentCount /\ k \in Segments
    BY <1>1, <1>2, <2>1, <2>2 DEF Segments
  <2>4. k - 1 \in 0 .. SegmentCount /\ k - 1 \notin Apart
    BY <2>1, <2>3, SegmentAssumption
  <2>5. /\ g[k] = g[k - 1] + f[k] /\ h[k] = h[k - 1] + e[k]
        /\ k # s => e[k] = f[k]
        /\ g[k - 1] \in Nat /\ h[k - 1] \in Nat /\ f[k] \in Nat /\ e[k] \in Nat
    BY <1>1, <1>2, <2>3, <2>4
  <2>6. Agree(k - 1) /\ ~Agree(k)
    BY <2>1, <2>4
  <2>7. CASE k < s
    BY <2>2, <2>3, <2>5, <2>6, <2>7
  <2>8. CASE k = s
    BY <2>2, <2>3, <2>5, <2>6, <2>8
  <2>9. CASE k > s
    <3>1. /\ h[k - 1] + f[s] = g[k - 1] + e[s] /\ h[k] + f[s] # g[k] + e[s]
          /\ h[k] = h[k - 1] + e[k] /\ g[k] = g[k - 1] + f[k] /\ e[k] = f[k]
      BY <2>2, <2>3, <2>5, <2>6, <2>9
    <3>2. PICK a \in Nat, b \in Nat, c \in Nat, d \in Nat, x \in Nat :
            a = h[k - 1] /\ b = g[k - 1] /\ c = f[s] /\ d = e[s] /\ x = f[k]
      BY <2>2, <2>5
    <3>3. a + c = b + d
      BY <3>1, <3>2
    <3>4. (a + x) + c = (b + x) + d
      BY <3>3
    <3>5. QED BY <3>1, <3>2, <3>4
  <2>10. QED
    BY <2>2, <2>3, <2>7, <2>8, <2>9
<1>4. Agree(SegmentCount)
  <2>1. SegmentCount \in 0 .. SegmentCount
    BY SegmentAssumption
  <2>2. QED BY <1>3, <2>1
<1>5. QED
  BY <1>1, <1>2, <1>4, SegmentAssumption DEF Segments

-----------------------------------------------------------------------------
(* What a reading counts                                                   *)

\* The next segment of a call is the first of those listed after the last read.
LEMMA AfterIsNext ==
  ASSUME NEW names \in SUBSET Segments, NEW s \in Nat
  PROVE  LET next == After(names, s) IN
         /\ next \in names \cup {SegmentCount + 1}
         /\ next \in names => next > s /\ \A n \in names : n > s => next <= n
         /\ next = SegmentCount + 1 => \A n \in names : n <= s
<1> DEFINE later == {n \in names : n > s}
<1>1. SegmentCount + 1 \notin names /\ names \subseteq Nat /\ later \in SUBSET Nat
  <2>1. \A n \in Segments : n \in Nat /\ n # SegmentCount + 1
    BY SegmentAssumption DEF Segments
  <2>2. QED BY <2>1
<1>2. CASE later = {}
  <2>1. After(names, s) = SegmentCount + 1 /\ \A n \in names : ~(n > s)
    BY <1>2 DEF After
  <2>2. QED BY <2>1, <1>1
<1>3. CASE later # {}
  <2>1. \E k \in later : \A n \in later : k <= n
    <3> HIDE DEF later
    <3>1. QED BY <1>1, <1>3, LeastMember
  <2>2. \E n \in names : n > s /\ \A m \in names : m > s => n <= m
    BY <2>1
  <2>3. After(names, s) \in names /\ After(names, s) > s
        /\ \A m \in names : m > s => After(names, s) <= m
    BY <2>2, <1>3 DEF After
  <2>4. QED BY <1>1, <2>3
<1>4. QED BY <1>2, <1>3

\* The sets of actions are small.
LEMMA ActionSets ==
  ASSUME NEW A \in SUBSET Actions
  PROVE  IsFiniteSet(A) /\ Cardinality(A) \in Nat /\ (Cardinality(A) = 0 <=> A = {})
<1>1. IsFiniteSet(Actions)
  <2>1. IsFiniteSet({"look"}) /\ Actions = {"look"} \cup {"echo"}
    BY FS_Singleton DEF Actions
  <2>2. QED BY <2>1, FS_AddElement
<1>2. IsFiniteSet(A)
  BY <1>1, FS_Subset
<1>3. QED BY <1>2, FS_CardinalityType, FS_EmptySet

\* What is read of a segment.
LEMMA ReadFacts ==
  ASSUME JournalTypes, NEW s \in Segments, NEW from \in Nat, NEW kind
  PROVE  /\ Read(s, from, kind) \in SUBSET Actions
         /\ Len(journal[s]) \in Nat
         /\ Len(journal[s]) <= from => Read(s, from, kind) = {}
<1>1. Len(journal[s]) \in Nat
  BY LenProperties DEF JournalTypes
<1>2. Len(journal[s]) <= from => from + 1 .. Len(journal[s]) = {}
  BY <1>1
<1>3. QED BY <1>1, <1>2 DEF Read, Actions

\* The totals of a segment after a reading that goes on from others.
LEMMA CountedFacts ==
  ASSUME JournalTypes, NEW s \in Segments, NEW segment \in SegmentTotals, NEW seen,
         segment.callIds \subseteq seen, segment.offset <= Len(journal[s])
  PROVE  LET found == Read(s, segment.offset, "result")
             after == Counted(segment, s, seen)
         IN /\ after \in SegmentTotals
            /\ after.offset = Len(journal[s])
            /\ after.requests = segment.requests + Cardinality(found)
            /\ "call" \in after.callIds
                 <=> "call" \in segment.callIds \/ (found # {} /\ "call" \notin seen)
<1> DEFINE found == Read(s, segment.offset, "result")
           after == Counted(segment, s, seen)
           look == found # {} /\ "call" \notin seen
<1>1. /\ segment.offset \in Nat /\ segment.requests \in Nat /\ segment.looks \in Nat
      /\ segment.callIds \subseteq {"call"}
      /\ segment.offset = 0 => segment = EmptySegment
      /\ segment.looks = IF "call" \in segment.callIds THEN 1 ELSE 0
  BY DEF SegmentTotals
<1>2. Len(journal[s]) \in Nat /\ Cardinality(found) \in Nat
      /\ (Len(journal[s]) <= segment.offset => found = {})
      /\ (found = {} => Cardinality(found) = 0)
  BY <1>1, ReadFacts, ActionSets
<1>3. after = [offset |-> Len(journal[s]), requests |-> segment.requests + Cardinality(found),
               looks |-> segment.looks + (IF look THEN 1 ELSE 0),
               callIds |-> segment.callIds \cup (IF look THEN {"call"} ELSE {})]
  BY DEF Counted, AfterRead
<1>4. look => "call" \notin segment.callIds
  OBVIOUS
<1> HIDE DEF found, after
<1>5. after.looks = IF "call" \in after.callIds THEN 1 ELSE 0
  BY <1>1, <1>3, <1>4
<1>6. after \in [offset : Nat, requests : Nat, looks : Nat, callIds : SUBSET {"call"}]
  BY <1>1, <1>2, <1>3
<1>7. after.offset = 0 => after = EmptySegment
  <2> SUFFICES ASSUME after.offset = 0 PROVE after = EmptySegment
    OBVIOUS
  <2>1. Len(journal[s]) = 0 /\ segment.offset = 0
    BY <1>1, <1>2, <1>3
  <2>2. found = {} /\ Cardinality(found) = 0 /\ segment = EmptySegment
    BY <2>1, <1>1, <1>2
  <2>3. ~look
    BY <2>2
  <2>4. after = [offset |-> 0, requests |-> 0 + 0, looks |-> 0 + 0, callIds |-> {} \cup {}]
    BY <1>3, <2>1, <2>2, <2>3 DEF EmptySegment
  <2>5. QED BY <2>4 DEF EmptySegment
<1>8. QED
  BY <1>3, <1>5, <1>6, <1>7 DEF SegmentTotals, found, after

\* Measures stay measures.
LEMMA MeasuredFacts ==
  ASSUME JournalTypes, NEW s \in Segments, NEW from \in Nat, NEW m \in MeasureTotals
  PROVE  Measured(m, s, from) \in MeasureTotals
<1>1. /\ Read(s, from, "result") \in SUBSET Actions /\ Read(s, from, "intent") \in SUBSET Actions
      /\ m.calls \in Nat /\ m.strays \in Nat /\ m.pending \in SUBSET Actions
  BY ReadFacts DEF MeasureTotals
<1> DEFINE found == Read(s, from, "result")
           intended == m.pending \cup Read(s, from, "intent")
<1>2. Cardinality(found) \in Nat /\ Cardinality(found \ intended) \in Nat
  <2>1. found \in SUBSET Actions /\ found \ intended \in SUBSET Actions
    BY <1>1
  <2>2. QED BY <2>1, ActionSets
<1>3. intended \ found \in SUBSET Actions
  BY <1>1
<1>4. Measured(m, s, from) = [calls |-> m.calls + Cardinality(found),
                              strays |-> m.strays + Cardinality(found \ intended),
                              pending |-> intended \ found]
  BY DEF Measured
<1> HIDE DEF found, intended
<1>5. QED BY <1>1, <1>2, <1>3, <1>4 DEF MeasureTotals

\* A file without totals, and a call that reads nothing.
LEMMA NoUsageFacts ==
  /\ EmptySegment \in SegmentTotals /\ EmptyMeasures \in MeasureTotals
  /\ NoUsageFile \in UsageFiles /\ IdleReader \in Readers
  /\ IsCountedOnce(NoUsageFile)
<1>1. EmptySegment \in SegmentTotals /\ EmptyMeasures \in MeasureTotals
  BY DEF EmptySegment, SegmentTotals, EmptyMeasures, MeasureTotals
<1>2. NoUsageFile \in UsageFiles
  BY <1>1 DEF NoUsageFile, UsageFiles
<1>3. IdleReader \in Readers
  BY <1>2, SegmentAssumption DEF IdleReader, Readers
<1>4. IsCountedOnce(NoUsageFile)
  BY DEF NoUsageFile, EmptySegment, IsCountedOnce
<1>5. QED BY <1>1, <1>2, <1>3, <1>4

\* What a call that reads a segment resumes from, and what it holds afterwards.
Resumed(r) ==
  LET known == reading[r].file.segments[reading[r].next] IN
  IF Len(journal[reading[r].next]) < known.offset THEN EmptySegment ELSE known
SeenBy(r) == SeenCalls([reading[r].file EXCEPT !.segments[reading[r].next] = Resumed(r)])
ReadTotals(r) == Counted(Resumed(r), reading[r].next, SeenBy(r))
ReadMeasures(r) ==
  Measured(reading[r].file.measures, reading[r].next,
           MeasuredFrom(reading[r].file, Resumed(r)))
FileRead(r) ==
  [segments |-> [reading[r].file.segments EXCEPT ![reading[r].next] = ReadTotals(r)],
   hasMeasures |-> reading[r].file.hasMeasures, measures |-> ReadMeasures(r)]

\* A reading of a segment replaces its totals.
LEMMA ReadingFacts ==
  ASSUME UsageTypes, NEW r \in UsageReaders, ReadSegment(r)
  PROVE  /\ reading[r].next \in Segments /\ reading[r].next \in reading[r].names
         /\ reading[r].next <= opened
         /\ Resumed(r) \in SegmentTotals
         /\ Resumed(r).offset <= Len(journal[reading[r].next])
         /\ Resumed(r).callIds \subseteq SeenBy(r)
         /\ \A t \in Segments : t # reading[r].next
              => reading[r].file.segments[t].callIds \subseteq SeenBy(r)
         /\ ReadMeasures(r) \in MeasureTotals
         /\ reading' \in [UsageReaders -> Readers]
         /\ \A q \in UsageReaders : q # r => reading'[q] = reading[q]
         /\ reading'[r].next = After(reading[r].names, reading[r].next)
         /\ reading'[r].names = reading[r].names
         /\ reading'[r].quiet = reading[r].quiet
         /\ reading'[r].file = FileRead(r)
         /\ FileRead(r) \in UsageFiles
<1> DEFINE me == reading[r]
           s == me.next
           known == me.file.segments[s]
           resumedFile == [me.file EXCEPT !.segments[s] = Resumed(r)]
<1>1. /\ me \in Readers /\ me.file \in UsageFiles /\ me.names \in SUBSET Segments
      /\ ReaderIsInside(r) /\ JournalTypes
  BY DEF UsageTypes, Readers
<1>2. s \in Segments /\ s \in me.names /\ s <= opened
  BY <1>1, SegmentAssumption DEF ReadSegment, ReaderIsInside, Segments
<1>3. /\ me.file.segments \in [Segments -> SegmentTotals] /\ known \in SegmentTotals
      /\ me.file.hasMeasures \in BOOLEAN /\ me.file.measures \in MeasureTotals
      /\ me.changed \in BOOLEAN /\ me.quiet \in BOOLEAN
  BY <1>1, <1>2 DEF UsageFiles, Readers
<1>4. Len(journal[s]) \in Nat /\ known.offset \in Nat
  BY <1>1, <1>2, <1>3, ReadFacts DEF SegmentTotals
<1>5. Resumed(r) \in SegmentTotals /\ Resumed(r).offset <= Len(journal[s])
      /\ Resumed(r).offset \in Nat
  BY <1>3, <1>4, NoUsageFacts DEF Resumed, EmptySegment
<1>6. /\ resumedFile.segments[s] = Resumed(r)
      /\ \A t \in Segments : t # s => resumedFile.segments[t] = me.file.segments[t]
  BY <1>1, <1>2, <1>3 DEF UsageFiles
<1>7. \A t \in Segments : resumedFile.segments[t].callIds \subseteq SeenBy(r)
  BY DEF SeenBy, SeenCalls
<1>8. /\ Resumed(r).callIds \subseteq SeenBy(r)
      /\ \A t \in Segments : t # s => me.file.segments[t].callIds \subseteq SeenBy(r)
  BY <1>2, <1>6, <1>7
<1>9. ReadTotals(r) \in SegmentTotals
  BY <1>1, <1>2, <1>5, <1>8, CountedFacts DEF ReadTotals
<1>10. MeasuredFrom(me.file, Resumed(r)) \in Nat
  BY <1>5 DEF MeasuredFrom
<1>11. ReadMeasures(r) \in MeasureTotals
  BY <1>1, <1>2, <1>3, <1>10, MeasuredFacts DEF ReadMeasures
<1>12. FileRead(r) \in UsageFiles
  BY <1>2, <1>3, <1>9, <1>11 DEF FileRead, UsageFiles
<1>13. After(me.names, s) \in 0 .. SegmentCount + 1
  <2>1. s \in Nat
    BY <1>2 DEF Segments
  <2>2. After(me.names, s) \in me.names \cup {SegmentCount + 1}
    BY <1>1, <2>1, AfterIsNext
  <2>3. QED BY <1>1, <2>2, SegmentAssumption DEF Segments
<1> DEFINE longer == Len(journal[s]) > MeasuredFrom(me.file, Resumed(r))
           new == [me EXCEPT !.next = After(me.names, s),
                             !.file.segments[s] = ReadTotals(r),
                             !.file.measures = ReadMeasures(r),
                             !.changed = me.changed \/ longer]
<1>14. reading' = [reading EXCEPT ![r] = new]
  BY DEF ReadSegment, ReadTotals, SeenBy, Resumed, ReadMeasures
<1>15. /\ new.next = After(me.names, s) /\ new.names = me.names
       /\ new.changed = (me.changed \/ longer) /\ new.quiet = me.quiet
  BY <1>1 DEF Readers
<1>16. /\ new.file.segments = [me.file.segments EXCEPT ![s] = ReadTotals(r)]
       /\ new.file.hasMeasures = me.file.hasMeasures /\ new.file.measures = ReadMeasures(r)
  BY <1>1 DEF Readers, UsageFiles
<1>17. new.file \in UsageFiles
  BY <1>1, <1>2, <1>3, <1>9, <1>11 DEF Readers, UsageFiles
<1>18. new \in Readers
  BY <1>1, <1>3, <1>12, <1>13, <1>17 DEF Readers
<1> HIDE DEF new
<1>19. new.file = FileRead(r)
  BY <1>12, <1>16, <1>17 DEF FileRead, UsageFiles
<1>20. /\ reading' \in [UsageReaders -> Readers] /\ reading'[r] = new
       /\ \A q \in UsageReaders : q # r => reading'[q] = reading[q]
  BY <1>14, <1>18 DEF UsageTypes
<1>21. QED
  BY <1>2, <1>5, <1>8, <1>11, <1>12, <1>15, <1>19, <1>20

\* A call that lists the segments still present begins with the first of them.
LEMMA ListingFacts ==
  ASSUME UsageTypes, NEW r \in UsageReaders, ListSegments(r)
  PROVE  /\ reading' \in [UsageReaders -> Readers]
         /\ \A q \in UsageReaders : q # r => reading'[q] = reading[q]
         /\ Present \in SUBSET Segments /\ Present \subseteq 1 .. opened
         /\ reading'[r].next = After(Present, 0)
         /\ reading'[r].next \in Present \cup {SegmentCount + 1}
         /\ reading'[r].names = Present
         /\ reading'[r].file \in {usageFile, NoUsageFile} /\ reading'[r].quiet = TRUE
         /\ intact' /\ reading'[r].file # usageFile => removed = {}
         /\ UNCHANGED <<journal, opened, removed, partial, usageFile, journaled>>
<1>1. opened \in 1 .. SegmentCount /\ SegmentCount \in Nat
  BY SegmentAssumption DEF UsageTypes, JournalTypes, Segments
<1>2. Present \in SUBSET Segments /\ Present \subseteq 1 .. opened
  BY <1>1 DEF Present, Segments
<1>3. After(Present, 0) \in Present \cup {SegmentCount + 1}
  BY <1>2, AfterIsNext
<1>4. After(Present, 0) \in 0 .. SegmentCount + 1
  <2>1. \A n \in Segments \cup {SegmentCount + 1} : n \in 0 .. SegmentCount + 1
    BY <1>1 DEF Segments
  <2>2. QED BY <1>2, <1>3, <2>1
<1>f. PICK file \in FilesFound :
        /\ reading' = [reading EXCEPT ![r] =
             [next |-> After(Present, 0), names |-> Present, file |-> file,
              changed |-> FALSE, quiet |-> TRUE]]
        /\ intact' = (intact /\ (file = usageFile \/ removed = {}))
  BY DEF ListSegments
<1>g. file \in {usageFile, NoUsageFile} /\ file \in UsageFiles
  BY <1>f, NoUsageFacts DEF FilesFound, UsageTypes
<1> DEFINE new == [next |-> After(Present, 0), names |-> Present, file |-> file,
                   changed |-> FALSE, quiet |-> TRUE]
<1>5. new \in Readers
  BY <1>2, <1>4, <1>g DEF Readers
<1>6. reading' = [reading EXCEPT ![r] = new]
  BY <1>f
<1>7. /\ reading' \in [UsageReaders -> Readers] /\ reading'[r] = new
      /\ \A q \in UsageReaders : q # r => reading'[q] = reading[q]
  <2> HIDE DEF new
  <2>1. QED BY <1>5, <1>6 DEF UsageTypes
<1>8. UNCHANGED <<journal, opened, removed, partial, usageFile, journaled>>
  BY DEF ListSegments
<1>9. QED
  BY <1>2, <1>3, <1>7, <1>8, <1>f, <1>g

\* A call that ends reads nothing any more.
LEMMA IdleFacts ==
  ASSUME UsageTypes, NEW r \in UsageReaders, reading' = [reading EXCEPT ![r] = IdleReader]
  PROVE  /\ reading' \in [UsageReaders -> Readers]
         /\ \A q \in UsageReaders : q # r => reading'[q] = reading[q]
         /\ reading'[r] = IdleReader /\ reading'[r].next = 0 /\ reading'[r].names = {}
         /\ reading'[r].file = NoUsageFile
<1>1. reading' \in [UsageReaders -> Readers] /\ reading'[r] = IdleReader
      /\ \A q \in UsageReaders : q # r => reading'[q] = reading[q]
  BY NoUsageFacts DEF UsageTypes
<1>2. QED
  BY <1>1 DEF IdleReader

\* A record that Vibe ends is added to the last segment, and no call is quiet any more.
LEMMA EndingFacts ==
  ASSUME UsageTypes, EndRecord
  PROVE  /\ journaled \in 0 .. 3 /\ journaled' = journaled + 1
         /\ JournalTypes'
         /\ Len(journal'[opened]) = Len(journal[opened]) + 1
         /\ journal'[opened][Len(journal[opened]) + 1] = Session[journaled + 1]
         /\ \A i \in 1 .. Len(journal[opened]) : journal'[opened][i] = journal[opened][i]
         /\ \A s \in Segments : s # opened => journal'[s] = journal[s]
         /\ reading' \in [UsageReaders -> Readers]
         /\ \A r \in UsageReaders : /\ reading'[r].next = reading[r].next
                                    /\ reading'[r].names = reading[r].names
                                    /\ reading'[r].file = reading[r].file
                                    /\ reading'[r].quiet = FALSE
<1>1. journaled \in 0 .. 3 /\ journaled' = journaled + 1
  BY DEF EndRecord, UsageTypes, JournalTypes
<1>2. Session[journaled + 1] \in JournalRecords
  BY <1>1 DEF Session, JournalRecords, Actions
<1>3. opened \in Segments /\ journal[opened] \in Seq(JournalRecords)
      /\ journal \in [Segments -> Seq(JournalRecords)]
  BY DEF UsageTypes, JournalTypes
<1>4. journal' = [journal EXCEPT ![opened] = Append(journal[opened], Session[journaled + 1])]
  BY DEF EndRecord
<1> DEFINE longer == Append(journal[opened], Session[journaled + 1])
<1>5. /\ longer \in Seq(JournalRecords) /\ Len(longer) = Len(journal[opened]) + 1
      /\ longer[Len(journal[opened]) + 1] = Session[journaled + 1]
      /\ \A i \in 1 .. Len(journal[opened]) : longer[i] = journal[opened][i]
  BY <1>2, <1>3, AppendProperties
<1> HIDE DEF longer
<1>6. /\ journal' \in [Segments -> Seq(JournalRecords)] /\ journal'[opened] = longer
      /\ \A s \in Segments : s # opened => journal'[s] = journal[s]
  BY <1>3, <1>4, <1>5 DEF longer
<1>7. JournalTypes'
  <2>1. opened' = opened /\ removed' = removed /\ ~partial'
    BY DEF EndRecord
  <2>2. \A s \in Segments : s \in removed \/ s > opened => s # opened
    BY <1>3 DEF UsageTypes, JournalTypes, Segments
  <2>3. QED
    BY <1>1, <1>6, <2>1, <2>2 DEF UsageTypes, JournalTypes
<1>8. \A r \in UsageReaders :
        LET new == [reading[r] EXCEPT !.quiet = FALSE] IN
        /\ new \in Readers
        /\ new.next = reading[r].next /\ new.names = reading[r].names
        /\ new.file = reading[r].file /\ new.quiet = FALSE
  BY DEF UsageTypes, Readers
<1>9. reading' = [r \in UsageReaders |-> [reading[r] EXCEPT !.quiet = FALSE]]
  BY DEF EndRecord
<1>10. QED
  BY <1>1, <1>5, <1>6, <1>7, <1>8, <1>9

\* The vision call is counted in one segment after a reading too.
LEMMA ReadingCountsOnce ==
  ASSUME UsageTypes, NEW r \in UsageReaders, ReadSegment(r)
  PROVE  IsCountedOnce(FileRead(r))
<1> DEFINE s == reading[r].next
           file == reading[r].file
           new == FileRead(r)
<1>1. /\ s \in Segments /\ s <= opened /\ JournalTypes /\ IsCountedOnce(file)
      /\ file.segments \in [Segments -> SegmentTotals]
  BY ReadingFacts DEF UsageTypes, ReaderIsInside, Readers, UsageFiles
<1>2. /\ new.segments[s] = ReadTotals(r)
      /\ \A t \in Segments : t # s => new.segments[t] = file.segments[t]
  BY <1>1 DEF FileRead
<1>3. "call" \in ReadTotals(r).callIds
        => \A t \in Segments : t # s => "call" \notin file.segments[t].callIds
  <2>1. "call" \in ReadTotals(r).callIds
          => "call" \in Resumed(r).callIds \/ "call" \notin SeenBy(r)
    BY <1>1, ReadingFacts, CountedFacts DEF ReadTotals
  <2>2. "call" \in Resumed(r).callIds => "call" \in file.segments[s].callIds
    BY DEF Resumed, EmptySegment
  <2>3. "call" \in file.segments[s].callIds
          => \A t \in Segments : t # s => "call" \notin file.segments[t].callIds
    BY <1>1 DEF IsCountedOnce
  <2>4. \A t \in Segments : t # s => file.segments[t].callIds \subseteq SeenBy(r)
    BY ReadingFacts
  <2>5. QED BY <2>1, <2>2, <2>3, <2>4
<1>4. \A t \in Segments : t > opened => t # s
  BY <1>1 DEF Segments, UsageTypes, JournalTypes
<1>5. QED
  BY <1>1, <1>2, <1>3, <1>4 DEF IsCountedOnce

\* Files that nobody has read further keep their counts while the segments grow.
LEMMA CountsStay ==
  ASSUME NEW file, IsCountedOnce(file), opened \in Nat, opened' \in Nat, opened' >= opened
  PROVE  \A s \in Segments : s > opened' => file.segments[s].offset = 0
<1>1. \A s \in Segments : s \in Nat
  BY DEF Segments
<1>2. QED
  BY <1>1 DEF IsCountedOnce

\* A step keeps the readers that it does not touch inside what was opened.
LEMMA ReadersStay ==
  ASSUME UsageTypes, opened' \in Segments, opened' >= opened
  PROVE  /\ \A file \in UsageFiles : IsCountedOnce(file) => IsCountedOnce(file)'
         /\ \A r \in UsageReaders :
              /\ reading'[r].next = reading[r].next /\ reading'[r].names = reading[r].names
              /\ reading'[r].file = reading[r].file
              => ReaderIsInside(r)'
<1>1. opened \in Nat /\ opened' \in Nat /\ 1 .. opened \subseteq 1 .. opened'
  BY DEF UsageTypes, JournalTypes, Segments
<1>2. ASSUME NEW file, IsCountedOnce(file)
      PROVE  /\ \A s, t \in Segments :
                  "call" \in file.segments[s].callIds \cap file.segments[t].callIds => s = t
             /\ \A s \in Segments : s > opened' => file.segments[s].offset = 0
  BY <1>1, <1>2, CountsStay DEF IsCountedOnce
<1>3. QED
  BY <1>1, <1>2 DEF UsageTypes, ReaderIsInside, IsCountedOnce

-----------------------------------------------------------------------------
(* Types                                                                   *)

\* The types, and the vision call counted once, whatever happens to the journal.
LEMMA UsageTypesInit == UsageInit => UsageTypes
<1> SUFFICES ASSUME UsageInit PROVE UsageTypes
  OBVIOUS
<1>1. <<>> \in Seq(JournalRecords) /\ 1 \in Segments
  BY SegmentAssumption DEF Segments
<1>2. JournalTypes
  BY <1>1 DEF UsageInit, JournalTypes
<1>3. \A r \in UsageReaders : reading[r] = IdleReader /\ ReaderIsInside(r)
  BY NoUsageFacts DEF UsageInit, IdleReader, ReaderIsInside
<1>4. QED
  BY <1>2, <1>3, NoUsageFacts DEF UsageInit, UsageTypes

\* Every step of Vibe and of the calls keeps them.
LEMMA UsageTypesStep == UsageTypes /\ [UsageNext]_usageVars => UsageTypes'
<1> SUFFICES ASSUME UsageTypes, [UsageNext]_usageVars PROVE UsageTypes'
  OBVIOUS
<1>t. /\ JournalTypes /\ opened \in Nat /\ opened \in Segments
      /\ usageFile \in UsageFiles /\ IsCountedOnce(usageFile)
      /\ reading \in [UsageReaders -> Readers]
      /\ \A r \in UsageReaders : ReaderIsInside(r) /\ IsCountedOnce(reading[r].file)
                                 /\ reading[r].file \in UsageFiles
  BY DEF UsageTypes, JournalTypes, Segments, ReaderIsInside, Readers
<1> DEFINE Stays(r) == reading'[r] = reading[r]
<1>s. ASSUME JournalTypes', opened' \in Segments, opened' >= opened, reading' = reading,
             usageFile' = usageFile
      PROVE  UsageTypes'
  BY <1>s, <1>t, ReadersStay DEF UsageTypes
<1>r. ASSUME UNCHANGED <<journal, opened, removed, partial, journaled>>, NEW r \in UsageReaders,
             reading' \in [UsageReaders -> Readers],
             \A q \in UsageReaders : q # r => reading'[q] = reading[q],
             ReaderIsInside(r)', usageFile' \in UsageFiles, IsCountedOnce(usageFile)'
      PROVE  UsageTypes'
  <2>1. JournalTypes'
    BY <1>r, <1>t DEF JournalTypes
  <2>2. \A q \in UsageReaders : ReaderIsInside(q)'
    BY <1>r, <1>t, ReadersStay
  <2>3. QED
    BY <1>r, <2>1, <2>2 DEF UsageTypes
<1>1. CASE BeginRecord
  <2>1. JournalTypes'
    BY <1>1, <1>t DEF BeginRecord, JournalTypes, Session
  <2>2. QED BY <1>1, <1>s, <1>t, <2>1 DEF BeginRecord
<1>2. CASE EndRecord
  <2>1. opened' = opened /\ usageFile' = usageFile
    BY <1>2 DEF EndRecord
  <2>2. /\ JournalTypes' /\ reading' \in [UsageReaders -> Readers]
        /\ \A r \in UsageReaders : /\ reading'[r].next = reading[r].next
                                   /\ reading'[r].names = reading[r].names
                                   /\ reading'[r].file = reading[r].file
    BY <1>2, EndingFacts
  <2>3. opened' \in Segments /\ opened' >= opened
    BY <1>t, <2>1
  <2>4. \A r \in UsageReaders : ReaderIsInside(r)'
    BY <2>2, <2>3, ReadersStay
  <2>5. IsCountedOnce(usageFile)'
    BY <1>t, <2>1 DEF IsCountedOnce
  <2>6. QED
    BY <1>t, <2>1, <2>2, <2>4, <2>5 DEF UsageTypes
<1>3. CASE OpenSegment
  <2>1. opened' \in Segments /\ opened' >= opened /\ opened' = opened + 1
    BY <1>3, <1>t, SegmentAssumption DEF OpenSegment, Segments
  <2>2. JournalTypes'
    BY <1>3, <1>t, <2>1 DEF OpenSegment, JournalTypes, Segments
  <2>3. QED BY <1>3, <1>s, <2>1, <2>2 DEF OpenSegment
<1>4. ASSUME NEW s \in Segments, RemoveSegment(s) PROVE UsageTypes'
  <2>1. s \in 1 .. opened - 1
    BY <1>4, <1>t DEF RemoveSegment, Present, JournalTypes
  <2>2. JournalTypes'
    BY <1>4, <1>t, <2>1 DEF RemoveSegment, JournalTypes
  <2>3. QED BY <1>4, <1>s, <1>t, <2>2 DEF RemoveSegment
<1>5. ASSUME NEW s \in Segments, RewriteSegment(s) PROVE UsageTypes'
  <2>1. s \notin removed /\ ~(s > opened) /\ journal[s] \in Seq(JournalRecords) /\ journal[s] # <<>>
    BY <1>5, <1>t DEF RewriteSegment, Present, JournalTypes, Segments
  <2>2. Tail(journal[s]) \in Seq(JournalRecords)
    BY <2>1, HeadTailProperties
  <2>3. JournalTypes'
    BY <1>5, <1>t, <2>1, <2>2 DEF RewriteSegment, JournalTypes
  <2>4. QED BY <1>5, <1>s, <1>t, <2>3 DEF RewriteSegment
<1>6. CASE OldVersionReads
  <2> DEFINE after == Counted(EmptySegment, 1, {})
  <2>1. /\ opened = 1 /\ 1 \in Segments
        /\ UNCHANGED <<reading, journal, opened, removed, partial, journaled>>
        /\ usageFile' = [usageFile EXCEPT !.segments[1] = after]
    BY <1>6, SegmentAssumption DEF OldVersionReads, vibeVars, Segments
  <2>2. EmptySegment \in SegmentTotals /\ EmptySegment.callIds = {} /\ EmptySegment.offset = 0
    BY NoUsageFacts DEF EmptySegment
  <2>3. Len(journal[1]) \in Nat
    BY <1>t, <2>1, ReadFacts
  <2>4. after \in SegmentTotals
    BY <1>t, <2>1, <2>2, <2>3, CountedFacts
  <2> HIDE DEF after
  <2>5. usageFile' \in UsageFiles
    BY <1>t, <2>1, <2>4 DEF UsageFiles
  <2>6. \A t \in Segments : t # 1 => usageFile'.segments[t] = usageFile.segments[t] /\ t > opened
    BY <1>t, <2>1 DEF UsageFiles, Segments
  <2>7. \A t \in Segments : t # 1 =>
          usageFile'.segments[t].callIds = {} /\ usageFile'.segments[t].offset = 0
    BY <1>t, <2>6 DEF IsCountedOnce, UsageFiles, SegmentTotals, EmptySegment
  <2>8. IsCountedOnce(usageFile)'
    BY <2>1, <2>7 DEF IsCountedOnce
  <2>9. JournalTypes' /\ \A r \in UsageReaders : ReaderIsInside(r)'
    BY <1>t, <2>1 DEF JournalTypes, ReaderIsInside, IsCountedOnce
  <2>10. QED
    BY <1>t, <2>1, <2>5, <2>8, <2>9 DEF UsageTypes
<1>7. ASSUME NEW r \in UsageReaders, ListSegments(r) PROVE UsageTypes'
  <2>1. UNCHANGED <<journal, opened, removed, partial, journaled>> /\ usageFile' = usageFile
    BY <1>7, <1>t, ListingFacts
  <2>2. IsCountedOnce(usageFile)' /\ ReaderIsInside(r)'
    BY <1>7, <1>t, <2>1, ListingFacts, NoUsageFacts DEF ReaderIsInside, IsCountedOnce
  <2>3. QED BY <1>7, <1>r, <1>t, <2>1, <2>2, ListingFacts
<1>8. ASSUME NEW r \in UsageReaders, ReadSegment(r) PROVE UsageTypes'
  <2>1. UNCHANGED <<journal, opened, removed, partial, journaled>> /\ usageFile' = usageFile
    BY <1>8 DEF ReadSegment, vibeVars
  <2>2. IsCountedOnce(usageFile)' /\ IsCountedOnce(FileRead(r)) /\ opened' = opened
    BY <1>8, <1>t, <2>1, ReadingCountsOnce DEF IsCountedOnce
  <2>3. /\ reading'[r].next \in reading[r].names \cup {SegmentCount + 1}
        /\ reading'[r].names = reading[r].names /\ reading'[r].file = FileRead(r)
    <3>1. reading[r].next \in Nat /\ reading[r].names \in SUBSET Segments
      BY <1>t DEF Readers
    <3>2. After(reading[r].names, reading[r].next) \in reading[r].names \cup {SegmentCount + 1}
      BY <3>1, AfterIsNext
    <3>3. QED BY <1>8, <3>2, ReadingFacts
  <2>4. IsCountedOnce(reading[r].file)'
    <3>1. /\ \A s, t \in Segments :
                "call" \in reading'[r].file.segments[s].callIds
                             \cap reading'[r].file.segments[t].callIds => s = t
          /\ \A s \in Segments : s > opened' => reading'[r].file.segments[s].offset = 0
      BY <2>2, <2>3 DEF IsCountedOnce
    <3>2. QED BY <3>1 DEF IsCountedOnce
  <2>5. ReaderIsInside(r)'
    BY <1>t, <2>2, <2>3, <2>4 DEF ReaderIsInside, IsCountedOnce
  <2>6. QED BY <1>8, <1>r, <1>t, <2>1, <2>2, <2>5, ReadingFacts
<1>9. ASSUME NEW r \in UsageReaders, ReadFails(r) \/ SaveUsage(r) \/ SaveFails(r) PROVE UsageTypes'
  <2>1. /\ UNCHANGED <<journal, opened, removed, partial, journaled>>
        /\ reading' = [reading EXCEPT ![r] = IdleReader]
    BY <1>9 DEF ReadFails, SaveUsage, SaveFails, vibeVars
  <2>2. ReaderIsInside(r)'
    BY <2>1, IdleFacts, NoUsageFacts DEF ReaderIsInside, IsCountedOnce
  <2>3. [reading[r].file EXCEPT !.hasMeasures = TRUE] \in UsageFiles
        /\ [reading[r].file EXCEPT !.hasMeasures = TRUE].segments = reading[r].file.segments
    BY <1>t DEF UsageFiles
  <2>4. \/ usageFile' = usageFile
        \/ usageFile' = [reading[r].file EXCEPT !.hasMeasures = TRUE]
        \/ usageFile' = NoUsageFile
    BY <1>9 DEF ReadFails, SaveUsage, SaveFails
  <2>5. usageFile' \in UsageFiles /\ IsCountedOnce(usageFile)'
    BY <1>t, <2>1, <2>3, <2>4, NoUsageFacts DEF IsCountedOnce
  <2>6. QED BY <1>r, <1>t, <2>1, <2>2, <2>5, IdleFacts
<1>10. CASE UNCHANGED usageVars
  BY <1>10, <1>t DEF usageVars, UsageTypes, JournalTypes, ReaderIsInside, IsCountedOnce
<1>11. QED
  BY <1>1, <1>2, <1>3, <1>4, <1>5, <1>6, <1>7, <1>8, <1>9, <1>10
  DEF UsageNext, JournalStep, ReaderStep

-----------------------------------------------------------------------------
(* The records of the session, counted                                     *)

\* A vision call is counted once in what was read, or not at all.
LEMMA LooksCounted ==
  ASSUME NEW file \in UsageFiles, IsCountedOnce(file)
  PROVE  Looks(file) = IF SeenCalls(file) = {} THEN 0 ELSE 1
<1> DEFINE looks == [s \in Segments |-> file.segments[s].looks]
           none == [s \in Segments |-> 0]
<1>1. /\ looks \in [Segments -> Nat] /\ none \in [Segments -> Nat]
      /\ \A s \in Segments : /\ file.segments[s].callIds \subseteq {"call"}
                             /\ looks[s] = IF "call" \in file.segments[s].callIds THEN 1 ELSE 0
  BY DEF UsageFiles, SegmentTotals
<1>2. Sum(none) = 0
  BY <1>1, SumOfZeros
<1>3. CASE \A s \in Segments : "call" \notin file.segments[s].callIds
  <2>1. SeenCalls(file) = {}
    BY <1>1, <1>3 DEF SeenCalls
  <2>2. \A s \in Segments : looks[s] = 0
    BY <1>1, <1>3
  <2> HIDE DEF looks
  <2>3. Sum(looks) = 0
    BY <1>1, <2>2, SumOfZeros
  <2>4. QED BY <2>1, <2>3 DEF Looks, looks
<1>4. CASE \E s \in Segments : "call" \in file.segments[s].callIds
  <2>1. PICK s \in Segments : "call" \in file.segments[s].callIds
    BY <1>4
  <2>2. SeenCalls(file) # {}
    BY <2>1 DEF SeenCalls
  <2>3. looks[s] = 1 /\ \A t \in Segments \ {s} : looks[t] = none[t]
    BY <1>1, <2>1 DEF IsCountedOnce
  <2>4. none[s] = 0
    OBVIOUS
  <2> HIDE DEF looks, none
  <2>5. Sum(looks) \in Nat /\ Sum(looks) + none[s] = Sum(none) + looks[s]
    BY <1>1, <2>3, SumChanges
  <2>6. Sum(looks) = 1
    BY <1>2, <2>3, <2>4, <2>5
  <2>7. QED BY <2>2, <2>6 DEF Looks, looks
<1>5. QED BY <1>3, <1>4

\* The records of the session between two places.
LEMMA BetweenFacts ==
  ASSUME NEW m \in 0 .. 4, NEW n \in 0 .. 4
  PROVE  /\ \A kind : Between(kind, m, n) \subseteq Actions
         /\ "look" \in Between("intent", m, n) <=> m < 1 /\ 1 <= n
         /\ "look" \in Between("result", m, n) <=> m < 2 /\ 2 <= n
         /\ "echo" \in Between("intent", m, n) <=> m < 3 /\ 3 <= n
         /\ "echo" \in Between("result", m, n) <=> m < 4 /\ 4 <= n
<1>1. \A i \in m + 1 .. n :
        /\ Session[i] = <<"intent", "look">> <=> i = 1
        /\ Session[i] = <<"result", "look">> <=> i = 2
        /\ Session[i] = <<"intent", "echo">> <=> i = 3
        /\ Session[i] = <<"result", "echo">> <=> i = 4
  <2>1. \A i \in m + 1 .. n : i = 1 \/ i = 2 \/ i = 3 \/ i = 4
    OBVIOUS
  <2>2. /\ Session[1] = <<"intent", "look">> /\ Session[2] = <<"result", "look">>
        /\ Session[3] = <<"intent", "echo">> /\ Session[4] = <<"result", "echo">>
    BY DEF Session
  <2>3. QED BY <2>1, <2>2
<1>2. \A kind, a : a \in Between(kind, m, n) <=>
        a \in Actions /\ \E i \in m + 1 .. n : Session[i] = <<kind, a>>
  BY DEF Between
<1>3. \A k \in 1 .. 4 : k \in m + 1 .. n <=> m < k /\ k <= n
  OBVIOUS
<1>4. "look" \in Between("intent", m, n) <=> 1 \in m + 1 .. n
  BY <1>1, <1>2 DEF Actions
<1>5. "look" \in Between("result", m, n) <=> 2 \in m + 1 .. n
  BY <1>1, <1>2 DEF Actions
<1>6. "echo" \in Between("intent", m, n) <=> 3 \in m + 1 .. n
  BY <1>1, <1>2 DEF Actions
<1>7. "echo" \in Between("result", m, n) <=> 4 \in m + 1 .. n
  BY <1>1, <1>2 DEF Actions
<1>8. QED
  BY <1>2, <1>3, <1>4, <1>5, <1>6, <1>7

\* Sets of actions, counted.
LEMMA ActionCounts ==
  ASSUME NEW A \in SUBSET Actions
  PROVE  Cardinality(A) = (IF "look" \in A THEN 1 ELSE 0) + (IF "echo" \in A THEN 1 ELSE 0)
<1>1. Cardinality({}) = 0 /\ Cardinality({"look"}) = 1 /\ Cardinality({"echo"}) = 1
      /\ IsFiniteSet({"look"})
  BY FS_EmptySet, FS_Singleton
<1>2. Cardinality({"look"} \cup {"echo"}) = 2
  BY <1>1, FS_AddElement
<1>3. A = {} \/ A = {"look"} \/ A = {"echo"} \/ A = {"look"} \cup {"echo"}
  BY DEF Actions
<1>4. QED BY <1>1, <1>2, <1>3

\* The results of the session, counted piece by piece.
LEMMA ResultsAdd ==
  ASSUME NEW m \in 0 .. 4, NEW n \in 0 .. 4, m <= n
  PROVE  /\ Results(m) + Cardinality(Between("result", m, n)) = Results(n)
         /\ Results(m) \in Nat
<1>1. Cardinality(Between("result", m, n)) =
        (IF m < 2 /\ 2 <= n THEN 1 ELSE 0) + (IF m < 4 /\ 4 <= n THEN 1 ELSE 0)
  BY BetweenFacts, ActionCounts
<1>2. QED
  BY <1>1 DEF Results

\* Measures of the first records of the session, and of those that follow.
LEMMA MeasuresAdd ==
  ASSUME NEW m \in 0 .. 4, NEW n \in 0 .. 4, m <= n, NEW s, NEW from,
         Read(s, from, "result") = Between("result", m, n),
         Read(s, from, "intent") = Between("intent", m, n)
  PROVE  Measured(MeasuresOf(m), s, from) = MeasuresOf(n)
<1> DEFINE found == Between("result", m, n)
           pending(k) == Between("intent", 0, k) \ Between("result", 0, k)
           intended == pending(m) \cup Between("intent", m, n)
<1>1. found \subseteq intended /\ intended \ found = pending(n)
  <2>1. /\ found \subseteq Actions /\ intended \subseteq Actions /\ pending(n) \subseteq Actions
        /\ \A a \in Actions : a = "look" \/ a = "echo"
    BY BetweenFacts DEF Actions
  <2>2. /\ "look" \in found => "look" \in intended
        /\ "echo" \in found => "echo" \in intended
    BY BetweenFacts
  <2>3. /\ "look" \in intended \ found <=> "look" \in pending(n)
        /\ "echo" \in intended \ found <=> "echo" \in pending(n)
    BY BetweenFacts
  <2> HIDE DEF found, intended, pending
  <2>4. QED BY <2>1, <2>2, <2>3
<1>2. Cardinality(found \ intended) = 0
  <2>1. found \ intended = {}
    BY <1>1
  <2>2. QED BY <2>1, FS_EmptySet
<1>3. Results(m) + Cardinality(found) = Results(n)
  BY ResultsAdd
<1>4. Measured(MeasuresOf(m), s, from) =
        [calls |-> Results(m) + Cardinality(found), strays |-> 0 + Cardinality(found \ intended),
         pending |-> intended \ found]
  BY DEF Measured, MeasuresOf
<1> HIDE DEF found, intended
<1>5. 0 + Cardinality(found \ intended) = 0
  BY <1>2
<1>6. QED
  BY <1>1, <1>3, <1>4, <1>5 DEF MeasuresOf

-----------------------------------------------------------------------------
(* A reading goes on from the first records to more                        *)

\* Where segments begin and end among the records of the session.
LEMMA EndFacts ==
  ASSUME UsageTypes, NEW begin \in [Segments -> 0 .. 4], Divides(begin)
  PROVE  /\ \A s \in 1 .. opened :
              /\ s \in Segments /\ begin[s] \in 0 .. 4 /\ EndOf(begin, s) \in 0 .. 4
              /\ begin[s] <= EndOf(begin, s) /\ EndOf(begin, s) <= journaled
              /\ \A t \in 1 .. opened : t > s => EndOf(begin, s) <= begin[t]
              /\ \A t \in 1 .. opened : t >= s => EndOf(begin, s) <= EndOf(begin, t)
              /\ s \notin removed => Len(journal[s]) = EndOf(begin, s) - begin[s]
         /\ EndOf(begin, opened) = journaled
         /\ \A s \in removed : s \in 1 .. opened /\ EndOf(begin, s) = begin[s + 1]
<1>1. opened \in Nat /\ journaled \in 0 .. 4 /\ \A s \in 1 .. opened : s \in Segments
      /\ removed \subseteq 1 .. opened - 1
  BY SegmentAssumption DEF UsageTypes, JournalTypes, Segments
<1>2. \A s \in 1 .. opened : begin[s] \in 0 .. 4 /\ begin[s] <= journaled
      /\ \A t \in 1 .. opened : s <= t => begin[s] <= begin[t]
  BY <1>1 DEF Divides
<1>3. \A s \in 1 .. opened : s < opened => s + 1 \in 1 .. opened
      /\ \A t \in 1 .. opened : t > s => s < opened /\ s + 1 <= t
  BY <1>1
<1>4. \A s \in 1 .. opened :
        /\ EndOf(begin, s) \in 0 .. 4 /\ begin[s] <= EndOf(begin, s) /\ EndOf(begin, s) <= journaled
        /\ \A t \in 1 .. opened : t > s => EndOf(begin, s) <= begin[t]
  BY <1>1, <1>2, <1>3 DEF EndOf
<1>5. ASSUME NEW s \in 1 .. opened, NEW t \in 1 .. opened, t >= s
      PROVE  EndOf(begin, s) <= EndOf(begin, t)
  <2>1. CASE t = s
    BY <2>1, <1>4
  <2>2. CASE t > s
    BY <2>2, <1>2, <1>4
  <2>3. QED BY <1>1, <1>5, <2>1, <2>2
<1>6. EndOf(begin, opened) = journaled
      /\ \A s \in removed : s \in 1 .. opened /\ EndOf(begin, s) = begin[s + 1]
  <2>1. \A s \in 1 .. opened - 1 : s \in 1 .. opened /\ s < opened
    BY <1>1
  <2>2. ~(opened < opened)
    BY <1>1
  <2>3. EndOf(begin, opened) = journaled
    BY <2>2 DEF EndOf
  <2>4. \A s \in 1 .. opened - 1 : s \in 1 .. opened /\ EndOf(begin, s) = begin[s + 1]
    BY <2>1 DEF EndOf
  <2>5. \A s \in removed : s \in 1 .. opened - 1
    <3>1. removed \subseteq 1 .. opened - 1
      BY DEF UsageTypes, JournalTypes
    <3>2. QED BY <3>1
  <2>6. QED BY <2>3, <2>4, <2>5
<1>7. \A s \in 1 .. opened : s \notin removed => Len(journal[s]) = EndOf(begin, s) - begin[s]
  BY DEF Divides
<1>8. QED
  BY <1>1, <1>2, <1>4, <1>5, <1>6, <1>7

\* What is read of a segment is what the session has there.
LEMMA ReadIsBetween ==
  ASSUME UsageTypes, NEW begin \in [Segments -> 0 .. 4], Divides(begin),
         NEW s \in 1 .. opened, s \notin removed,
         NEW from \in Nat, from <= Len(journal[s]), NEW kind
  PROVE  Read(s, from, kind) = Between(kind, begin[s] + from, EndOf(begin, s))
<1>1. /\ begin[s] \in 0 .. 4 /\ EndOf(begin, s) \in 0 .. 4
      /\ Len(journal[s]) = EndOf(begin, s) - begin[s]
  BY EndFacts
<1>2. \A i \in 1 .. Len(journal[s]) : journal[s][i] = Session[begin[s] + i]
  BY DEF Divides
<1>3. \A i \in from + 1 .. Len(journal[s]) :
        /\ begin[s] + i \in begin[s] + from + 1 .. EndOf(begin, s)
        /\ journal[s][i] = Session[begin[s] + i]
  BY <1>1, <1>2
<1>4. \A j \in begin[s] + from + 1 .. EndOf(begin, s) :
        /\ j - begin[s] \in from + 1 .. Len(journal[s])
        /\ journal[s][j - begin[s]] = Session[j]
  <2>1. \A j \in begin[s] + from + 1 .. EndOf(begin, s) :
          /\ j - begin[s] \in from + 1 .. Len(journal[s])
          /\ begin[s] + (j - begin[s]) = j
    BY <1>1
  <2>2. QED BY <2>1, <1>3
<1>5. \A a : (\E i \in from + 1 .. Len(journal[s]) : journal[s][i] = <<kind, a>>)
             <=> (\E j \in begin[s] + from + 1 .. EndOf(begin, s) : Session[j] = <<kind, a>>)
  BY <1>3, <1>4
<1>6. QED
  BY <1>5 DEF Read, Between, Actions

\* A call that skips segments that were removed skips nothing that it has not read.
LEMMA SkippedAreRead ==
  ASSUME UsageTypes, NEW begin \in [Segments -> 0 .. 4], Divides(begin), NEW m \in Nat,
         \A u \in removed : m >= begin[u + 1] \/ begin[u] = begin[u + 1],
         NEW s \in Nat, NEW t \in s + 1 .. opened,
         \A u \in s + 1 .. t - 1 : u \in removed,
         begin[s + 1] <= m
  PROVE  begin[t] <= m
<1> DEFINE Behind == {u \in s + 1 .. t : ~(begin[u] <= m)}
<1>1. SUFFICES ASSUME Behind # {} PROVE FALSE
  <2>1. opened \in Nat
    BY DEF UsageTypes, JournalTypes, Segments
  <2>2. t \in s + 1 .. t
    BY <2>1
  <2>3. QED BY <1>1, <2>2
<1>2. PICK k \in Behind : \A u \in Behind : k <= u
  <2>1. Behind \in SUBSET Nat
    OBVIOUS
  <2> HIDE DEF Behind
  <2>2. QED BY <1>1, <2>1, LeastMember
<1>3. opened \in Nat /\ k \in s + 1 .. t /\ t \in s + 1 .. opened /\ ~(begin[k] <= m) /\ k # s + 1
  BY <1>2 DEF UsageTypes, JournalTypes, Segments
<1>4. k - 1 \in s + 1 .. t - 1 /\ k - 1 \in s + 1 .. t /\ (k - 1) + 1 = k /\ ~(k <= k - 1)
  BY <1>3
<1>5. begin[k - 1] <= m
  <2>1. k - 1 \notin Behind
    <3> HIDE DEF Behind
    <3>1. QED BY <1>2, <1>4
  <2>2. QED BY <2>1, <1>4
<1>6. m >= begin[k] \/ begin[k - 1] = begin[k]
  BY <1>4
<1>7. k \in Segments /\ begin[k] \in 0 .. 4
  <2>1. k \in 1 .. opened
    BY <1>3
  <2>2. QED BY <2>1, EndFacts
<1>8. QED
  BY <1>3, <1>5, <1>6, <1>7

\* A reading takes the totals of the first records of the session to those of more.
LEMMA ReadingAdvances ==
  ASSUME UsageTypes, NEW begin \in [Segments -> 0 .. 4], Divides(begin),
         NEW r \in UsageReaders, ReadSegment(r),
         NEW last \in Segments, NEW m \in 0 .. journaled, ReadsOn(r, begin, last, m)
  PROVE  \E k \in 0 .. journaled : ReadsOn(r, begin, last, k)'
<1> DEFINE me == reading[r]
           s == me.next
           file == me.file
           to == EndOf(begin, s)
           k == IF m < to THEN to ELSE m
<1>1. /\ s \in Segments /\ s \in me.names /\ s \in 1 .. opened /\ s \notin removed
      /\ last \in 1 .. opened /\ s <= last /\ me.names = (1 .. last) \ removed /\ last \notin removed
      /\ opened \in Nat /\ journaled \in 0 .. 4 /\ removed \subseteq 1 .. opened - 1
  BY ReadingFacts DEF ReadsOn, UsageTypes, JournalTypes, Segments
<1>2. /\ begin[s] \in 0 .. 4 /\ to \in 0 .. 4 /\ begin[s] <= to /\ to <= journaled
      /\ Len(journal[s]) = to - begin[s]
      /\ begin[s] <= m /\ m \in 0 .. 4 /\ m <= EndOf(begin, last) /\ to <= EndOf(begin, last)
      /\ EndOf(begin, last) \in 0 .. 4
      /\ HasRead(file, begin, m)
  BY <1>1, EndFacts DEF ReadsOn
<1>3. k \in 0 .. journaled /\ k \in 0 .. 4 /\ m <= k /\ to <= k /\ k <= EndOf(begin, last)
  BY <1>1, <1>2
<1>4. /\ file.segments \in [Segments -> SegmentTotals] /\ file \in UsageFiles
      /\ file.segments[s].offset = Part(begin, m, s)
      /\ file.segments[s].offset \in Nat /\ file.segments[s].requests \in Nat
      /\ JournalTypes
  BY <1>1, <1>2 DEF HasRead, UsageTypes, Readers, UsageFiles, SegmentTotals
<1>5. /\ file.segments[s].offset = (IF m < to THEN m - begin[s] ELSE Len(journal[s]))
      /\ file.segments[s].offset <= Len(journal[s])
  BY <1>1, <1>2, <1>4 DEF Part
<1>6. Resumed(r) = file.segments[s] /\ SeenBy(r) = SeenCalls(file)
  <2>1. Resumed(r) = file.segments[s]
    BY <1>2, <1>4, <1>5 DEF Resumed
  <2>2. [file EXCEPT !.segments[s] = file.segments[s]].segments = file.segments
    BY <1>1, <1>4 DEF UsageFiles
  <2>3. QED BY <2>1, <2>2 DEF SeenBy, SeenCalls
<1> DEFINE found == Read(s, file.segments[s].offset, "result")
           intended == Read(s, file.segments[s].offset, "intent")
<1>7. found = Between("result", m, k) /\ intended = Between("intent", m, k)
  <2>1. /\ found = Between("result", begin[s] + file.segments[s].offset, to)
        /\ intended = Between("intent", begin[s] + file.segments[s].offset, to)
    BY <1>1, <1>4, <1>5, ReadIsBetween
  <2>2. CASE m < to
    <3>1. begin[s] + file.segments[s].offset = m
      BY <2>2, <1>2, <1>5
    <3>2. QED BY <2>1, <2>2, <3>1
  <2>3. CASE ~(m < to)
    <3>1. begin[s] + file.segments[s].offset = to /\ k = m
      BY <2>3, <1>2, <1>5
    <3>2. \A kind : Between(kind, to, to) = {} /\ Between(kind, m, m) = {}
      <4>1. to + 1 .. to = {} /\ m + 1 .. m = {}
        BY <1>2
      <4>2. QED BY <4>1 DEF Between
    <3>3. QED BY <2>1, <3>1, <3>2
  <2>4. QED BY <2>2, <2>3
<1>8. /\ ReadTotals(r).offset = Len(journal[s])
      /\ ReadTotals(r).requests = file.segments[s].requests + Cardinality(found)
      /\ "call" \in ReadTotals(r).callIds
           <=> "call" \in file.segments[s].callIds \/ (found # {} /\ "call" \notin SeenCalls(file))
      /\ ReadTotals(r) \in SegmentTotals
  <2>1. ReadTotals(r) = Counted(file.segments[s], s, SeenCalls(file))
    BY <1>6 DEF ReadTotals
  <2>2. file.segments[s] \in SegmentTotals /\ file.segments[s].callIds \subseteq SeenCalls(file)
    BY <1>1, <1>4 DEF SeenCalls
  <2>3. /\ Counted(file.segments[s], s, SeenCalls(file)) \in SegmentTotals
        /\ Counted(file.segments[s], s, SeenCalls(file)).offset = Len(journal[s])
        /\ Counted(file.segments[s], s, SeenCalls(file)).requests
             = file.segments[s].requests + Cardinality(found)
        /\ "call" \in Counted(file.segments[s], s, SeenCalls(file)).callIds
             <=> "call" \in file.segments[s].callIds \/ (found # {} /\ "call" \notin SeenCalls(file))
    <3>1. PICK segment \in SegmentTotals : segment = file.segments[s]
      BY <2>2
    <3>s. PICK seen : seen = SeenCalls(file)
      OBVIOUS
    <3>2. segment.callIds \subseteq seen /\ segment.offset <= Len(journal[s])
      BY <3>1, <3>s, <2>2, <1>5
    <3>3. /\ Counted(segment, s, seen) \in SegmentTotals
          /\ Counted(segment, s, seen).offset = Len(journal[s])
          /\ Counted(segment, s, seen).requests
               = segment.requests + Cardinality(Read(s, segment.offset, "result"))
          /\ "call" \in Counted(segment, s, seen).callIds
               <=> "call" \in segment.callIds
                   \/ (Read(s, segment.offset, "result") # {} /\ "call" \notin seen)
      BY <3>2, <1>1, <1>4, CountedFacts
    <3>4. QED BY <3>1, <3>3, <3>s
  <2>4. QED BY <2>1, <2>3
<1> DEFINE new == FileRead(r)
<1>9. /\ new.segments[s] = ReadTotals(r)
      /\ \A t \in Segments : t # s => new.segments[t] = file.segments[t]
      /\ new.segments \in [Segments -> SegmentTotals]
      /\ new.hasMeasures = file.hasMeasures /\ new.measures = ReadMeasures(r)
  BY <1>1, <1>4, <1>8 DEF FileRead
<1> HIDE DEF found, intended, new
<1>10. \A t \in 1 .. opened : new.segments[t].offset = Part(begin, k, t)
  <2> SUFFICES ASSUME NEW t \in 1 .. opened PROVE new.segments[t].offset = Part(begin, k, t)
    OBVIOUS
  <2>1. /\ t \in Segments /\ begin[t] \in 0 .. 4 /\ EndOf(begin, t) \in 0 .. 4
        /\ begin[t] <= EndOf(begin, t)
        /\ s > t => EndOf(begin, t) <= begin[s]
        /\ t > s => to <= begin[t]
    BY <1>1, EndFacts
  <2>2. CASE t = s
    BY <2>1, <2>2, <1>2, <1>3, <1>8, <1>9 DEF Part
  <2>3. CASE t # s
    <3>1. new.segments[t].offset = Part(begin, m, t)
      BY <2>1, <2>3, <1>2, <1>9 DEF HasRead
    <3>2. Part(begin, m, t) = Part(begin, k, t)
      <4>1. CASE s > t
        BY <4>1, <2>1, <1>2, <1>3 DEF Part
      <4>2. CASE t > s
        BY <4>2, <2>1, <1>2, <1>3 DEF Part
      <4>3. QED BY <4>1, <4>2, <2>3, <1>1
    <3>3. QED BY <3>1, <3>2
  <2>4. QED BY <2>2, <2>3
<1>11. Requests(new) = Results(k)
  <2> DEFINE f == [t \in Segments |-> file.segments[t].requests]
             e == [t \in Segments |-> new.segments[t].requests]
  <2>1. f \in [Segments -> Nat] /\ e \in [Segments -> Nat]
    BY <1>4, <1>9 DEF SegmentTotals
  <2>2. (\A t \in Segments \ {s} : e[t] = f[t]) /\ f[s] \in Nat /\ e[s] = f[s] + Cardinality(found)
    BY <1>1, <1>4, <1>8, <1>9
  <2>3. Requests(file) = Sum(f) /\ Requests(new) = Sum(e)
    BY DEF Requests
  <2> HIDE DEF f, e
  <2>4. Sum(f) \in Nat /\ Sum(e) \in Nat /\ Sum(e) + f[s] = Sum(f) + e[s]
    BY <1>1, <2>1, <2>2, SumChanges
  <2>5. /\ Sum(f) = Results(m) /\ Results(m) + Cardinality(found) = Results(k)
        /\ Cardinality(found) \in Nat
    <3>1. Sum(f) = Results(m)
      BY <1>2, <2>3 DEF HasRead
    <3>2. found \in SUBSET Actions
      BY <1>2, <1>3, <1>7, BetweenFacts
    <3>3. QED BY <3>1, <3>2, <1>2, <1>3, <1>7, ResultsAdd, ActionSets
  <2>6. QED
    <3>1. PICK a \in Nat, b \in Nat, c \in Nat, d \in Nat :
            a = Sum(e) /\ b = f[s] /\ c = Sum(f) /\ d = Cardinality(found)
      BY <2>2, <2>4, <2>5
    <3>2. a + b = c + (b + d)
      BY <3>1, <2>2, <2>4
    <3>3. a = c + d
      BY <3>2
    <3>4. QED BY <3>1, <3>3, <2>3, <2>5
<1>12. SeenCalls(new) # {} <=> k >= 2
  <2>1. SeenCalls(file) # {} <=> m >= 2
    BY <1>2 DEF HasRead
  <2>2. \A t \in Segments : /\ file.segments[t].callIds \subseteq {"call"}
                            /\ new.segments[t].callIds \subseteq {"call"}
    BY <1>4, <1>9 DEF SegmentTotals
  <2>3. found # {} <=> (m < 2 /\ 2 <= k) \/ (m < 4 /\ 4 <= k)
    <3>1. found \subseteq Actions
      BY <1>2, <1>3, <1>7, BetweenFacts
    <3>2. found # {} <=> "look" \in found \/ "echo" \in found
      BY <3>1 DEF Actions
    <3>3. QED BY <3>2, <1>2, <1>3, <1>7, BetweenFacts
  <2>4. SeenCalls(new) # {} <=> SeenCalls(file) # {} \/ found # {}
    BY <1>1, <1>8, <1>9, <2>2 DEF SeenCalls
  <2>5. QED BY <2>1, <2>3, <2>4, <1>2, <1>3
<1>13. file.hasMeasures => new.measures = MeasuresOf(k)
  <2> SUFFICES ASSUME file.hasMeasures PROVE ReadMeasures(r) = MeasuresOf(k)
    BY <1>9
  <2>1. ReadMeasures(r) = Measured(MeasuresOf(m), s, file.segments[s].offset)
    BY <1>2, <1>6 DEF ReadMeasures, MeasuredFrom, HasRead
  <2>2. QED BY <2>1, <1>2, <1>3, <1>7, MeasuresAdd DEF found, intended
<1>14. HasRead(new, begin, k)
  <2>1. \A u \in removed : k >= begin[u + 1] \/ begin[u] = begin[u + 1]
    <3>1. \A u \in removed : m >= begin[u + 1] \/ begin[u] = begin[u + 1]
      BY <1>2 DEF HasRead
    <3>2. \A u \in removed : begin[u + 1] \in 0 .. 4
      BY EndFacts
    <3>3. QED BY <3>1, <3>2, <1>2, <1>3
  <2>2. QED BY <2>1, <1>9, <1>10, <1>11, <1>12, <1>13 DEF HasRead
<1> DEFINE next == After(me.names, s)
<1>15. /\ next \in me.names \cup {SegmentCount + 1}
       /\ next \in me.names => next > s /\ next \in 1 .. last
                               /\ \A u \in s + 1 .. next - 1 : u \in removed
       /\ next = SegmentCount + 1 => s = last
  <2>1. me.names \in SUBSET Segments /\ s \in Nat
    BY <1>1 DEF UsageTypes, Readers, Segments
  <2>2. /\ next \in me.names \cup {SegmentCount + 1}
        /\ next \in me.names => next > s /\ \A n \in me.names : n > s => next <= n
        /\ next = SegmentCount + 1 => \A n \in me.names : n <= s
    BY <2>1, AfterIsNext
  <2>3. ASSUME next \in me.names, NEW u \in s + 1 .. next - 1 PROVE u \in removed
    <3>1. next \in 1 .. last /\ last \in Nat
      BY <2>3, <1>1
    <3>2. u \in 1 .. last /\ u > s /\ ~(next <= u)
      BY <2>1, <2>3, <3>1, <1>1
    <3>3. QED BY <2>2, <2>3, <3>2, <1>1
  <2>4. last \in me.names
    BY <1>1
  <2>5. next = SegmentCount + 1 => s = last
    BY <2>2, <2>4, <1>1
  <2>6. QED BY <2>2, <2>3, <2>5, <1>1
<1>16. next \in me.names => begin[next] <= k
  <2> SUFFICES ASSUME next \in me.names PROVE begin[next] <= k
    OBVIOUS
  <2>1. next > s /\ next \in 1 .. last /\ next \in s + 1 .. opened /\ s < opened
    BY <1>1, <1>15
  <2>2. to = begin[s + 1]
    BY <2>1 DEF EndOf
  <2>3. \A u \in removed : k >= begin[u + 1] \/ begin[u] = begin[u + 1]
    BY <1>14 DEF HasRead
  <2>4. \A u \in s + 1 .. next - 1 : u \in removed
    BY <1>15
  <2> HIDE DEF next, k, to
  <2>5. k \in Nat /\ s \in Nat /\ begin[s + 1] <= k
    BY <1>1, <1>3, <2>2
  <2>6. QED BY <2>1, <2>3, <2>4, <2>5, SkippedAreRead
<1>17. ~file.hasMeasures =>
         /\ removed = {}
         /\ ReadMeasures(r) = MeasuresOf(IF next = SegmentCount + 1 THEN k ELSE begin[next])
  <2> SUFFICES ASSUME ~file.hasMeasures
               PROVE  /\ removed = {}
                      /\ ReadMeasures(r) = MeasuresOf(IF next = SegmentCount + 1 THEN k ELSE begin[next])
    OBVIOUS
  <2>1. s # SegmentCount + 1
    BY <1>1, SegmentAssumption DEF Segments
  <2>2. removed = {} /\ file.measures = MeasuresOf(begin[s])
    BY <2>1 DEF ReadsOn, Answers
  <2>3. ReadMeasures(r) = Measured(MeasuresOf(begin[s]), s, 0)
    BY <2>2 DEF ReadMeasures, MeasuredFrom
  <2>4. /\ Read(s, 0, "result") = Between("result", begin[s], to)
        /\ Read(s, 0, "intent") = Between("intent", begin[s], to)
    <3>1. 0 \in Nat /\ 0 <= Len(journal[s]) /\ begin[s] + 0 = begin[s]
      BY <1>2
    <3>2. QED BY <3>1, <1>1, ReadIsBetween
  <2>5. ReadMeasures(r) = MeasuresOf(to)
    BY <2>3, <2>4, <1>2, MeasuresAdd
  <2>6. CASE next = SegmentCount + 1
    <3>1. to = EndOf(begin, last)
      BY <2>6, <1>15
    <3>2. k = to
      BY <3>1, <1>2
    <3>3. QED BY <2>2, <2>5, <2>6, <3>2
  <2>7. CASE next # SegmentCount + 1
    <3>1. next \in me.names /\ next > s /\ next \in 1 .. last /\ \A u \in s + 1 .. next - 1 : FALSE
      BY <2>2, <2>7, <1>15
    <3>2. next = s + 1 /\ s < opened
      <4>1. next \in Nat /\ s \in Nat /\ next <= opened
        BY <3>1, <1>1
      <4> HIDE DEF next
      <4>2. next # s + 1 => s + 1 \in s + 1 .. next - 1
        BY <3>1, <4>1
      <4>3. next = s + 1
        BY <3>1, <4>2
      <4>4. QED BY <4>1, <4>3, <1>1
    <3>3. begin[next] = to
      BY <3>2 DEF EndOf
    <3>4. QED BY <2>2, <2>5, <2>7, <3>3
  <2>8. QED BY <2>6, <2>7
<1>18. UNCHANGED <<journal, opened, removed, journaled>>
  BY DEF ReadSegment, vibeVars
<1>19. /\ reading'[r].next = next /\ reading'[r].names = me.names
       /\ reading'[r].quiet = me.quiet /\ reading'[r].file = new
  BY ReadingFacts DEF new
<1>20. me.quiet => EndOf(begin, last) = journaled /\ (next = SegmentCount + 1 => k = journaled)
  <2>1. me.quiet => EndOf(begin, last) = journaled
    BY DEF ReadsOn
  <2>2. next = SegmentCount + 1 => to = EndOf(begin, last)
    BY <1>15
  <2>3. QED BY <2>1, <2>2, <1>2
<1>21. PICK n \in 0 .. journaled : n = k
  BY <1>3
<1>22. PICK written : written = new
  OBVIOUS
<1> HIDE DEF next, k
<1>23. HasRead(written, begin, n)'
  <2>1. HasRead(written, begin, n)
    BY <1>14, <1>21, <1>22
  <2>2. QED BY <2>1, <1>18 DEF HasRead, Part, EndOf
<1>24. ReadsOn(r, begin, last, n)'
  <2>1. /\ last \in 1 .. opened' /\ reading'[r].names = (1 .. last) \ removed' /\ last \notin removed'
        /\ n <= EndOf(begin, last)'
    BY <1>1, <1>3, <1>18, <1>19, <1>21 DEF EndOf
  <2>2. HasRead(reading[r].file, begin, n)'
    BY <1>19, <1>22, <1>23 DEF HasRead
  <2>3. /\ reading'[r].next \in reading'[r].names => begin[reading'[r].next] <= n
        /\ reading'[r].quiet => (EndOf(begin, last) = journaled)'
        /\ Answers(r)' /\ reading'[r].quiet => n = journaled'
    BY <1>16, <1>18, <1>19, <1>20, <1>21 DEF Answers, EndOf
  <2>4. ~reading'[r].file.hasMeasures =>
          /\ removed' = {}
          /\ reading'[r].file.measures
               = MeasuresOf(IF Answers(r)' THEN n ELSE begin[reading'[r].next])
    BY <1>9, <1>17, <1>18, <1>19, <1>21 DEF Answers
  <2>5. QED BY <2>1, <2>2, <2>3, <2>4 DEF ReadsOn
<1>25. QED
  BY <1>18, <1>24

-----------------------------------------------------------------------------
(* Every step keeps what was read                                          *)

\* The records of a segment, when Vibe adds records or opens the next segment.
LEMMA PartStays ==
  ASSUME UsageTypes, NEW begin \in [Segments -> 0 .. 4], Divides(begin),
         NEW later \in [Segments -> 0 .. 4], \A s \in 1 .. opened : later[s] = begin[s],
         journaled' \in Nat, journaled' >= journaled,
         \/ opened' = opened
         \/ opened' = opened + 1 /\ journaled' = journaled /\ later[opened + 1] = journaled
  PROVE  /\ \A s \in 1 .. opened, m \in 0 .. journaled : Part(later, m, s)' = Part(begin, m, s)
         /\ \A s \in Segments, m \in 0 .. journaled :
              s = opened + 1 /\ opened' = opened + 1 => Part(later, m, s)' = 0
         /\ \A s \in 1 .. opened : s < opened => EndOf(later, s)' = EndOf(begin, s)
         /\ \A s \in Segments : s = opened => EndOf(later, s)' = journaled'
<1>1. /\ opened \in Nat /\ journaled \in 0 .. 4 /\ EndOf(begin, opened) = journaled
      /\ \A s \in 1 .. opened : /\ begin[s] \in 0 .. 4 /\ EndOf(begin, s) \in 0 .. 4
                                /\ begin[s] <= EndOf(begin, s) /\ EndOf(begin, s) <= journaled
  <2>1. opened \in Nat /\ journaled \in 0 .. 4
    BY DEF UsageTypes, JournalTypes, Segments
  <2>2. QED BY <2>1, EndFacts
<1>2. ASSUME NEW s \in 1 .. opened, s < opened PROVE EndOf(later, s)' = EndOf(begin, s)
  <2>1. s < opened' /\ s + 1 \in 1 .. opened
    BY <1>1, <1>2
  <2>2. QED BY <1>2, <2>1 DEF EndOf
<1>3. ASSUME NEW s \in Segments, s = opened PROVE EndOf(later, s)' = journaled'
  <2>1. CASE opened' = opened
    <3>1. ~(s < opened')
      BY <2>1, <1>1, <1>3
    <3>2. QED BY <3>1 DEF EndOf
  <2>2. CASE opened' = opened + 1 /\ journaled' = journaled /\ later[opened + 1] = journaled
    <3>1. s < opened'
      BY <2>2, <1>1, <1>3
    <3>2. EndOf(later, s)' = later[s + 1]
      BY <3>1 DEF EndOf
    <3>3. QED BY <3>2, <2>2, <1>3
  <2>3. QED BY <2>1, <2>2
<1>4. ASSUME NEW s \in 1 .. opened, NEW m \in 0 .. journaled
      PROVE  Part(later, m, s)' = Part(begin, m, s)
  <2>1. Part(later, m, s)' = IF m <= later[s] THEN 0
                             ELSE IF m < EndOf(later, s)' THEN m - later[s]
                                  ELSE EndOf(later, s)' - later[s]
    BY DEF Part
  <2>2. CASE s < opened
    BY <2>1, <2>2, <1>2 DEF Part
  <2>3. CASE s = opened
    <3>1. EndOf(later, s)' = journaled' /\ EndOf(begin, s) = journaled
      <4>1. s \in Segments
        BY EndFacts
      <4>2. QED BY <4>1, <2>3, <1>1, <1>3
    <3>2. later[s] = begin[s] /\ begin[s] \in 0 .. 4 /\ m <= journaled
      BY <1>1
    <3>3. QED BY <2>1, <3>1, <3>2, <1>1 DEF Part
  <2>4. QED BY <1>1, <2>2, <2>3
<1>5. ASSUME NEW s \in Segments, NEW m \in 0 .. journaled, s = opened + 1, opened' = opened + 1
      PROVE  Part(later, m, s)' = 0
  <2>1. m <= later[s]
    BY <1>1, <1>5
  <2>2. QED BY <2>1 DEF Part
<1>6. QED
  BY <1>2, <1>3, <1>4, <1>5

\* A file has read as much after such a step.
LEMMA FileStays ==
  ASSUME UsageTypes, NEW begin \in [Segments -> 0 .. 4], Divides(begin),
         NEW later \in [Segments -> 0 .. 4], \A s \in 1 .. opened : later[s] = begin[s],
         journaled' \in Nat, journaled' >= journaled, removed' = removed,
         \/ opened' = opened
         \/ opened' = opened + 1 /\ journaled' = journaled /\ later[opened + 1] = journaled,
         opened' \in Segments,
         NEW file, IsCountedOnce(file), NEW m \in 0 .. journaled, HasRead(file, begin, m)
  PROVE  HasRead(file, later, m)'
<1>1. \A s \in 1 .. opened' : file.segments[s].offset = Part(later, m, s)'
  <2> SUFFICES ASSUME NEW s \in 1 .. opened' PROVE file.segments[s].offset = Part(later, m, s)'
    OBVIOUS
  <2>1. opened \in Nat /\ s \in Segments /\ s \in Nat
    BY SegmentAssumption DEF UsageTypes, JournalTypes, Segments
  <2>2. CASE s <= opened
    <3>1. s \in 1 .. opened
      BY <2>1, <2>2
    <3>2. Part(later, m, s)' = Part(begin, m, s)
      BY <3>1, PartStays
    <3>3. file.segments[s].offset = Part(begin, m, s)
      BY <3>1 DEF HasRead
    <3>4. QED BY <3>2, <3>3
  <2>3. CASE s > opened
    <3>1. s = opened + 1 /\ opened' = opened + 1
      BY <2>1, <2>3
    <3>2. Part(later, m, s)' = 0
      BY <3>1, PartStays
    <3>3. file.segments[s].offset = 0
      BY <2>1, <2>3 DEF IsCountedOnce
    <3>4. QED BY <3>2, <3>3
  <2>4. QED BY <2>1, <2>2, <2>3
<1>2. \A s \in removed : m >= later[s + 1] \/ later[s] = later[s + 1]
  <2>1. \A s \in removed : s \in 1 .. opened /\ s + 1 \in 1 .. opened
    BY DEF UsageTypes, JournalTypes, Segments
  <2>2. QED BY <2>1 DEF HasRead
<1>3. /\ Requests(file) = Results(m) /\ (SeenCalls(file) # {} <=> m >= 2)
      /\ file.hasMeasures => file.measures = MeasuresOf(m)
  BY DEF HasRead
<1>4. QED
  BY <1>1, <1>2, <1>3 DEF HasRead

\* A call that does not read has read as much after such a step too.
LEMMA ReaderStays ==
  ASSUME UsageTypes, NEW begin \in [Segments -> 0 .. 4], Divides(begin),
         NEW later \in [Segments -> 0 .. 4], \A s \in 1 .. opened : later[s] = begin[s],
         journaled' \in Nat, journaled' >= journaled, removed' = removed,
         \/ opened' = opened
         \/ opened' = opened + 1 /\ journaled' = journaled /\ later[opened + 1] = journaled,
         opened' \in Segments,
         NEW r \in UsageReaders, reading[r].next # 0,
         NEW last \in Segments, NEW m \in 0 .. journaled, ReadsOn(r, begin, last, m),
         reading'[r].next = reading[r].next, reading'[r].names = reading[r].names,
         reading'[r].file = reading[r].file,
         reading'[r].quiet => reading[r].quiet /\ journaled' = journaled
  PROVE  ReadsOn(r, later, last, m)'
<1>1. /\ last \in 1 .. opened /\ opened \in Nat /\ journaled \in 0 .. 4
      /\ m <= EndOf(begin, last) /\ EndOf(begin, last) \in 0 .. 4
      /\ EndOf(begin, opened) = journaled /\ EndOf(begin, last) <= journaled
  <2>1. opened \in Nat /\ journaled \in 0 .. 4
    BY DEF UsageTypes, JournalTypes, Segments
  <2>2. last \in 1 .. opened /\ m <= EndOf(begin, last)
    BY DEF ReadsOn
  <2>3. QED BY <2>1, <2>2, EndFacts
<1>2. \/ EndOf(later, last)' = EndOf(begin, last)
      \/ EndOf(later, last)' = journaled' /\ EndOf(begin, last) = journaled
  <2>1. CASE last < opened
    BY <2>1, <1>1, PartStays
  <2>2. CASE last = opened
    BY <2>2, <1>1, PartStays
  <2>3. QED BY <2>1, <2>2, <1>1
<1>3. last \in 1 .. opened' /\ reading'[r].names = (1 .. last) \ removed' /\ last \notin removed'
      /\ m <= EndOf(later, last)'
  <2>1. last \in 1 .. opened'
    BY <1>1
  <2>2. m <= EndOf(later, last)'
    BY <1>1, <1>2
  <2>3. QED BY <2>1, <2>2 DEF ReadsOn
<1>4. HasRead(reading[r].file, later, m)'
  <2>1. PICK file : file = reading[r].file
    OBVIOUS
  <2>2. IsCountedOnce(file) /\ HasRead(file, begin, m)
    BY <2>1 DEF UsageTypes, ReaderIsInside, ReadsOn
  <2>3. HasRead(file, later, m)'
    BY <2>2, FileStays
  <2>4. QED BY <2>1, <2>3 DEF HasRead
<1>5. reading[r].names \subseteq 1 .. opened
  BY DEF UsageTypes, ReaderIsInside
<1>6. /\ reading'[r].next \in reading'[r].names => later[reading'[r].next] <= m
      /\ reading'[r].quiet => (EndOf(later, last) = journaled)'
      /\ Answers(r)' /\ reading'[r].quiet => m = journaled'
  <2>1. reading'[r].next \in reading'[r].names => later[reading'[r].next] <= m
    BY <1>5 DEF ReadsOn
  <2>2. reading'[r].quiet => EndOf(later, last)' = journaled'
    BY <1>2 DEF ReadsOn
  <2>3. Answers(r)' /\ reading'[r].quiet => m = journaled'
    BY DEF ReadsOn, Answers
  <2>4. QED BY <2>1, <2>2, <2>3
<1>7. ~reading'[r].file.hasMeasures =>
        /\ removed' = {}
        /\ reading'[r].file.measures
             = MeasuresOf(IF Answers(r)' THEN m ELSE later[reading'[r].next])
  <2> SUFFICES ASSUME ~reading[r].file.hasMeasures
               PROVE  /\ removed = {}
                      /\ reading[r].file.measures
                           = MeasuresOf(IF Answers(r)' THEN m ELSE later[reading[r].next])
    OBVIOUS
  <2>1. /\ removed = {}
        /\ reading[r].file.measures
             = MeasuresOf(IF Answers(r) THEN m ELSE begin[reading[r].next])
    BY DEF ReadsOn
  <2>2. Answers(r)' <=> Answers(r)
    BY DEF Answers
  <2>3. ~Answers(r) => later[reading[r].next] = begin[reading[r].next]
    BY <1>5 DEF UsageTypes, ReaderIsInside, Answers
  <2>4. QED BY <2>1, <2>2, <2>3
<1>8. QED
  BY <1>3, <1>4, <1>6, <1>7 DEF ReadsOn

\* A call that does not read keeps what it has read.
LEMMA ReaderKept ==
  ASSUME UsageTypes, NEW begin \in [Segments -> 0 .. 4], Divides(begin),
         NEW later \in [Segments -> 0 .. 4], \A s \in 1 .. opened : later[s] = begin[s],
         journaled' \in Nat, journaled' >= journaled, removed' = removed,
         \/ opened' = opened
         \/ opened' = opened + 1 /\ journaled' = journaled /\ later[opened + 1] = journaled,
         opened' \in Segments,
         NEW r \in UsageReaders, reading[r].next # 0, ReaderIsIntact(r, begin),
         reading'[r].next = reading[r].next, reading'[r].names = reading[r].names,
         reading'[r].file = reading[r].file,
         reading'[r].quiet => reading[r].quiet /\ journaled' = journaled
  PROVE  ReaderIsIntact(r, later)'
<1>1. PICK last \in Segments, m \in 0 .. journaled : ReadsOn(r, begin, last, m)
  BY DEF ReaderIsIntact
<1>2. ReadsOn(r, later, last, m)'
  BY <1>1, ReaderStays
<1>3. m \in 0 .. journaled'
  BY DEF UsageTypes, JournalTypes
<1>4. QED
  BY <1>2, <1>3 DEF ReaderIsIntact

\* The state file keeps what was read of it.
LEMMA FileKept ==
  ASSUME UsageTypes, NEW begin \in [Segments -> 0 .. 4], Divides(begin),
         NEW later \in [Segments -> 0 .. 4], \A s \in 1 .. opened : later[s] = begin[s],
         journaled' \in Nat, journaled' >= journaled, removed' = removed,
         \/ opened' = opened
         \/ opened' = opened + 1 /\ journaled' = journaled /\ later[opened + 1] = journaled,
         opened' \in Segments, FileIsIntact(begin), usageFile' = usageFile
  PROVE  FileIsIntact(later)'
<1>1. PICK m \in 0 .. journaled :
        /\ HasRead(usageFile, begin, m)
        /\ ~usageFile.hasMeasures => removed = {} /\ usageFile.measures = EmptyMeasures
  BY DEF FileIsIntact
<1>2. PICK file : file = usageFile
  OBVIOUS
<1>3. HasRead(file, later, m)'
  <2>1. IsCountedOnce(file) /\ HasRead(file, begin, m)
    BY <1>1, <1>2 DEF UsageTypes
  <2>2. QED BY <2>1, FileStays
<1>4. HasRead(usageFile, later, m)'
  BY <1>2, <1>3 DEF HasRead
<1>5. m \in 0 .. journaled'
  BY DEF UsageTypes, JournalTypes
<1>6. QED
  BY <1>1, <1>4, <1>5 DEF FileIsIntact

\* A step of Vibe that no call reads from keeps the journal intact.
LEMMA IntactKept ==
  ASSUME UsageTypes, NEW begin \in [Segments -> 0 .. 4], IsIntact(begin),
         NEW later \in [Segments -> 0 .. 4], \A s \in 1 .. opened : later[s] = begin[s],
         journaled' \in Nat, journaled' >= journaled, removed' = removed,
         \/ opened' = opened
         \/ opened' = opened + 1 /\ journaled' = journaled /\ later[opened + 1] = journaled,
         opened' \in Segments, usageFile' = usageFile, Divides(later)',
         \A r \in UsageReaders :
           /\ reading'[r].next = reading[r].next /\ reading'[r].names = reading[r].names
           /\ reading'[r].file = reading[r].file
           /\ reading'[r].quiet => reading[r].quiet /\ journaled' = journaled
  PROVE  IsIntact(later)'
<1>1. Divides(begin) /\ FileIsIntact(begin)
  BY DEF IsIntact
<1>2. FileIsIntact(later)'
  BY <1>1, FileKept
<1>3. ASSUME NEW r \in UsageReaders, reading'[r].next # 0 PROVE ReaderIsIntact(r, later)'
  <2>1. reading[r].next # 0 /\ ReaderIsIntact(r, begin)
    BY <1>3 DEF IsIntact
  <2>2. QED BY <1>1, <2>1, ReaderKept
<1>4. QED
  BY <1>2, <1>3 DEF IsIntact

\* A call that ends or goes on changes nothing for the others.
LEMMA OthersKept ==
  ASSUME UsageTypes, NEW begin \in [Segments -> 0 .. 4], IsIntact(begin),
         UNCHANGED <<journal, opened, removed, journaled>>,
         NEW r \in UsageReaders, \A q \in UsageReaders : q # r => reading'[q] = reading[q],
         FileIsIntact(begin)', reading'[r].next # 0 => ReaderIsIntact(r, begin)'
  PROVE  IsIntact(begin)'
<1>1. Divides(begin) /\ Divides(begin)'
  BY DEF IsIntact, Divides, EndOf
<1>2. journaled' \in Nat /\ journaled' >= journaled /\ opened' \in Segments
  BY DEF UsageTypes, JournalTypes
<1>3. ASSUME NEW q \in UsageReaders, reading'[q].next # 0 PROVE ReaderIsIntact(q, begin)'
  <2>1. CASE q = r
    BY <2>1, <1>3
  <2>2. CASE q # r
    <3>1. reading[q].next # 0 /\ ReaderIsIntact(q, begin)
      BY <1>3, <2>2 DEF IsIntact
    <3>2. QED BY <1>1, <1>2, <2>2, <3>1, ReaderKept
  <2>3. QED BY <2>1, <2>2
<1>4. QED
  BY <1>1, <1>3 DEF IsIntact

\* The measures of nothing.
LEMMA NothingMeasured == MeasuresOf(0) = EmptyMeasures
<1>1. Between("intent", 0, 0) = {} /\ Results(0) = 0
  BY DEF Between, Results
<1>2. Between("intent", 0, 0) \ Between("result", 0, 0) = {}
  BY <1>1
<1>3. QED BY <1>1, <1>2 DEF MeasuresOf, EmptyMeasures

\* No state file is one that has read nothing.
LEMMA NothingIsRead ==
  ASSUME UsageTypes, NEW begin \in [Segments -> 0 .. 4], Divides(begin), removed = {}
  PROVE  HasRead(NoUsageFile, begin, 0)
<1>1. \A s \in Segments : /\ NoUsageFile.segments[s].offset = 0
                          /\ NoUsageFile.segments[s].requests = 0
                          /\ NoUsageFile.segments[s].callIds = {}
  BY DEF NoUsageFile, EmptySegment
<1>2. \A s \in 1 .. opened : NoUsageFile.segments[s].offset = Part(begin, 0, s)
  <2>1. \A s \in 1 .. opened : s \in Segments /\ begin[s] \in 0 .. 4
    BY EndFacts
  <2>2. QED BY <2>1, <1>1 DEF Part
<1>3. Requests(NoUsageFile) = Results(0)
  <2> DEFINE none == [s \in Segments |-> NoUsageFile.segments[s].requests]
  <2>1. none \in [Segments -> Nat] /\ \A s \in Segments : none[s] = 0
    BY <1>1
  <2> HIDE DEF none
  <2>2. Sum(none) = 0
    BY <2>1, SumOfZeros
  <2>3. QED BY <2>2 DEF none, Requests, Results
<1>4. SeenCalls(NoUsageFile) = {}
  BY <1>1 DEF SeenCalls
<1>5. ~NoUsageFile.hasMeasures
  BY DEF NoUsageFile
<1>6. QED
  BY <1>2, <1>3, <1>4, <1>5 DEF HasRead

\* A call that begins has read what the state file has, or nothing yet.
LEMMA ListingStarts ==
  ASSUME UsageTypes, NEW begin \in [Segments -> 0 .. 4], Divides(begin), FileIsIntact(begin),
         NEW r \in UsageReaders, ListSegments(r), intact'
  PROVE  ReaderIsIntact(r, begin)'
<1>f. PICK file : file = reading'[r].file
  OBVIOUS
<1>1. PICK m \in 0 .. journaled :
        /\ HasRead(file, begin, m)
        /\ ~file.hasMeasures => removed = {} /\ file.measures = EmptyMeasures
  <2>1. CASE file = usageFile
    BY <2>1 DEF FileIsIntact
  <2>2. CASE file = NoUsageFile /\ removed = {}
    <3>1. HasRead(file, begin, 0) /\ file.measures = EmptyMeasures
      BY <2>2, NothingIsRead DEF NoUsageFile
    <3>2. 0 \in 0 .. journaled
      BY DEF UsageTypes, JournalTypes
    <3>3. QED BY <2>2, <3>1, <3>2
  <2>3. QED BY <1>f, <2>1, <2>2, ListingFacts
<1>2. UNCHANGED <<journal, opened, removed, journaled>>
  BY ListingFacts
<1>3. /\ opened \in Segments /\ opened \in 1 .. opened /\ opened \notin removed /\ opened \in Nat
      /\ journaled \in 0 .. 4 /\ opened < SegmentCount + 1
  <2>1. opened \in Segments /\ removed \subseteq 1 .. opened - 1 /\ journaled \in 0 .. 4
    BY DEF UsageTypes, JournalTypes
  <2>2. opened \in Nat /\ opened \in 1 .. opened /\ opened \notin 1 .. opened - 1
        /\ opened < SegmentCount + 1
    BY <2>1, SegmentAssumption DEF Segments
  <2>3. QED BY <2>1, <2>2
<1>4. /\ reading'[r].next = After(Present, 0) /\ reading'[r].names = Present
      /\ reading'[r].file = file /\ reading'[r].quiet = TRUE
      /\ Present \in SUBSET Segments
  BY <1>f, ListingFacts
<1>5. PICK next : next = After(Present, 0)
  OBVIOUS
<1>6. /\ next \in Present /\ next \in 1 .. opened /\ next > 0 /\ next # SegmentCount + 1
      /\ \A n \in Present : next <= n
  <2>1. /\ next \in Present \cup {SegmentCount + 1}
        /\ next \in Present => next > 0 /\ \A n \in Present : n > 0 => next <= n
        /\ next = SegmentCount + 1 => \A n \in Present : n <= 0
    BY <1>4, <1>5, AfterIsNext
  <2>2. opened \in Present /\ opened > 0 /\ \A n \in Present : n \in 1 .. opened /\ n > 0
    BY <1>3 DEF Present
  <2>3. ~(opened <= 0)
    BY <1>3, <2>2
  <2>4. next \in Present
    BY <2>1, <2>2, <2>3
  <2>5. next \in 1 .. opened
    BY <2>2, <2>4
  <2>6. next # SegmentCount + 1
    BY <1>3, <2>5, SegmentAssumption
  <2>7. QED BY <2>1, <2>2, <2>4, <2>5, <2>6
<1>7. begin[next] <= m
  <2>1. \A u \in 0 + 1 .. next - 1 : u \in removed
    <3>1. \A u \in 0 + 1 .. next - 1 : u \in 1 .. opened /\ ~(next <= u)
      BY <1>3, <1>6
    <3>2. QED BY <3>1, <1>6 DEF Present
  <2>2. begin[0 + 1] <= m /\ m \in Nat /\ next \in 0 + 1 .. opened
    <3>1. begin[1] = 0 /\ 0 + 1 = 1
      BY DEF Divides
    <3>2. 0 <= m /\ m \in Nat
      BY <1>1, <1>3
    <3>3. QED BY <3>1, <3>2, <1>6
  <2>3. \A u \in removed : m >= begin[u + 1] \/ begin[u] = begin[u + 1]
    BY <1>1 DEF HasRead
  <2>4. 0 \in Nat
    OBVIOUS
  <2>5. QED BY <2>1, <2>2, <2>3, <2>4, SkippedAreRead
<1>8. PICK last \in Segments : last = opened
  BY <1>3
<1>9. EndOf(begin, last)' = journaled
  <2>1. ~(last < opened')
    BY <1>2, <1>3, <1>8
  <2>2. QED BY <2>1, <1>2 DEF EndOf
<1>10. HasRead(reading[r].file, begin, m)'
  BY <1>1, <1>2, <1>4 DEF HasRead, Part, EndOf
<1>11. ~file.hasMeasures => removed = {} /\ file.measures = MeasuresOf(begin[next])
  <2> SUFFICES ASSUME ~file.hasMeasures
               PROVE  removed = {} /\ file.measures = MeasuresOf(begin[next])
    OBVIOUS
  <2>1. removed = {} /\ file.measures = EmptyMeasures
    BY <1>1
  <2>2. 1 \in Present
    <3>1. 1 \in 1 .. opened
      BY <1>3
    <3>2. QED BY <3>1, <2>1 DEF Present
  <2>3. next = 1 /\ begin[1] = 0
    BY <2>2, <1>6 DEF Divides
  <2>4. QED BY <2>1, <2>3, NothingMeasured
<1>12. ReadsOn(r, begin, last, m)'
  <2>1. /\ last \in 1 .. opened' /\ last \notin removed' /\ m <= EndOf(begin, last)'
        /\ reading'[r].names = (1 .. last) \ removed'
    <3>1. last \in 1 .. opened /\ m <= journaled
      BY <1>1, <1>3, <1>8
    <3>2. QED BY <3>1, <1>2, <1>3, <1>4, <1>8, <1>9 DEF Present
  <2>2. reading'[r].next = next /\ ~Answers(r)'
    BY <1>4, <1>5, <1>6 DEF Answers
  <2>3. QED BY <1>2, <1>4, <1>7, <1>9, <1>10, <1>11, <2>1, <2>2 DEF ReadsOn
<1>13. QED
  BY <1>2, <1>8, <1>12 DEF ReaderIsIntact

\* A record that Vibe ends is the next of the last segment.
LEMMA EndRecordDivides ==
  ASSUME UsageTypes, NEW begin \in [Segments -> 0 .. 4], Divides(begin), EndRecord
  PROVE  Divides(begin)'
<1>1. /\ opened \in Nat /\ opened \in Segments /\ opened \in 1 .. opened
      /\ journaled \in 0 .. 3 /\ journaled' = journaled + 1
      /\ opened' = opened /\ removed' = removed /\ removed \subseteq 1 .. opened - 1
  BY EndingFacts DEF UsageTypes, JournalTypes, Segments, EndRecord
<1>2. /\ begin[1] = 0
      /\ \A s, t \in 1 .. opened : s <= t => begin[s] <= begin[t] /\ begin[t] <= journaled'
  <2>1. \A t \in 1 .. opened : begin[t] \in 0 .. 4
    BY EndFacts
  <2>2. QED BY <1>1, <2>1 DEF Divides
<1>3. ASSUME NEW s \in 1 .. opened, s \notin removed
      PROVE  /\ Len(journal'[s]) = EndOf(begin, s)' - begin[s]
             /\ \A i \in 1 .. Len(journal'[s]) : journal'[s][i] = Session[begin[s] + i]
  <2>1. /\ s \in Segments /\ begin[s] \in 0 .. 4 /\ EndOf(begin, s) \in 0 .. 4
        /\ begin[s] <= EndOf(begin, s)
        /\ Len(journal[s]) = EndOf(begin, s) - begin[s]
        /\ \A i \in 1 .. Len(journal[s]) : journal[s][i] = Session[begin[s] + i]
    BY <1>3, EndFacts DEF Divides
  <2>2. CASE s # opened
    <3>1. s < opened /\ journal'[s] = journal[s]
      BY <2>1, <2>2, <1>1, EndingFacts
    <3>2. EndOf(begin, s)' = EndOf(begin, s)
      BY <3>1, <1>1 DEF EndOf
    <3>3. QED BY <2>1, <3>1, <3>2
  <2>3. CASE s = opened
    <3>1. /\ Len(journal'[s]) = Len(journal[s]) + 1
          /\ journal'[s][Len(journal[s]) + 1] = Session[journaled + 1]
          /\ \A i \in 1 .. Len(journal[s]) : journal'[s][i] = journal[s][i]
      BY <2>3, EndingFacts
    <3>2. ~(s < opened) /\ ~(s < opened')
      BY <2>3, <1>1
    <3>3. EndOf(begin, s)' = journaled + 1 /\ EndOf(begin, s) = journaled
      BY <3>2, <1>1 DEF EndOf
    <3>4. begin[s] + (Len(journal[s]) + 1) = journaled + 1
      BY <2>1, <3>3, <1>1
    <3>5. PICK n \in Nat : n = Len(journal[s])
      BY <2>1, <3>3, <1>1
    <3>6. \A i \in 1 .. n + 1 : i \in 1 .. n \/ i = n + 1
      BY <3>5
    <3>7. \A i \in 1 .. n + 1 : journal'[s][i] = Session[begin[s] + i]
      BY <2>1, <3>1, <3>4, <3>5, <3>6
    <3>8. Len(journal'[s]) = EndOf(begin, s)' - begin[s]
      BY <2>1, <3>1, <3>3, <1>1
    <3>9. QED BY <3>1, <3>5, <3>7, <3>8
  <2>4. QED BY <2>2, <2>3
<1>4. QED
  BY <1>1, <1>2, <1>3 DEF Divides

\* The next segment begins after the records written so far.
LEMMA OpenSegmentDivides ==
  ASSUME UsageTypes, NEW begin \in [Segments -> 0 .. 4], Divides(begin), OpenSegment,
         NEW later \in [Segments -> 0 .. 4], later = [begin EXCEPT ![opened + 1] = journaled]
  PROVE  Divides(later)' /\ \A s \in 1 .. opened : later[s] = begin[s]
<1>1. /\ opened \in Nat /\ opened \in 1 .. opened /\ journaled \in 0 .. 4
      /\ opened' = opened + 1 /\ opened + 1 \in Segments /\ removed \subseteq 1 .. opened - 1
      /\ UNCHANGED <<journal, removed, journaled>>
      /\ \A s \in Segments : s > opened => journal[s] = <<>>
  BY SegmentAssumption DEF UsageTypes, JournalTypes, Segments, OpenSegment
<1>2. \A s \in 1 .. opened : /\ s \in Segments /\ s # opened + 1
                              /\ later[s] = begin[s] /\ begin[s] \in 0 .. 4
  <2>1. \A s \in 1 .. opened : s \in Segments /\ s # opened + 1 /\ begin[s] \in 0 .. 4
    BY <1>1, EndFacts
  <2>2. QED BY <2>1
<1>3. later[opened + 1] = journaled
  BY <1>1
<1>4. 1 \in 1 .. opened /\ later[1] = 0
  <2>1. 1 \in 1 .. opened
    BY <1>1
  <2>2. QED BY <2>1, <1>2 DEF Divides
<1>5. \A s \in 1 .. opened' : s \in 1 .. opened \/ s = opened + 1
  BY <1>1
<1>6. ASSUME NEW s \in 1 .. opened', NEW t \in 1 .. opened', s <= t
      PROVE  later[s] <= later[t] /\ later[t] <= journaled'
  <2>1. CASE t = opened + 1
    <3>1. later[t] = journaled /\ journaled' = journaled
      BY <2>1, <1>1, <1>3
    <3>2. CASE s = opened + 1
      BY <3>1, <3>2, <1>1, <1>3
    <3>3. CASE s \in 1 .. opened
      <4>1. begin[s] <= journaled
        BY <3>3, <1>1 DEF Divides
      <4>2. QED BY <3>1, <3>3, <4>1, <1>1, <1>2
    <3>4. QED BY <3>2, <3>3, <1>5
  <2>2. CASE t \in 1 .. opened
    <3>1. s \in 1 .. opened
      BY <2>2, <1>1, <1>6
    <3>2. begin[s] <= begin[t] /\ begin[t] <= journaled
      BY <2>2, <3>1, <1>6 DEF Divides
    <3>3. QED BY <2>2, <3>1, <3>2, <1>1, <1>2
  <2>3. QED BY <2>1, <2>2, <1>5
<1>7. ASSUME NEW s \in 1 .. opened', s \notin removed
      PROVE  /\ Len(journal[s]) = EndOf(later, s)' - later[s]
             /\ \A i \in 1 .. Len(journal[s]) : journal[s][i] = Session[later[s] + i]
  <2>1. CASE s = opened + 1
    <3>1. ~(s < opened') /\ journal[s] = <<>> /\ Len(journal[s]) = 0
      BY <2>1, <1>1
    <3>2. EndOf(later, s)' = journaled
      BY <3>1, <1>1 DEF EndOf
    <3>3. QED BY <3>1, <3>2, <2>1, <1>1, <1>3
  <2>2. CASE s \in 1 .. opened
    <3>1. /\ Len(journal[s]) = EndOf(begin, s) - begin[s]
          /\ \A i \in 1 .. Len(journal[s]) : journal[s][i] = Session[begin[s] + i]
      BY <2>2, <1>7 DEF Divides
    <3>2. EndOf(later, s)' = EndOf(begin, s)
      <4>1. EndOf(later, s)' = later[s + 1]
        <5>1. s < opened'
          BY <2>2, <1>1
        <5>2. QED BY <5>1 DEF EndOf
      <4>2. CASE s < opened
        <5>1. s + 1 \in 1 .. opened
          BY <2>2, <4>2, <1>1
        <5>2. QED BY <4>1, <4>2, <5>1, <1>2 DEF EndOf
      <4>3. CASE s = opened
        <5>1. ~(s < opened)
          BY <4>3, <1>1
        <5>2. QED BY <4>1, <4>3, <5>1, <1>3 DEF EndOf
      <4>4. QED BY <2>2, <4>2, <4>3, <1>1
    <3>3. QED BY <2>2, <3>1, <3>2, <1>2
  <2>3. QED BY <2>1, <2>2, <1>5
<1>8. \A s, t \in 1 .. opened' : s <= t => later[s] <= later[t] /\ later[t] <= journaled'
  BY <1>6
<1>9. \A s \in 1 .. opened' :
        s \notin removed' =>
          /\ Len(journal'[s]) = EndOf(later, s)' - later[s]
          /\ \A i \in 1 .. Len(journal'[s]) : journal'[s][i] = Session[later[s] + i]
  <2>1. journal' = journal /\ removed' = removed
    BY <1>1
  <2>2. QED BY <2>1, <1>7
<1>10. Divides(later)'
  BY <1>4, <1>8, <1>9 DEF Divides
<1>11. QED
  BY <1>2, <1>10

\* What Vibe writes keeps the journal intact.
LEMMA WritingIsIntact ==
  ASSUME UsageTypes, NEW begin \in [Segments -> 0 .. 4], IsIntact(begin),
         BeginRecord \/ EndRecord \/ OpenSegment \/ UNCHANGED usageVars
  PROVE  \E later \in [Segments -> 0 .. 4] : IsIntact(later)'
<1>1. /\ Divides(begin) /\ opened \in Segments /\ opened \in Nat /\ journaled \in 0 .. 4
      /\ reading \in [UsageReaders -> Readers]
  BY DEF IsIntact, UsageTypes, JournalTypes, Segments
<1>2. CASE BeginRecord \/ UNCHANGED usageVars
  <2>1. UNCHANGED <<journal, opened, removed, usageFile, reading, journaled>>
    BY <1>2 DEF BeginRecord, usageVars
  <2>2. Divides(begin)'
    BY <1>1, <2>1 DEF Divides, EndOf
  <2>3. journaled' \in Nat /\ journaled' >= journaled /\ opened' \in Segments
    BY <1>1, <2>1
  <2>4. IsIntact(begin)'
    BY <2>1, <2>2, <2>3, IntactKept
  <2>5. QED BY <2>4
<1>3. CASE EndRecord
  <2>1. /\ opened' = opened /\ removed' = removed /\ usageFile' = usageFile
        /\ journaled' = journaled + 1
        /\ \A r \in UsageReaders : /\ reading'[r].next = reading[r].next
                                   /\ reading'[r].names = reading[r].names
                                   /\ reading'[r].file = reading[r].file
                                   /\ reading'[r].quiet = FALSE
    BY <1>3, EndingFacts DEF EndRecord
  <2>2. Divides(begin)'
    BY <1>1, <1>3, EndRecordDivides
  <2>3. journaled' \in Nat /\ journaled' >= journaled /\ opened' \in Segments
    BY <1>1, <2>1
  <2>4. IsIntact(begin)'
    BY <2>1, <2>2, <2>3, IntactKept
  <2>5. QED BY <2>4
<1>4. CASE OpenSegment
  <2>1. /\ opened' = opened + 1 /\ opened + 1 \in Segments
        /\ UNCHANGED <<journal, removed, usageFile, reading, journaled>>
    BY <1>1, <1>4, SegmentAssumption DEF OpenSegment, Segments
  <2>2. PICK later \in [Segments -> 0 .. 4] : later = [begin EXCEPT ![opened + 1] = journaled]
    BY <1>1
  <2>3. Divides(later)' /\ \A s \in 1 .. opened : later[s] = begin[s]
    BY <1>1, <1>4, <2>2, OpenSegmentDivides
  <2>4. journaled' \in Nat /\ journaled' >= journaled /\ opened' \in Segments
        /\ later[opened + 1] = journaled
    BY <1>1, <2>1, <2>2
  <2>5. IsIntact(later)'
    BY <2>1, <2>3, <2>4, IntactKept
  <2>6. QED BY <2>5
<1>5. QED BY <1>2, <1>3, <1>4

\* A segment that is removed when it was read to its end leaves the journal intact.
LEMMA RemovalIsIntact ==
  ASSUME UsageTypes, NEW begin \in [Segments -> 0 .. 4], IsIntact(begin),
         NEW s \in Segments, RemoveSegment(s), intact'
  PROVE  IsIntact(begin)'
<1>1. /\ NobodyReads /\ usageFile.hasMeasures /\ usageFile.segments[s].offset = Len(journal[s])
      /\ removed' = removed \cup {s} /\ UNCHANGED <<opened, usageFile, reading, journaled>>
      /\ journal' = [journal EXCEPT ![s] = <<>>] /\ s \in Present \ {opened}
  BY DEF RemoveSegment
<1>2. /\ s \in 1 .. opened /\ s \notin removed /\ s # opened /\ Divides(begin)
      /\ opened \in Nat /\ journaled \in 0 .. 4
      /\ journal \in [Segments -> Seq(JournalRecords)]
  BY <1>1 DEF Present, IsIntact, UsageTypes, JournalTypes, Segments
<1>3. Divides(begin)'
  <2>1. \A t \in Segments : t \notin removed' => t \notin removed /\ journal'[t] = journal[t]
    BY <1>1, <1>2
  <2>2. \A t \in 1 .. opened : t \in Segments
    BY <1>2, EndFacts
  <2>3. QED BY <1>1, <1>2, <2>1, <2>2 DEF Divides, EndOf
<1>4. PICK m \in 0 .. journaled : HasRead(usageFile, begin, m)
  BY DEF IsIntact, FileIsIntact
<1>5. m >= begin[s + 1] \/ begin[s] = begin[s + 1]
  <2>1. /\ begin[s] \in 0 .. 4 /\ EndOf(begin, s) \in 0 .. 4 /\ begin[s] <= EndOf(begin, s)
        /\ Len(journal[s]) = EndOf(begin, s) - begin[s]
    BY <1>2, EndFacts
  <2>2. Part(begin, m, s) = EndOf(begin, s) - begin[s]
    BY <1>1, <1>2, <1>4, <2>1 DEF HasRead
  <2>3. m \in Nat /\ (m >= EndOf(begin, s) \/ begin[s] = EndOf(begin, s))
    BY <1>2, <2>1, <2>2 DEF Part
  <2>4. EndOf(begin, s) = begin[s + 1]
    <3>1. s < opened
      BY <1>2
    <3>2. QED BY <3>1 DEF EndOf
  <2>5. QED BY <2>3, <2>4
<1>6. HasRead(usageFile, begin, m)'
  <2>1. \A u \in removed' : m >= begin[u + 1] \/ begin[u] = begin[u + 1]
    BY <1>1, <1>4, <1>5 DEF HasRead
  <2>2. QED BY <1>1, <1>4, <2>1 DEF HasRead, Part, EndOf
<1>7. FileIsIntact(begin)'
  BY <1>1, <1>4, <1>6 DEF FileIsIntact
<1>8. \A r \in UsageReaders : reading'[r].next = 0
  BY <1>1 DEF NobodyReads
<1>9. QED
  BY <1>3, <1>7, <1>8 DEF IsIntact

\* What a call saves is what it has read.
LEMMA SavingIsIntact ==
  ASSUME UsageTypes, NEW begin \in [Segments -> 0 .. 4], IsIntact(begin),
         NEW r \in UsageReaders, SaveUsage(r)
  PROVE  FileIsIntact(begin)'
<1>1. /\ UNCHANGED <<journal, opened, removed, journaled>>
      /\ reading[r].next = SegmentCount + 1 /\ Answers(r)
      /\ usageFile' = IF reading[r].changed
                      THEN [reading[r].file EXCEPT !.hasMeasures = TRUE] ELSE usageFile
  BY DEF SaveUsage, vibeVars, Answers
<1>2. CASE ~reading[r].changed
  <2>1. usageFile' = usageFile
    BY <1>1, <1>2
  <2>2. QED BY <1>1, <2>1 DEF IsIntact, FileIsIntact, HasRead, Part, EndOf
<1>3. CASE reading[r].changed
  <2>1. SegmentCount + 1 # 0
    BY SegmentAssumption
  <2>2. PICK last \in Segments, m \in 0 .. journaled : ReadsOn(r, begin, last, m)
    BY <1>1, <2>1 DEF IsIntact, ReaderIsIntact
  <2>3. HasRead(reading[r].file, begin, m) /\ reading[r].file.measures = MeasuresOf(m)
    BY <1>1, <2>2 DEF ReadsOn, HasRead, UsageTypes, Readers, UsageFiles
  <2>4. /\ usageFile'.segments = reading[r].file.segments
        /\ usageFile'.hasMeasures = TRUE /\ usageFile'.measures = reading[r].file.measures
    BY <1>1, <1>3 DEF UsageTypes, Readers, UsageFiles
  <2>5. HasRead(usageFile, begin, m)'
    BY <1>1, <2>3, <2>4 DEF HasRead, Part, EndOf, Requests, SeenCalls
  <2>6. QED BY <1>1, <2>4, <2>5 DEF FileIsIntact
<1>4. QED BY <1>2, <1>3

\* A save that fails leaves the file of before, or none while nothing was removed.
LEMMA FailingIsIntact ==
  ASSUME UsageTypes, NEW begin \in [Segments -> 0 .. 4], IsIntact(begin),
         NEW r \in UsageReaders, SaveFails(r), intact'
  PROVE  FileIsIntact(begin)'
<1>1. UNCHANGED <<journal, opened, removed, journaled>>
  BY DEF SaveFails
<1>2. CASE usageFile' = usageFile
  BY <1>1, <1>2 DEF IsIntact, FileIsIntact, HasRead, Part, EndOf
<1>3. CASE usageFile' = NoUsageFile /\ removed = {}
  <2>1. HasRead(NoUsageFile, begin, 0)
    BY <1>3, NothingIsRead DEF IsIntact
  <2>2. HasRead(usageFile, begin, 0)'
    BY <1>1, <1>3, <2>1 DEF HasRead, Part, EndOf
  <2>3. usageFile'.measures = EmptyMeasures
    BY <1>3 DEF NoUsageFile
  <2>4. 0 \in 0 .. journaled'
    BY <1>1 DEF UsageTypes, JournalTypes
  <2>5. QED BY <1>1, <1>3, <2>2, <2>3, <2>4 DEF FileIsIntact
<1>4. QED
  BY <1>2, <1>3 DEF SaveFails

\* The totals of an older version of the bridge, read from the only segment.
LEMMA OldTotalsAreIntact ==
  ASSUME UsageTypes, NEW begin \in [Segments -> 0 .. 4], IsIntact(begin), OldVersionReads
  PROVE  FileIsIntact(begin)'
<1> DEFINE found == Read(1, 0, "result")
           after == Counted(EmptySegment, 1, {})
<1>1. /\ UNCHANGED <<journal, opened, removed, journaled>> /\ ~usageFile.hasMeasures
      /\ removed = {} /\ opened = 1 /\ usageFile.segments[1].offset = 0
      /\ usageFile' = [usageFile EXCEPT !.segments[1] = after]
  BY DEF OldVersionReads, vibeVars
<1>2. /\ 1 \in Segments /\ 1 \in 1 .. opened /\ Divides(begin) /\ begin[1] = 0
      /\ journaled \in 0 .. 4 /\ JournalTypes /\ usageFile \in UsageFiles
      /\ usageFile.segments \in [Segments -> SegmentTotals] /\ usageFile.hasMeasures \in BOOLEAN
  BY <1>1, SegmentAssumption DEF IsIntact, Divides, UsageTypes, JournalTypes, Segments, UsageFiles
<1>3. EndOf(begin, 1) = journaled /\ Len(journal[1]) = journaled
  <2>1. EndOf(begin, 1) = journaled
    BY <1>1 DEF EndOf
  <2>2. 1 \notin removed /\ Len(journal[1]) = EndOf(begin, 1) - begin[1]
    BY <1>1, <1>2 DEF Divides
  <2>3. QED BY <2>1, <2>2, <1>2
<1>4. found = Between("result", 0, journaled) /\ found \in SUBSET Actions
  <2>1. 0 \in Nat /\ 0 <= Len(journal[1]) /\ begin[1] + 0 = 0
    BY <1>2, <1>3
  <2>2. Read(1, 0, "result") = Between("result", begin[1] + 0, EndOf(begin, 1))
    BY <1>1, <1>2, <2>1, ReadIsBetween
  <2>3. found = Between("result", 0, journaled)
    BY <2>1, <2>2, <1>3
  <2>4. 0 \in 0 .. 4
    OBVIOUS
  <2>5. QED BY <2>3, <2>4, <1>2, BetweenFacts
<1>5. /\ after \in SegmentTotals /\ after.offset = journaled
      /\ after.requests = Cardinality(found) /\ ("call" \in after.callIds <=> found # {})
      /\ Cardinality(found) \in Nat
  <2>1. /\ EmptySegment \in SegmentTotals /\ EmptySegment.callIds = {}
        /\ EmptySegment.offset = 0 /\ EmptySegment.requests = 0
    BY NoUsageFacts DEF EmptySegment
  <2>2. PICK segment \in SegmentTotals : segment = EmptySegment
    BY <2>1
  <2>3. /\ Counted(segment, 1, {}) \in SegmentTotals
        /\ Counted(segment, 1, {}).offset = Len(journal[1])
        /\ Counted(segment, 1, {}).requests
             = segment.requests + Cardinality(Read(1, segment.offset, "result"))
        /\ "call" \in Counted(segment, 1, {}).callIds
             <=> "call" \in segment.callIds
                 \/ (Read(1, segment.offset, "result") # {} /\ "call" \notin {})
    <3>1. segment.callIds \subseteq {} /\ segment.offset <= Len(journal[1])
      BY <2>1, <2>2, <1>2, <1>3
    <3>2. QED BY <3>1, <1>2, CountedFacts
  <2>4. Cardinality(found) \in Nat
    BY <1>4, ActionSets
  <2>5. after.requests = 0 + Cardinality(found)
    BY <2>1, <2>2, <2>3
  <2>6. QED BY <2>1, <2>2, <2>3, <2>4, <2>5, <1>3
<1> HIDE DEF found, after
<1>6. PICK file : file = usageFile'
  OBVIOUS
<1>7. /\ file.segments[1] = after
      /\ \A s \in Segments : s # 1 => file.segments[s] = EmptySegment
      /\ file.hasMeasures = FALSE /\ file.measures = usageFile.measures
  <2>1. /\ file.segments = [usageFile.segments EXCEPT ![1] = after]
        /\ file.hasMeasures = usageFile.hasMeasures /\ file.measures = usageFile.measures
    BY <1>1, <1>2, <1>6 DEF UsageFiles
  <2>2. \A s \in Segments : s # 1 => s > opened
    BY <1>1 DEF Segments
  <2>3. \A s \in Segments : s # 1 => usageFile.segments[s].offset = 0
    BY <2>2 DEF UsageTypes, IsCountedOnce
  <2>4. \A s \in Segments : s # 1 => usageFile.segments[s] = EmptySegment
    BY <2>3, <1>2 DEF SegmentTotals
  <2>5. QED BY <2>1, <2>4, <1>1, <1>2
<1>8. \A s \in 1 .. opened : file.segments[s].offset = Part(begin, journaled, s)
  <2>1. \A s \in 1 .. opened : s = 1
    BY <1>1
  <2>2. Part(begin, journaled, 1) = journaled
    BY <1>2, <1>3 DEF Part
  <2>3. QED BY <2>1, <2>2, <1>5, <1>7
<1>9. Requests(file) = Results(journaled)
  <2> DEFINE none == [s \in Segments |-> 0]
             some == [s \in Segments |-> file.segments[s].requests]
  <2>1. /\ none \in [Segments -> Nat] /\ \A s \in Segments : none[s] = 0
        /\ some \in [Segments -> Nat] /\ some[1] = Cardinality(found)
        /\ \A s \in Segments \ {1} : some[s] = none[s]
    BY <1>2, <1>5, <1>7 DEF EmptySegment
  <2>2. Requests(file) = Sum(some)
    BY DEF Requests
  <2> HIDE DEF none, some
  <2>3. Sum(none) = 0
    BY <2>1, SumOfZeros
  <2>4. Sum(some) \in Nat /\ Sum(some) + none[1] = Sum(none) + some[1]
    BY <1>2, <2>1, SumChanges
  <2>5. Sum(some) = Cardinality(found)
    BY <1>2, <1>5, <2>1, <2>3, <2>4
  <2>6. Results(0) + Cardinality(found) = Results(journaled) /\ Results(0) = 0
    <3>1. 0 \in 0 .. 4 /\ 0 <= journaled
      BY <1>2
    <3>2. QED BY <3>1, <1>2, <1>4, ResultsAdd DEF Results
  <2>7. QED BY <1>5, <2>2, <2>5, <2>6
<1>10. SeenCalls(file) # {} <=> journaled >= 2
  <2>1. SeenCalls(file) # {} <=> found # {}
    <3>1. \A s \in Segments : s # 1 => file.segments[s].callIds = {}
      BY <1>7 DEF EmptySegment
    <3>2. file.segments[1].callIds # {} <=> found # {}
      BY <1>5, <1>7 DEF SegmentTotals
    <3>3. QED BY <3>1, <3>2, <1>2 DEF SeenCalls
  <2>2. found # {} <=> "look" \in found \/ "echo" \in found
    BY <1>4 DEF Actions
  <2>3. 0 \in 0 .. 4
    OBVIOUS
  <2>4. "look" \in found <=> 2 <= journaled
    BY <2>3, <1>2, <1>4, BetweenFacts
  <2>5. "echo" \in found <=> 4 <= journaled
    BY <2>3, <1>2, <1>4, BetweenFacts
  <2>6. QED BY <2>1, <2>2, <2>4, <2>5, <1>2
<1>11. HasRead(file, begin, journaled)
  BY <1>1, <1>7, <1>8, <1>9, <1>10 DEF HasRead
<1>12. PICK m \in 0 .. journaled : m = journaled
  BY <1>2
<1>13. HasRead(usageFile, begin, m)'
  BY <1>1, <1>6, <1>11, <1>12 DEF HasRead, Part, EndOf
<1>14. usageFile'.hasMeasures = FALSE /\ usageFile'.measures = EmptyMeasures
  BY <1>1, <1>6, <1>7 DEF IsIntact, FileIsIntact
<1>15. QED
  BY <1>1, <1>13, <1>14 DEF FileIsIntact

\* What a call of vibeJournalUsage does keeps the journal intact.
LEMMA CallIsIntact ==
  ASSUME UsageTypes, NEW begin \in [Segments -> 0 .. 4], IsIntact(begin), intact',
         NEW r \in UsageReaders, ReaderStep(r)
  PROVE  IsIntact(begin)'
<1>1. Divides(begin) /\ FileIsIntact(begin)
  BY DEF IsIntact
<1>2. CASE ListSegments(r) \/ ReadSegment(r)
  <2>1. UNCHANGED <<journal, opened, removed, journaled>> /\ usageFile' = usageFile
    BY <1>2, ListingFacts DEF ReadSegment, vibeVars
  <2>2. FileIsIntact(begin)'
    BY <1>1, <2>1 DEF FileIsIntact, HasRead, Part, EndOf
  <2>3. \A q \in UsageReaders : q # r => reading'[q] = reading[q]
    BY <1>2, ListingFacts, ReadingFacts
  <2>4. ReaderIsIntact(r, begin)'
    <3>1. CASE ListSegments(r)
      BY <3>1, <1>1, ListingStarts
    <3>2. CASE ReadSegment(r)
      <4>1. reading[r].next # 0
        BY <3>2 DEF ReadSegment, Segments
      <4>2. PICK last \in Segments, m \in 0 .. journaled : ReadsOn(r, begin, last, m)
        BY <4>1 DEF IsIntact, ReaderIsIntact
      <4>3. \E k \in 0 .. journaled : ReadsOn(r, begin, last, k)'
        BY <3>2, <4>2, <1>1, ReadingAdvances
      <4>4. QED BY <4>3, <2>1 DEF ReaderIsIntact
    <3>3. QED BY <3>1, <3>2, <1>2
  <2>5. QED BY <2>1, <2>2, <2>3, <2>4, OthersKept
<1>3. CASE ReadFails(r) \/ SaveUsage(r) \/ SaveFails(r)
  <2>1. /\ UNCHANGED <<journal, opened, removed, journaled>>
        /\ reading' = [reading EXCEPT ![r] = IdleReader]
    BY <1>3 DEF ReadFails, SaveUsage, SaveFails, vibeVars
  <2>2. reading'[r].next = 0 /\ \A q \in UsageReaders : q # r => reading'[q] = reading[q]
    BY <2>1, IdleFacts
  <2>3. FileIsIntact(begin)'
    <3>1. CASE ReadFails(r)
      <4>1. usageFile' = usageFile
        BY <3>1 DEF ReadFails
      <4>2. QED BY <1>1, <2>1, <4>1 DEF FileIsIntact, HasRead, Part, EndOf
    <3>2. CASE SaveUsage(r)
      BY <3>2, SavingIsIntact
    <3>3. CASE SaveFails(r)
      BY <3>3, FailingIsIntact
    <3>4. QED BY <3>1, <3>2, <3>3, <1>3
  <2>4. QED BY <2>1, <2>2, <2>3, OthersKept
<1>4. QED
  BY <1>2, <1>3 DEF ReaderStep

\* While the journal is intact, the state file and every call hold the totals of the
\* first records of the session, up to some record.
LEMMA UsageInvInit == UsageInit => UsageInv
<1> SUFFICES ASSUME UsageInit PROVE UsageInv
  OBVIOUS
<1>1. UsageTypes
  BY UsageTypesInit
<1> DEFINE begin == [s \in Segments |-> 0]
<1>2. /\ begin \in [Segments -> 0 .. 4] /\ opened = 1 /\ removed = {} /\ journaled = 0
      /\ usageFile = NoUsageFile /\ 1 \in Segments
      /\ journal[1] = <<>> /\ \A r \in UsageReaders : reading[r].next = 0
  BY SegmentAssumption DEF UsageInit, Segments, IdleReader
<1>3. Divides(begin)
  <2>1. \A s \in 1 .. opened : s = 1
    BY <1>2
  <2>2. begin[1] = 0 /\ EndOf(begin, 1) = 0 /\ Len(journal[1]) = 0
    BY <1>2 DEF EndOf
  <2> HIDE DEF begin
  <2>3. QED BY <1>2, <2>1, <2>2 DEF Divides
<1>4. FileIsIntact(begin)
  <2>1. HasRead(usageFile, begin, 0)
    BY <1>1, <1>2, <1>3, NothingIsRead
  <2>2. usageFile.measures = EmptyMeasures
    BY <1>2 DEF NoUsageFile
  <2> HIDE DEF begin
  <2>3. QED BY <1>2, <2>1, <2>2 DEF FileIsIntact
<1>5. IsIntact(begin)
  BY <1>2, <1>3, <1>4 DEF IsIntact
<1>6. QED
  BY <1>1, <1>2, <1>5 DEF UsageInv

\* Vibe and the calls that read its journal keep the invariant.
LEMMA UsageInvStep == UsageInv /\ [UsageNext]_usageVars => UsageInv'
<1> SUFFICES ASSUME UsageInv, [UsageNext]_usageVars, intact'
             PROVE  \E later \in [Segments -> 0 .. 4] : IsIntact(later)'
  BY UsageTypesStep DEF UsageInv
<1>1. UsageTypes /\ intact
  <2>1. intact
    BY DEF UsageNext, JournalStep, BeginRecord, EndRecord, OpenSegment, RemoveSegment,
           RewriteSegment, OldVersionReads, ReaderStep, ListSegments, ReadSegment, ReadFails,
           SaveUsage, SaveFails, vibeVars, usageVars
  <2>2. QED BY <2>1 DEF UsageInv
<1>2. PICK begin \in [Segments -> 0 .. 4] : IsIntact(begin)
  BY <1>1 DEF UsageInv
<1>3. CASE BeginRecord \/ EndRecord \/ OpenSegment \/ UNCHANGED usageVars
  BY <1>1, <1>2, <1>3, WritingIsIntact
<1>4. ASSUME NEW s \in Segments, RemoveSegment(s) PROVE IsIntact(begin)'
  BY <1>1, <1>2, <1>4, RemovalIsIntact
<1>5. ASSUME NEW s \in Segments, RewriteSegment(s) PROVE FALSE
  BY <1>5 DEF RewriteSegment
<1>6. CASE OldVersionReads
  <2>1. FileIsIntact(begin)'
    BY <1>1, <1>2, <1>6, OldTotalsAreIntact
  <2>2. UNCHANGED <<journal, opened, removed, journaled>>
        /\ \A r \in UsageReaders : reading'[r].next = 0
    BY <1>6 DEF OldVersionReads, vibeVars, NobodyReads
  <2>3. Divides(begin)'
    BY <1>2, <2>2 DEF IsIntact, Divides, EndOf
  <2>4. QED BY <2>1, <2>2, <2>3 DEF IsIntact
<1>7. ASSUME NEW r \in UsageReaders, ReaderStep(r) PROVE IsIntact(begin)'
  BY <1>1, <1>2, <1>7, CallIsIntact
<1>8. QED
  BY <1>3, <1>4, <1>5, <1>6, <1>7 DEF UsageNext, JournalStep

\* The invariant says that usage is counted once and completely.
LEMMA UsageInvCounts == UsageInv => UsageIsCounted
<1> SUFFICES ASSUME UsageInv PROVE UsageIsCounted
  OBVIOUS
<1>1. /\ UsageTypes /\ journaled \in 0 .. 4
      /\ usageFile \in UsageFiles /\ IsCountedOnce(usageFile)
      /\ \A r \in UsageReaders : reading[r].file \in UsageFiles /\ IsCountedOnce(reading[r].file)
  BY DEF UsageInv, UsageTypes, JournalTypes, Readers, ReaderIsInside
<1>2. VisionIsCountedOnce
  BY <1>1, LooksCounted DEF VisionIsCountedOnce
<1>3. WrittenResults = Between("result", 0, journaled)
  <2>1. \A i \in 1 .. journaled : i = 1 \/ i = 2 \/ i = 3 \/ i = 4
    BY <1>1
  <2>2. /\ Session[1] = <<"intent", "look">> /\ Session[2] = <<"result", "look">>
        /\ Session[3] = <<"intent", "echo">> /\ Session[4] = <<"result", "echo">>
    BY DEF Session
  <2>3. \A i \in 1 .. journaled :
          /\ Session[i] = <<Session[i][1], Session[i][2]>> /\ Session[i][2] \in Actions
          /\ \A kind, a : Session[i] = <<kind, a>> => Session[i][1] = kind /\ Session[i][2] = a
    BY <2>1, <2>2 DEF Actions
  <2>4. 0 + 1 .. journaled = 1 .. journaled
    OBVIOUS
  <2>5. \A a : a \in WrittenResults
                 <=> \E i \in 1 .. journaled : Session[i][1] = "result" /\ a = Session[i][2]
    BY DEF WrittenResults
  <2>6. \A a : a \in Between("result", 0, journaled)
                 <=> a \in Actions /\ \E i \in 1 .. journaled : Session[i] = <<"result", a>>
    BY <2>4 DEF Between
  <2>7. \A a : a \in WrittenResults <=> a \in Between("result", 0, journaled)
    BY <2>3, <2>5, <2>6
  <2>8. QED BY <2>7
<1>4. /\ Cardinality(WrittenResults) = Results(journaled)
      /\ WrittenResults = {} <=> journaled < 2
  <2>1. 0 \in 0 .. 4 /\ 0 <= journaled
    BY <1>1
  <2>2. Results(0) + Cardinality(WrittenResults) = Results(journaled) /\ Results(0) = 0
    BY <1>1, <1>3, <2>1, ResultsAdd DEF Results
  <2>3. /\ WrittenResults \subseteq Actions
        /\ "look" \in WrittenResults <=> 2 <= journaled
        /\ "echo" \in WrittenResults <=> 4 <= journaled
    BY <1>1, <1>3, <2>1, BetweenFacts
  <2>4. WrittenResults # {} <=> "look" \in WrittenResults \/ "echo" \in WrittenResults
    BY <2>3 DEF Actions
  <2>5. Cardinality(WrittenResults) \in Nat
    BY <2>3, ActionSets
  <2>6. QED BY <1>1, <2>2, <2>3, <2>4, <2>5
<1>5. ASSUME NEW r \in UsageReaders, Answers(r), reading[r].quiet, intact
      PROVE  /\ Requests(reading[r].file) = Cardinality(WrittenResults)
             /\ Looks(reading[r].file) = (IF WrittenResults = {} THEN 0 ELSE 1)
             /\ reading[r].file.measures.calls = Cardinality(WrittenResults)
             /\ reading[r].file.measures.strays = 0
  <2>1. reading[r].next # 0
    BY <1>5, SegmentAssumption DEF Answers
  <2>2. PICK begin \in [Segments -> 0 .. 4], last \in Segments, m \in 0 .. journaled :
          ReadsOn(r, begin, last, m)
    BY <1>5, <2>1 DEF UsageInv, IsIntact, ReaderIsIntact
  <2>3. m = journaled /\ HasRead(reading[r].file, begin, m)
        /\ reading[r].file.measures = MeasuresOf(m)
    BY <1>5, <2>2, <1>1 DEF ReadsOn, HasRead, UsageFiles
  <2>4. Looks(reading[r].file) = IF SeenCalls(reading[r].file) = {} THEN 0 ELSE 1
    BY <1>1, LooksCounted
  <2>5. SeenCalls(reading[r].file) # {} <=> journaled >= 2
    BY <2>3 DEF HasRead
  <2>6. QED BY <1>1, <1>4, <2>3, <2>4, <2>5 DEF HasRead, MeasuresOf
<1>6. QED
  BY <1>2, <1>5 DEF UsageIsCounted, UsageIsComplete, MeasuresAreComplete

\* Usage is counted once and completely by calls of vibeJournalUsage that resume where
\* others stopped, for any number of calls and of segments.
THEOREM UsageCorrect == UsageSpec => []UsageIsCounted
<1>1. UsageSpec => []UsageInv
  BY UsageInvInit, UsageInvStep, PTL DEF UsageSpec
<1>2. QED
  BY <1>1, UsageInvCounts, PTL
=============================================================================
