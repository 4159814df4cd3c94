--------------------------- MODULE Threads_proofs ---------------------------
(***************************************************************************)
(* Theorems about what several threads of the Bridge share: the lines of a *)
(* Codex command, the reaper, the cache file, the runtimes and the logins, *)
(* for every number of threads.                                            *)
(***************************************************************************)
EXTENDS MCThreads, AgentEvents_proofs, FiniteSetTheorems, SequenceTheorems, TLAPS

-----------------------------------------------------------------------------
(* AgentReaper *)

\* Every variable keeps its type.
THEOREM ReaperTypes == ReaperSpec => []ReaperTypeOK
<1>1. ReaperInit => ReaperTypeOK
  BY ReaperAssumption DEF ReaperInit, ReaperTypeOK, Stale
<1>2. ReaperTypeOK /\ [ReaperNext]_reaperVars => ReaperTypeOK'
  <2> SUFFICES ASSUME ReaperTypeOK, [ReaperNext]_reaperVars PROVE ReaperTypeOK'
    OBVIOUS
  <2> USE ReaperAssumption DEF ReaperTypeOK, Stale
  <2>1. ASSUME NEW c \in Callers, ReadProperty(c) PROVE ReaperTypeOK'
    BY <2>1 DEF ReadProperty, Unused
  <2>2. ASSUME NEW c \in Callers, NameReaper(c) PROVE ReaperTypeOK'
    BY <2>2 DEF NameReaper
  <2>3. ASSUME NEW c \in Callers, StartReaper(c) PROVE ReaperTypeOK'
    BY <2>3 DEF StartReaper
  <2>4. ASSUME NEW r \in Reapers, CheckName(r) PROVE ReaperTypeOK'
    BY <2>4 DEF CheckName
  <2>5. ASSUME NEW r \in Reapers, Beat(r) PROVE ReaperTypeOK'
    BY <2>5 DEF Beat
  <2>6. ASSUME NEW r \in Reapers, Interrupted(r) PROVE ReaperTypeOK'
    BY <2>6 DEF Interrupted
  <2>7. CASE PeriodPasses
    BY <2>7 DEF PeriodPasses, Running
  <2>8. CASE Deploy
    BY <2>8 DEF Deploy
  <2>9. CASE UNCHANGED reaperVars
    BY <2>9 DEF reaperVars
  <2>10. QED
    BY <2>1, <2>2, <2>3, <2>4, <2>5, <2>6, <2>7, <2>8, <2>9
      DEF ReaperNext, CallerStep, ReaperStep
<1>3. QED
  BY <1>1, <1>2, PTL DEF ReaperSpec

-----------------------------------------------------------------------------
(* A named reaper beats in time. *)

Drawn(c) == caller[c].pc # "idle"

\* What NamedReaperBeats rests on: an id a caller has drawn is its own until the
\* thread starts, and the beat of the reaper the property names is as old as the
\* periods it has slept through.
BeatInv ==
  /\ \A c \in Callers : Drawn(c) => caller[c].id \in Reapers \ Running
  /\ \A c, d \in Callers : Drawn(c) /\ Drawn(d) /\ caller[c].id = caller[d].id => c = d
  /\ \A c \in Callers : caller[c].pc = "drawn" => property.id # caller[c].id
  /\ \A c \in Callers :
       caller[c].pc = "named" /\ property.id = caller[c].id => property.age = 0
  /\ property.id \in Running =>
       property.age = 0 \/ (property.age = 1 /\ reaper[property.id].pc # "asleep")

\* A caller keeps the ids apart, and the thread it starts has just been named.
LEMMA CallerKeepsBeat ==
  ASSUME ReaperTypeOK, BeatInv, NEW c \in Callers, CallerStep(c)
  PROVE  BeatInv'
<1> USE DEF ReaperTypeOK, BeatInv, Drawn, Running
<1>1. CASE ReadProperty(c)
  BY <1>1 DEF ReadProperty, Unused
<1>2. CASE NameReaper(c)
  BY <1>2 DEF NameReaper
<1>3. CASE StartReaper(c)
  BY <1>3 DEF StartReaper
<1>4. QED
  BY <1>1, <1>2, <1>3 DEF CallerStep

\* A reaper that has checked its name writes its own, however old it is.
LEMMA ReaperKeepsBeat ==
  ASSUME ReaperTypeOK, BeatInv, NEW r \in Reapers, ReaperStep(r) \/ Interrupted(r)
  PROVE  BeatInv'
<1> USE DEF ReaperTypeOK, BeatInv, Drawn, Running
<1>1. CASE CheckName(r)
  BY <1>1, ReaperAssumption DEF CheckName
<1>2. CASE Beat(r)
  BY <1>2 DEF Beat
<1>3. CASE Interrupted(r)
  BY <1>3, ReaperAssumption DEF Interrupted
<1>4. QED
  BY <1>1, <1>2, <1>3 DEF ReaperStep

\* A reaper the property names is never taken for dead (ensureAgentReaper): the
\* three periods of grace cover the one that a reaper sleeps, whatever callers,
\* deaths and upgrades come in between.
THEOREM NamedBeats == ReaperSpec => []NamedReaperBeats
<1>1. ReaperInit => BeatInv
  BY DEF ReaperInit, BeatInv, Drawn, Running
<1>2. ReaperTypeOK /\ BeatInv /\ [ReaperNext]_reaperVars => BeatInv'
  <2> SUFFICES ASSUME ReaperTypeOK, BeatInv, [ReaperNext]_reaperVars PROVE BeatInv'
    OBVIOUS
  <2>1. CASE PeriodPasses
    BY <2>1 DEF PeriodPasses, ReaperTypeOK, BeatInv, Drawn, Running, Stale
  <2>2. CASE Deploy
    BY <2>2 DEF Deploy, BeatInv, Drawn, Running
  <2>3. CASE UNCHANGED reaperVars
    BY <2>3 DEF reaperVars, BeatInv, Drawn, Running
  <2>4. QED
    BY <2>1, <2>2, <2>3, CallerKeepsBeat, ReaperKeepsBeat DEF ReaperNext
<1>3. BeatInv => NamedReaperBeats
  BY DEF BeatInv, NamedReaperBeats, Stale
<1>4. QED
  BY <1>1, <1>2, <1>3, ReaperTypes, PTL DEF ReaperSpec

\* The invariant of the reaper property, whole.
THEOREM ReaperCorrect == ReaperSpec => []ReaperInv
<1>1. ReaperTypeOK /\ NamedReaperBeats => ReaperInv
  BY DEF ReaperInv
<1>2. QED
  BY <1>1, ReaperTypes, NamedBeats, PTL

-----------------------------------------------------------------------------
(* SharedCacheFile *)

Texts == [Sections -> Nat]
Writers == [at : {"idle", "waiting", "locked", "writing"}, section : Sections \cup {""},
            version : Nat, text : Texts]

\* Every variable keeps its type.
CacheTypeOK ==
  /\ content \in Texts /\ lastWritten \in Texts
  /\ torn \in BOOLEAN /\ cut \in BOOLEAN
  /\ cacheLock \in CacheWriters \cup {NoWriter}
  /\ writer \in [CacheWriters -> Writers]
  /\ writesBegun \in Nat

\* A writer works on the file under its lock only.
Locked ==
  \A w \in CacheWriters : writer[w].at \in {"locked", "writing"} => cacheLock = w

\* As long as no write was cut, the file is torn only while it is written, and a
\* writer holds what was written last, its own section changed.
Whole ==
  ~cut => /\ content = lastWritten
          /\ torn => \E w \in CacheWriters : writer[w].at = "writing"
          /\ \A w \in CacheWriters : writer[w].at = "writing" =>
               writer[w].text = [lastWritten EXCEPT ![writer[w].section] = writer[w].version]

CacheInv == CacheTypeOK /\ Locked /\ Whole

\* The file that is read under the lock is the one written last.
LEMMA LockedReadIsWhole ==
  ASSUME CacheInv, NEW w \in CacheWriters, writer[w].at = "locked", ~cut
  PROVE  Parsed = lastWritten
<1>1. \A v \in CacheWriters : writer[v].at # "writing"
  <2> SUFFICES ASSUME NEW v \in CacheWriters, writer[v].at = "writing" PROVE FALSE
    OBVIOUS
  <2>1. v = w
    BY DEF CacheInv, Locked
  <2>2. QED
    BY <2>1
<1>2. QED
  BY <1>1 DEF CacheInv, Whole, Parsed

\* The invariant holds of a new file.
LEMMA CacheInvInit == CacheInit => CacheInv
<1> SUFFICES ASSUME CacheInit PROVE CacheInv
  OBVIOUS
<1>1. Blank \in Texts /\ Resting \in Writers
  BY DEF Blank, Texts, Resting, Writers
<1>2. \A w \in CacheWriters : writer[w].at = "idle"
  BY DEF CacheInit, Resting
<1>3. CacheTypeOK
  BY <1>1 DEF CacheInit, CacheTypeOK
<1>4. QED
  BY <1>2, <1>3 DEF CacheInit, CacheInv, Locked, Whole

\* A write that begins reads a text and changes nothing.
LEMMA BeginKeeps ==
  ASSUME CacheInv, NEW w \in CacheWriters, BeginCacheWrite(w)
  PROVE  CacheInv'
<1>0. CacheTypeOK /\ Locked /\ Whole
  BY DEF CacheInv
<1>1. PICK s \in Sections, v \in {0, writesBegun + 1} :
        writer' = [writer EXCEPT ![w] =
                     [at |-> "waiting", section |-> s, version |-> v, text |-> Parsed]]
  BY DEF BeginCacheWrite
<1>2. Parsed \in Texts
  BY <1>0 DEF Parsed, Blank, CacheTypeOK, Texts
<1>3. CacheTypeOK'
  <2>1. v \in Nat
    BY <1>0 DEF CacheTypeOK
  <2>2. [at |-> "waiting", section |-> s, version |-> v, text |-> Parsed] \in Writers
    BY <1>2, <2>1 DEF Writers
  <2>3. writer' \in [CacheWriters -> Writers]
    BY <1>0, <1>1, <2>2 DEF CacheTypeOK
  <2>4. QED
    BY <1>0, <2>3 DEF CacheTypeOK, BeginCacheWrite
<1>4. /\ writer'[w].at = "waiting" /\ writer[w].at = "idle"
      /\ \A u \in CacheWriters \ {w} : writer'[u] = writer[u]
  BY <1>0, <1>1 DEF CacheTypeOK, BeginCacheWrite
<1>5. Locked'
  BY <1>0, <1>4 DEF BeginCacheWrite, Locked
<1>6. Whole'
  BY <1>0, <1>4 DEF BeginCacheWrite, Whole
<1>7. QED
  BY <1>3, <1>5, <1>6 DEF CacheInv

\* The text a writer takes under the lock keeps all the other sections.
LEMMA TruncateKeeps ==
  ASSUME CacheInv, NEW w \in CacheWriters, TruncateCache(w)
  PROVE  CacheInv'
<1> DEFINE text == [Reread(w) EXCEPT ![writer[w].section] = writer[w].version]
<1> USE DEF CacheTypeOK, Texts, Writers
<1>0. CacheTypeOK /\ Locked /\ Whole
  BY DEF CacheInv
<1>1. Reread(w) \in Texts
  BY <1>0 DEF Reread, Parsed, Blank
<1>2. text \in Texts
  BY <1>0, <1>1
<1>3. CASE writer[w].version = 0 /\ Reread(w)[writer[w].section] = 0
  <2>1. writer' = [writer EXCEPT ![w] = Resting] /\ cacheLock' = NoWriter
        /\ UNCHANGED <<torn, content, lastWritten, cut, writesBegun>>
    BY <1>3 DEF TruncateCache
  <2>2. Resting \in Writers
    BY DEF Resting, Blank
  <2>3. CacheTypeOK'
    BY <1>0, <2>1, <2>2
  <2>7. /\ writer'[w].at = "idle" /\ writer[w].at = "locked"
        /\ \A v \in CacheWriters \ {w} : writer'[v] = writer[v]
    BY <1>0, <2>1 DEF Resting, TruncateCache
  <2>4. Locked'
    BY <1>0, <2>1, CacheAssumption DEF Locked, TruncateCache, Resting
  <2>5. Whole'
    BY <1>0, <2>1, <2>7 DEF Whole
  <2>6. QED
    BY <2>3, <2>4, <2>5 DEF CacheInv
<1>4. CASE ~(writer[w].version = 0 /\ Reread(w)[writer[w].section] = 0)
  <2>1. writer' = [writer EXCEPT ![w].at = "writing", ![w].text = text] /\ torn' = TRUE
        /\ UNCHANGED <<cacheLock, content, lastWritten, cut, writesBegun>>
    BY <1>4 DEF TruncateCache
  <2>2. /\ writer'[w].at = "writing" /\ writer'[w].text = text
        /\ writer'[w].section = writer[w].section /\ writer'[w].version = writer[w].version
        /\ \A v \in CacheWriters \ {w} : writer'[v] = writer[v]
    BY <1>0, <2>1
  <2>3. CacheTypeOK'
    BY <1>0, <1>2, <2>1
  <2>4. Locked'
    BY <1>0, <2>1, <2>2 DEF Locked, TruncateCache
  <2>5. Whole'
    <3>1. ~cut => Reread(w) = lastWritten
      BY LockedReadIsWhole DEF TruncateCache, Reread
    <3>2. QED
      BY <1>0, <2>1, <2>2, <3>1 DEF Whole
  <2>6. QED
    BY <2>3, <2>4, <2>5 DEF CacheInv
<1>5. QED
  BY <1>3, <1>4

\* A write that ends makes its text the one written last, or is cut.
LEMMA EndKeeps ==
  ASSUME CacheInv, NEW w \in CacheWriters, EndCacheWrite(w)
  PROVE  CacheInv'
<1> USE DEF CacheTypeOK, Texts, Writers
<1>0. CacheTypeOK /\ Locked /\ Whole
  BY DEF CacheInv
<1>1. /\ writer' = [writer EXCEPT ![w] = Resting] /\ cacheLock' = NoWriter
      /\ writer[w].at = "writing" /\ writesBegun' = writesBegun
  BY DEF EndCacheWrite, AfterWrite
<1>2. Resting \in Writers
  BY DEF Resting, Blank
<1>3. \A v \in CacheWriters : writer'[v].at \notin {"locked", "writing"}
  <2>1. \A v \in CacheWriters \ {w} : writer[v].at \notin {"locked", "writing"}
    BY <1>0, <1>1 DEF Locked
  <2>2. QED
    BY <1>0, <1>1, <2>1 DEF Resting
<1>4. \/ cut' = TRUE /\ UNCHANGED <<content, torn, lastWritten>>
      \/ /\ content' = writer[w].text /\ torn' = FALSE /\ cut' = cut
         /\ lastWritten' = [lastWritten EXCEPT ![writer[w].section] = writer[w].version]
  BY DEF EndCacheWrite
<1>5. CacheTypeOK'
  <2>1. writer[w] \in Writers /\ writer' \in [CacheWriters -> Writers]
    BY <1>0, <1>1, <1>2
  <2>2. writer[w].text \in Texts /\ writer[w].version \in Nat
    BY <2>1
  <2>3. [lastWritten EXCEPT ![writer[w].section] = writer[w].version] \in Texts
    BY <1>0, <2>2
  <2>4. content' \in Texts /\ lastWritten' \in Texts /\ torn' \in BOOLEAN /\ cut' \in BOOLEAN
    BY <1>0, <1>4, <2>2, <2>3
  <2>5. QED
    BY <1>0, <1>1, <2>1, <2>4
<1>6. Locked'
  BY <1>3 DEF Locked
<1>7. Whole'
  BY <1>0, <1>1, <1>3, <1>4 DEF Whole
<1>8. QED
  BY <1>5, <1>6, <1>7 DEF CacheInv

\* The other steps leave the file alone; a stop cuts the write it falls in.
LEMMA OthersKeep ==
  ASSUME CacheInv, NEW w \in CacheWriters,
         LockCache(w) \/ DropCacheWrite(w) \/ StopCacheWriter(w)
  PROVE  CacheInv'
<1> USE DEF CacheInv, CacheTypeOK, Texts, Writers
<1>1. Resting \in Writers
  BY DEF Resting, Blank
<1>2. CASE LockCache(w)
  <2>1. CacheTypeOK'
    BY <1>2 DEF LockCache
  <2>2. Locked'
    BY <1>2, CacheAssumption DEF LockCache, Locked
  <2>5. /\ writer'[w].at = "locked" /\ writer[w].at = "waiting"
        /\ \A v \in CacheWriters \ {w} : writer'[v] = writer[v]
    BY <1>2 DEF LockCache
  <2>3. Whole'
    BY <1>2, <2>5 DEF LockCache, Whole
  <2>4. QED
    BY <2>1, <2>2, <2>3
<1>3. CASE DropCacheWrite(w)
  <2>1. CacheTypeOK'
    BY <1>1, <1>3 DEF DropCacheWrite
  <2>2. Locked'
    BY <1>3 DEF DropCacheWrite, Locked, Resting
  <2>3. Whole'
    BY <1>3 DEF DropCacheWrite, Whole, Resting
  <2>4. QED
    BY <2>1, <2>2, <2>3
<1>4. CASE StopCacheWriter(w)
  <2>1. CacheTypeOK'
    BY <1>1, <1>4 DEF StopCacheWriter
  <2>2. Locked'
    BY <1>4, CacheAssumption DEF StopCacheWriter, Locked, Resting
  <2>3. Whole'
    BY <1>4 DEF StopCacheWriter, Whole, Resting
  <2>4. QED
    BY <2>1, <2>2, <2>3
<1>5. QED
  BY <1>2, <1>3, <1>4

\* Writers of different sections never undo one another (the second read of
\* writePersistentRuntimeUpdateCacheEntry, under the lock).
THEOREM WritesAreKept == CacheSpec => []NothingIsUndone
<1>1. CacheInv /\ [CacheNext]_cacheVars => CacheInv'
  <2> SUFFICES ASSUME CacheInv, [CacheNext]_cacheVars PROVE CacheInv'
    OBVIOUS
  <2>1. CASE UNCHANGED cacheVars
    BY <2>1 DEF cacheVars, CacheInv, CacheTypeOK, Locked, Whole
  <2>2. QED
    BY <2>1, BeginKeeps, TruncateKeeps, EndKeeps, OthersKeep DEF CacheNext, CacheStep
<1>2. CacheInv => NothingIsUndone
  BY DEF CacheInv, Whole, NothingIsUndone
<1>3. QED
  BY <1>1, <1>2, CacheInvInit, PTL DEF CacheSpec

-----------------------------------------------------------------------------
(* RuntimeInstall *)

Phases == {"idle", "web", "waiting", "locked", "fetch", "unpacking", "fresh web",
           "webbing", "fresh webbing"}

\* Between these phases a call must hold the lock.
LockedPhases == {"locked", "fetch", "unpacking", "fresh web", "fresh webbing"}

\* The variables the argument uses keep their types.
InstallTypeOK ==
  /\ kindOfRuntime \in Npm \cup {"python"}
  /\ files \in {"none", "partial", "ready"}
  /\ installing \in [Installers -> Phases]
  /\ forced \in [Installers -> BOOLEAN]
  /\ outcome \in [Installers -> {"none", "reused", "installed", "fallback", "error"}]

\* Who is in a locked phase holds the lock, finds the runtime incomplete until it
\* has written it, and complete afterwards.
UnderLock ==
  \A i \in Installers :
    /\ installing[i] \in LockedPhases => holder = i
    /\ installing[i] = "fetch" /\ ~forced[i] => files # "ready"
    /\ installing[i] \in {"fresh web", "fresh webbing"} => files = "ready"

InstallInv == InstallTypeOK /\ UnderLock

\* Nothing is installed and no lock is held at first.
LEMMA InstallInvInit == RuntimeInit => InstallInv
  BY DEF RuntimeInit, InstallInv, InstallTypeOK, UnderLock, Phases, LockedPhases

\* How a call ends: it gives its lock back, and only its own.
LEMMA CallEnds ==
  ASSUME InstallInv, NEW i \in Installers,
         NEW result \in {"reused", "installed", "fallback", "error"},
         EndInstall(i, result), UNCHANGED kindOfRuntime,
         files' \in {"none", "partial", "ready"},
         files' = files \/ holder = i
  PROVE  InstallInv'
<1> USE DEF InstallInv
<1>1. InstallTypeOK'
  BY DEF InstallTypeOK, EndInstall, ToPhase, Phases
<1>2. /\ installing'[i] = "idle"
      /\ \A j \in Installers : j # i => /\ installing'[j] = installing[j]
                                        /\ forced'[j] = forced[j]
      /\ holder' = IF holder = i THEN NoHolder ELSE holder
  BY DEF InstallTypeOK, EndInstall, ToPhase, ReleaseLock
<1>3. UnderLock'
  <2> SUFFICES ASSUME NEW j \in Installers, j # i
               PROVE  /\ installing'[j] \in LockedPhases => holder' = j
                      /\ installing'[j] = "fetch" /\ ~forced'[j] => files' # "ready"
                      /\ installing'[j] \in {"fresh web", "fresh webbing"} => files' = "ready"
    BY <1>2 DEF UnderLock, LockedPhases
  <2>1. installing[j] \in LockedPhases => holder # i /\ files' = files
    BY DEF UnderLock
  <2>2. QED
    BY <1>2, <2>1 DEF UnderLock, LockedPhases
<1>4. QED
  BY <1>1, <1>3

\* How a call goes on with the lock it has.
LEMMA CallGoesOn ==
  ASSUME InstallInv, NEW i \in Installers, NEW there \in Phases,
         NextPhase(i, there), UNCHANGED kindOfRuntime,
         files' \in {"none", "partial", "ready"},
         files' = files \/ holder = i,
         there \in LockedPhases => holder = i,
         there = "fetch" /\ ~forced[i] => files' # "ready",
         there \in {"fresh web", "fresh webbing"} => files' = "ready"
  PROVE  InstallInv'
<1> USE DEF InstallInv
<1>1. InstallTypeOK'
  BY DEF InstallTypeOK, NextPhase, ToPhase, Phases
<1>2. /\ installing'[i] = there /\ forced' = forced /\ holder' = holder
      /\ \A j \in Installers : j # i => installing'[j] = installing[j]
  BY DEF InstallTypeOK, NextPhase, ToPhase
<1>3. UnderLock'
  <2> SUFFICES ASSUME NEW j \in Installers
               PROVE  /\ installing'[j] \in LockedPhases => holder' = j
                      /\ installing'[j] = "fetch" /\ ~forced'[j] => files' # "ready"
                      /\ installing'[j] \in {"fresh web", "fresh webbing"} => files' = "ready"
    BY DEF UnderLock
  <2>1. CASE j = i
    BY <1>2, <2>1
  <2>2. CASE j # i
    <3>1. installing[j] \in LockedPhases => holder = j /\ files' = files
      BY <2>2 DEF UnderLock
    <3>2. QED
      BY <1>2, <2>2, <3>1 DEF UnderLock, LockedPhases
  <2>3. QED
    BY <2>1, <2>2
<1>4. QED
  BY <1>1, <1>3

\* What a failed installation leaves.
LEMMA InstallFailure ==
  ASSUME InstallInv, NEW i \in Installers, InstallFails(i), UNCHANGED <<kindOfRuntime, files>>
  PROVE  InstallInv'
<1>1. PICK result \in {"fallback", "error"} : EndInstall(i, result)
  BY DEF InstallFails
<1>2. files' \in {"none", "partial", "ready"}
  BY DEF InstallInv, InstallTypeOK
<1>3. QED
  BY <1>1, <1>2, CallEnds

\* The phases of a call before it has the lock.
LEMMA ArrivalKeeps ==
  ASSUME InstallInv, NEW i \in Installers,
         DetectRuntime(i) \/ TakeInstallLock(i) \/ GiveUpLock(i)
  PROVE  InstallInv'
<1> USE DEF InstallInv
<1>1. CASE DetectRuntime(i)
  <2>1. /\ installing[i] = "idle"
        /\ installing'[i] \in {"web", "idle", "waiting"}
        /\ \A j \in Installers : j # i => /\ installing'[j] = installing[j]
                                          /\ forced'[j] = forced[j]
        /\ UNCHANGED <<kindOfRuntime, files, holder>>
    BY <1>1 DEF DetectRuntime, InPhase, ToPhase, InstallTypeOK
  <2>2. InstallTypeOK'
    BY <1>1 DEF DetectRuntime, ToPhase, InstallTypeOK, Phases
  <2>3. UnderLock'
    BY <2>1 DEF UnderLock, LockedPhases
  <2>4. QED
    BY <2>2, <2>3
<1>2. CASE TakeInstallLock(i)
  <2>1. /\ installing'[i] = "locked" /\ holder' = i /\ holder = NoHolder
        /\ \A j \in Installers : j # i => installing'[j] = installing[j]
        /\ UNCHANGED <<kindOfRuntime, files, forced, outcome>>
    BY <1>2 DEF TakeInstallLock, LockIsFree, ToPhase, InstallTypeOK
  <2>2. InstallTypeOK'
    BY <1>2 DEF TakeInstallLock, ToPhase, InstallTypeOK, Phases
  <2>3. \A j \in Installers : installing[j] \notin LockedPhases
    BY <2>1, InstallAssumption DEF UnderLock
  <2>4. UnderLock'
    BY <2>1, <2>3 DEF UnderLock, LockedPhases
  <2>5. QED
    BY <2>2, <2>4
<1>3. CASE GiveUpLock(i)
  <2>1. files' \in {"none", "partial", "ready"}
    BY <1>3 DEF GiveUpLock, InstallTypeOK
  <2>2. QED
    BY <1>3, <2>1, CallEnds DEF GiveUpLock
<1>4. QED
  BY <1>1, <1>2, <1>3

\* The phases of a call that has the lock.
LEMMA LockedKeeps ==
  ASSUME InstallInv, NEW i \in Installers,
         DetectLocked(i) \/ FetchRuntime(i) \/ UnpackRuntime(i)
  PROVE  InstallInv'
<1>0. files \in {"none", "partial", "ready"}
  BY DEF InstallInv, InstallTypeOK
<1>1. CASE DetectLocked(i)
  <2>1. PICK found \in FoundMeanwhile(i) :
          IF found
          THEN IF kindOfRuntime = "codex" THEN NextPhase(i, "web") ELSE EndInstall(i, "reused")
          ELSE NextPhase(i, "fetch")
    BY <1>1 DEF DetectLocked
  <2>2. holder = i /\ UNCHANGED <<kindOfRuntime, files>>
    BY <1>1 DEF DetectLocked, InPhase, InstallInv, UnderLock, LockedPhases
  <2>3. ~found /\ ~forced[i] => files # "ready"
    BY <2>1 DEF FoundMeanwhile, ProbeFinds
  <2>4. CASE found /\ kindOfRuntime = "codex"
    BY <1>0, <2>1, <2>2, <2>4, CallGoesOn DEF Phases, LockedPhases
  <2>5. CASE found /\ kindOfRuntime # "codex"
    BY <1>0, <2>1, <2>2, <2>5, CallEnds
  <2>6. CASE ~found
    BY <1>0, <2>1, <2>2, <2>3, <2>6, CallGoesOn DEF Phases, LockedPhases
  <2>7. QED
    BY <2>4, <2>5, <2>6
<1>2. CASE FetchRuntime(i)
  <2>1. holder = i /\ UNCHANGED kindOfRuntime
    BY <1>2 DEF FetchRuntime, InPhase, InstallInv, UnderLock, LockedPhases
  <2>2. CASE NextPhase(i, "unpacking") /\ files' = "partial"
    BY <2>1, <2>2, CallGoesOn DEF Phases, LockedPhases
  <2>3. CASE InstallFails(i) /\ UNCHANGED files
    BY <2>1, <2>3, InstallFailure
  <2>4. QED
    BY <1>2, <2>2, <2>3 DEF FetchRuntime
<1>3. CASE UnpackRuntime(i)
  <2>1. holder = i /\ UNCHANGED kindOfRuntime
    BY <1>3 DEF UnpackRuntime, InPhase, InstallInv, UnderLock, LockedPhases
  <2>2. CASE files' = "ready" /\ NextPhase(i, "fresh web")
    BY <2>1, <2>2, CallGoesOn DEF Phases, LockedPhases
  <2>3. CASE files' = "ready" /\ EndInstall(i, "installed")
    BY <2>1, <2>3, CallEnds
  <2>4. CASE InstallFails(i) /\ UNCHANGED files
    BY <2>1, <2>4, InstallFailure
  <2>5. QED
    BY <1>3, <2>2, <2>3, <2>4 DEF UnpackRuntime
<1>4. QED
  BY <1>1, <1>2, <1>3

\* The second package, under the lock or not.
LEMMA WebKeeps ==
  ASSUME InstallInv, NEW i \in Installers, CheckPlaywright(i) \/ InstallPlaywright(i)
  PROVE  InstallInv'
<1>0. files \in {"none", "partial", "ready"}
  BY DEF InstallInv, InstallTypeOK
<1>1. CASE CheckPlaywright(i)
  <2>1. PICK fresh \in BOOLEAN :
          /\ InPhase(i, IF fresh THEN "fresh web" ELSE "web")
          /\ WebDone(i, fresh) \/ NextPhase(i, IF fresh THEN "fresh webbing" ELSE "webbing")
    BY <1>1 DEF CheckPlaywright
  <2>2. UNCHANGED <<kindOfRuntime, files>>
    BY <1>1 DEF CheckPlaywright
  <2>3. fresh => holder = i /\ files = "ready"
    BY <2>1 DEF InPhase, InstallInv, UnderLock, LockedPhases
  <2>4. CASE WebDone(i, fresh)
    BY <1>0, <2>2, <2>4, CallEnds DEF WebDone
  <2>5. CASE fresh /\ NextPhase(i, "fresh webbing")
    BY <1>0, <2>2, <2>3, <2>5, CallGoesOn DEF Phases, LockedPhases
  <2>6. CASE ~fresh /\ NextPhase(i, "webbing")
    BY <1>0, <2>2, <2>6, CallGoesOn DEF Phases, LockedPhases
  <2>7. QED
    BY <2>1, <2>4, <2>5, <2>6
<1>2. CASE InstallPlaywright(i)
  <2>1. PICK fresh \in BOOLEAN :
          WebDone(i, fresh) \/ InstallFails(i) \/ EndInstall(i, "error")
    BY <1>2 DEF InstallPlaywright
  <2>2. UNCHANGED <<kindOfRuntime, files>>
    BY <1>2 DEF InstallPlaywright
  <2>3. CASE WebDone(i, fresh)
    BY <1>0, <2>2, <2>3, CallEnds DEF WebDone
  <2>4. CASE InstallFails(i)
    BY <2>2, <2>4, InstallFailure
  <2>5. CASE EndInstall(i, "error")
    BY <1>0, <2>2, <2>5, CallEnds
  <2>6. QED
    BY <2>1, <2>3, <2>4, <2>5
<1>3. QED
  BY <1>1, <1>2

\* Every step of an installer, and every crash, keeps the invariant.
LEMMA InstallInvStep == InstallInv /\ [RuntimeNext]_runtimeVars => InstallInv'
<1> SUFFICES ASSUME InstallInv, [RuntimeNext]_runtimeVars PROVE InstallInv'
  OBVIOUS
<1>1. CASE UNCHANGED runtimeVars
  BY <1>1 DEF runtimeVars, InstallInv, InstallTypeOK, UnderLock
<1>2. CASE StopInstallers
  BY <1>2 DEF StopInstallers, InstallInv, InstallTypeOK, UnderLock, Phases, LockedPhases
<1>3. ASSUME NEW i \in Installers, DetectRuntime(i) \/ InstallerStep(i) PROVE InstallInv'
  BY <1>3, ArrivalKeeps, LockedKeeps, WebKeeps DEF InstallerStep
<1>4. QED
  BY <1>1, <1>2, <1>3 DEF RuntimeNext

\* A call answers "installed" with a complete runtime.
LEMMA AnswerIsWhole ==
  ASSUME InstallInv, [RuntimeNext]_runtimeVars, NEW i \in Installers,
         outcome'[i] = "installed", outcome[i] # "installed"
  PROVE  files' = "ready"
<1>1. ASSUME NEW j \in Installers, NEW result, EndInstall(j, result)
      PROVE  j = i /\ result = "installed"
  BY <1>1 DEF EndInstall, InstallInv, InstallTypeOK
<1>2. ASSUME NEW j \in Installers, NEW there PROVE ~NextPhase(j, there)
  BY DEF NextPhase
<1>3. ASSUME NEW j \in Installers PROVE ~InstallFails(j)
  BY <1>1 DEF InstallFails
<1>4. ASSUME NEW j \in Installers, NEW fresh \in BOOLEAN, WebDone(j, fresh)
      PROVE  j = i /\ fresh
  <2>1. CASE fresh
    <3>1. EndInstall(j, "installed")
      BY <1>4, <2>1 DEF WebDone
    <3>2. QED
      BY <1>1, <2>1, <3>1
  <2>2. CASE ~fresh
    <3>1. EndInstall(j, "reused")
      BY <1>4, <2>2 DEF WebDone
    <3>2. QED
      BY <1>1, <3>1
  <2>3. QED
    BY <2>1, <2>2
<1>5. ~UNCHANGED outcome
  OBVIOUS
<1>6. PICK j \in Installers : DetectRuntime(j) \/ InstallerStep(j)
  <2>1. ~StopInstallers
    BY DEF StopInstallers
  <2>2. QED
    BY <1>5, <2>1 DEF RuntimeNext, runtimeVars
<1>7. ~DetectRuntime(j)
  BY DEF DetectRuntime, InstallInv, InstallTypeOK
<1>8. ~TakeInstallLock(j) /\ ~GiveUpLock(j)
  BY <1>1, <1>5 DEF TakeInstallLock, GiveUpLock
<1>9. ~DetectLocked(j)
  BY <1>1, <1>2 DEF DetectLocked
<1>10. ~FetchRuntime(j)
  BY <1>2, <1>3 DEF FetchRuntime
<1>11. CASE UnpackRuntime(j)
  BY <1>2, <1>3, <1>11 DEF UnpackRuntime
<1>12. CASE CheckPlaywright(j)
  <2>1. PICK fresh \in BOOLEAN :
          InPhase(j, IF fresh THEN "fresh web" ELSE "web") /\ WebDone(j, fresh)
    BY <1>2, <1>12 DEF CheckPlaywright
  <2>2. fresh
    BY <1>4, <2>1
  <2>3. QED
    BY <1>12, <2>1, <2>2 DEF CheckPlaywright, InPhase, InstallInv, UnderLock
<1>13. CASE InstallPlaywright(j)
  <2>1. PICK fresh \in BOOLEAN :
          /\ InPhase(j, IF fresh THEN "fresh webbing" ELSE "webbing")
          /\ WebDone(j, fresh) \/ InstallFails(j) \/ EndInstall(j, "error")
    BY <1>13 DEF InstallPlaywright
  <2>2. WebDone(j, fresh) /\ fresh
    <3>1. ~EndInstall(j, "error")
      BY <1>1
    <3>2. WebDone(j, fresh)
      BY <1>3, <2>1, <3>1
    <3>3. QED
      BY <1>4, <3>2
  <2>3. QED
    BY <1>13, <2>1, <2>2 DEF InstallPlaywright, InPhase, InstallInv, UnderLock
<1>14. QED
  BY <1>6, <1>7, <1>8, <1>9, <1>10, <1>11, <1>12, <1>13 DEF InstallerStep

\* Installations that overlap neither write over one another nor over a complete
\* runtime, and answer "installed" with a complete one only (runtimeInstall,
\* acquireFileLock).
THEOREM InstallationIsWhole == RuntimeSpec => InstallsAreWhole
<1>1. InstallInv => InstalledOnce
  <2> SUFFICES ASSUME InstallInv PROVE InstalledOnce
    OBVIOUS
  <2>1. {i \in Installers : InPhase(i, "unpacking")} \subseteq {holder}
    BY DEF InPhase, InstallInv, UnderLock, LockedPhases
  <2>2. IsFiniteSet({holder}) /\ Cardinality({holder}) = 1
    BY FS_Singleton
  <2>3. Cardinality({i \in Installers : InPhase(i, "unpacking")}) <= 1
    BY <2>1, <2>2, FS_Subset
  <2>4. \A i \in Installers : InPhase(i, "fetch") /\ ~forced[i] => files # "ready"
    BY DEF InPhase, InstallInv, UnderLock
  <2>5. QED
    BY <2>3, <2>4 DEF InstalledOnce
<1>2. InstallInv /\ [RuntimeNext]_runtimeVars
        => \A i \in Installers :
             outcome'[i] = "installed" /\ outcome[i] # "installed" => files' = "ready"
  BY AnswerIsWhole
<1>3. QED
  BY <1>1, <1>2, InstallInvInit, InstallInvStep, PTL
  DEF RuntimeSpec, InstallsAreWhole, InstalledIsComplete

-----------------------------------------------------------------------------
(* ProviderLogins *)

\* The variables the argument uses keep their types.
LoginTypeOK ==
  /\ credentials \in BOOLEAN /\ crossed \in BOOLEAN
  /\ login \in [LoginProcesses -> {"unborn", "waiting", "signed", "over"}]
  /\ starter \in [LoginCallers ->
                    [at : {"idle", "checking", "logout", "spawn"}, forced : BOOLEAN]]

\* Until two starts cross, there is one start at most, only the process of the
\* registry runs, none runs during a start, and a start that is about to log out has
\* been forced or has found no credentials.
Uncrossed ==
  ~crossed =>
    /\ \A s, t \in LoginCallers :
         starter[s].at # "idle" /\ starter[t].at # "idle" => s = t
    /\ \A p \in LoginProcesses : RunsLogin(p) => loginEntry = p
    /\ \A s \in LoginCallers, p \in LoginProcesses :
         starter[s].at # "idle" => ~RunsLogin(p)
    /\ \A s \in LoginCallers :
         starter[s].at = "logout" => starter[s].forced \/ ~credentials

LoginInv == LoginTypeOK /\ Uncrossed

\* No login is under way at first.
LEMMA LoginInvInit == LoginInit => LoginInv
<1> SUFFICES ASSUME LoginInit PROVE LoginInv
  OBVIOUS
<1>1. /\ \A s \in LoginCallers : starter[s] = Off
      /\ \A p \in LoginProcesses : login[p] = "unborn"
  BY DEF LoginInit
<1>2. Off \in [at : {"idle", "checking", "logout", "spawn"}, forced : BOOLEAN]
  BY DEF Off
<1>3. Off.at = "idle"
  BY DEF Off
<1>4. LoginTypeOK
  BY <1>2 DEF LoginInit, LoginTypeOK
<1>5. Uncrossed
  BY <1>1, <1>3 DEF LoginInit, Uncrossed, RunsLogin
<1>6. QED
  BY <1>4, <1>5 DEF LoginInv

\* A start goes one step further, alone or not.
LEMMA StartKeeps ==
  ASSUME LoginInv, NEW s \in LoginCallers,
         StartLogin(s) \/ CheckCredentials(s) \/ LogOut(s) \/ SpawnLogin(s)
  PROVE  LoginInv'
<1> USE DEF LoginInv, LoginTypeOK
<1>1. CASE StartLogin(s)
  <2>1. PICK force \in BOOLEAN :
          starter' = [starter EXCEPT ![s] = [at |-> "checking", forced |-> force]]
    BY <1>1 DEF StartLogin
  <2>2. LoginTypeOK'
    BY <1>1, <2>1 DEF StartLogin
  <2>3. \A t \in LoginCallers : t # s => starter'[t] = starter[t]
    BY <2>1
  <2>4. starter'[s].at = "checking"
    BY <2>1
  <2>5. crossed' = (crossed \/ \E t \in LoginCallers : starter[t].at # "idle")
    BY <1>1 DEF StartLogin
  <2>6. \A p \in LoginProcesses : RunsLogin(p)' <=> RunsLogin(p)
    BY <1>1 DEF StartLogin, RunsLogin
  <2>7. ASSUME ~crossed' PROVE \A p \in LoginProcesses : ~RunsLogin(p)
    BY <1>1, <2>5, <2>7 DEF StartLogin, LoginIsRunning, Uncrossed
  <2>8. Uncrossed'
    BY <1>1, <2>3, <2>4, <2>5, <2>6, <2>7 DEF StartLogin, Uncrossed
  <2>9. QED
    BY <2>2, <2>8
<1>2. CASE CheckCredentials(s)
  <2>1. LoginTypeOK'
    BY <1>2 DEF CheckCredentials, Off
  <2>2. /\ \A t \in LoginCallers : t # s => starter'[t] = starter[t]
        /\ starter[s].at = "checking"
        /\ starter'[s].at = "logout" => starter'[s].forced \/ ~credentials
    BY <1>2 DEF CheckCredentials, Off, MustLogin
  <2>3. \A p \in LoginProcesses : RunsLogin(p)' <=> RunsLogin(p)
    BY <1>2 DEF CheckCredentials, RunsLogin
  <2>4. Uncrossed'
    BY <1>2, <2>2, <2>3 DEF CheckCredentials, Uncrossed
  <2>5. QED
    BY <2>1, <2>4
<1>3. CASE LogOut(s)
  <2>1. LoginTypeOK'
    BY <1>3 DEF LogOut
  <2>2. /\ \A t \in LoginCallers : t # s => starter'[t] = starter[t]
        /\ starter[s].at = "logout" /\ starter'[s].at = "spawn"
    BY <1>3 DEF LogOut
  <2>3. \A p \in LoginProcesses : RunsLogin(p)' <=> RunsLogin(p)
    BY <1>3 DEF LogOut, RunsLogin
  <2>4. Uncrossed'
    BY <1>3, <2>2, <2>3 DEF LogOut, Uncrossed
  <2>5. QED
    BY <2>1, <2>4
<1>4. CASE SpawnLogin(s)
  <2>1. PICK p \in LoginProcesses :
          login' = [login EXCEPT ![p] = "waiting"] /\ loginEntry' = p
    BY <1>4 DEF SpawnLogin
  <2>2. LoginTypeOK'
    BY <1>4, <2>1 DEF SpawnLogin, Off
  <2>3. /\ \A t \in LoginCallers : t # s => starter'[t] = starter[t]
        /\ starter[s].at = "spawn" /\ starter'[s].at = "idle"
    BY <1>4 DEF SpawnLogin, Off
  <2>4. \A q \in LoginProcesses : q # p => (RunsLogin(q)' <=> RunsLogin(q))
    BY <2>1 DEF RunsLogin
  <2>5. Uncrossed'
    BY <1>4, <2>1, <2>3, <2>4 DEF SpawnLogin, Uncrossed
  <2>6. QED
    BY <2>2, <2>5
<1>5. QED
  BY <1>1, <1>2, <1>3, <1>4

\* A login process ends, ages, or is signed in.
LEMMA ProcessKeeps ==
  ASSUME LoginInv,
         LoginStatus \/ \E p \in LoginProcesses : SignIn(p) \/ LoginExits(p) \/ TenMinutes(p)
  PROVE  LoginInv'
<1> USE DEF LoginInv, LoginTypeOK
<1>1. ASSUME NEW p \in LoginProcesses, SignIn(p) PROVE LoginInv'
  <2>1. \A q \in LoginProcesses : RunsLogin(q)' <=> RunsLogin(q)
    BY <1>1 DEF SignIn, RunsLogin
  <2>2. RunsLogin(p)
    BY <1>1 DEF SignIn, RunsLogin
  <2>3. QED
    BY <1>1, <2>1, <2>2 DEF SignIn, Uncrossed
<1>2. ASSUME NEW p \in LoginProcesses, LoginExits(p) PROVE LoginInv'
  <2>1. \A q \in LoginProcesses : RunsLogin(q)' => RunsLogin(q)
    BY <1>2 DEF LoginExits, RunsLogin
  <2>2. QED
    BY <1>2, <2>1 DEF LoginExits, Uncrossed
<1>3. ASSUME NEW p \in LoginProcesses, TenMinutes(p) PROVE LoginInv'
  BY <1>3 DEF TenMinutes, Uncrossed, RunsLogin
<1>4. ASSUME LoginStatus PROVE LoginInv'
  <2>1. \A q \in LoginProcesses : RunsLogin(q)' => RunsLogin(q)
    BY <1>4 DEF LoginStatus, RunsLogin
  <2>2. QED
    BY <1>4, <2>1 DEF LoginStatus, Uncrossed
<1>5. QED
  BY <1>1, <1>2, <1>3, <1>4

\* Starts that do not cross keep to one login process and remove no credentials but
\* those they were forced to (codexLoginStart, claudeLoginStart).
THEOREM LoginsDoNotMeet == LoginSpec => LoginsAreSafe
<1>1. LoginInv /\ [LoginNext]_loginVars => LoginInv'
  <2> SUFFICES ASSUME LoginInv, [LoginNext]_loginVars PROVE LoginInv'
    OBVIOUS
  <2>1. CASE UNCHANGED loginVars
    BY <2>1 DEF loginVars, LoginInv, LoginTypeOK, Uncrossed, RunsLogin
  <2>2. QED
    BY <2>1, StartKeeps, ProcessKeeps DEF LoginNext
<1>2. LoginInv => OneLogin
  <2> SUFFICES ASSUME LoginInv, ~crossed
               PROVE  Cardinality({p \in LoginProcesses : RunsLogin(p)}) <= 1
    BY DEF OneLogin
  <2>1. {p \in LoginProcesses : RunsLogin(p)} \subseteq {loginEntry}
    BY DEF LoginInv, Uncrossed
  <2>2. IsFiniteSet({loginEntry}) /\ Cardinality({loginEntry}) = 1
    BY FS_Singleton
  <2>3. QED
    BY <2>1, <2>2, FS_Subset
<1>3. LoginInv /\ [LoginNext]_loginVars
        => (credentials /\ ~credentials' =>
              crossed \/ \E s \in LoginCallers : starter[s].at = "logout" /\ starter[s].forced)
  <2> SUFFICES ASSUME LoginInv, [LoginNext]_loginVars, credentials, ~credentials', ~crossed
               PROVE  \E s \in LoginCallers : starter[s].at = "logout" /\ starter[s].forced
    OBVIOUS
  <2>1. PICK s \in LoginCallers : LogOut(s)
    BY DEF LoginNext, loginVars, StartLogin, CheckCredentials, SpawnLogin, SignIn, LoginExits,
       TenMinutes, LoginStatus
  <2>2. starter[s].at = "logout"
    BY <2>1 DEF LogOut
  <2>3. QED
    BY <2>2 DEF LoginInv, Uncrossed
<1>4. QED
  BY <1>1, <1>2, <1>3, LoginInvInit, PTL DEF LoginSpec, LoginsAreSafe, SignInSurvives

-----------------------------------------------------------------------------
(* Codex, one process per prompt                                            *)

ExecLines == [run : ExecRuns, kind : {"start", "end"}]
LinesOfFile == 1 .. Len(sessionFile)

ExecTypes ==
  /\ stage \in [ExecRuns -> {"new", "busy", "accepted", "announced", "forgotten",
                             "prepared", "submitted"}]
  /\ current \in ExecRuns \cup {NoRun} /\ process \in ExecRuns \cup {NoRun}
  /\ watcher \in {"off", "idle", "found", "reading", "ending", "polled"}
  /\ outReader \in [at : {"idle", "ending"}, run : ExecRuns \cup {NoRun}]
  /\ sessionFile \in Seq(ExecLines) /\ printed \in Seq(ExecLines)
  /\ lineCount \in Nat /\ snapshot \in Nat /\ position \in Nat /\ exits \in Nat
  /\ lineCount <= Len(sessionFile) /\ exits <= Grace + 1
  /\ handledAt \in [1 .. (2 * Cardinality(ExecRuns)) -> Nat]
  /\ reported \subseteq ExecRuns

\* a prompt is on its way from the guard to its process
Preparing(r) == stage[r] \in {"accepted", "announced", "forgotten", "prepared"}

\* one prompt at a time is prepared, when all that belongs to the one before is over
PreparedAlone ==
  /\ \A q, r \in ExecRuns : Preparing(q) /\ Preparing(r) => q = r
  /\ \A r \in ExecRuns :
       Preparing(r) => process = NoRun /\ watcher = "off" /\ printed = <<>> /\ outReader.at = "idle"
  /\ \A r \in ExecRuns : stage[r] \in {"announced", "forgotten", "prepared"} => current = r

\* whatever lives, prints or is handled is of the current prompt, whose process was started
CurrentIsServed ==
  /\ process # NoRun \/ watcher # "off" \/ outReader.at # "idle" \/ printed # <<>> =>
       current \in ExecRuns /\ stage[current] = "submitted"
  /\ process # NoRun => process = current /\ watcher # "off" /\ exits = 0
  /\ \A n \in 1 .. Len(printed) : printed[n].run = current
  /\ outReader.at = "ending" => outReader.run = current
  /\ outReader.at = "idle" => outReader = Idle

\* a turn that was not ended was not reported
EndsAreNew ==
  /\ \A r \in reported : stage[r] = "submitted"
  /\ ~execEnded => current \notin reported

\* the watcher reads from after the count to the end it saw
WatcherReads ==
  /\ watcher # "off" => exits <= Grace
  /\ watcher \in {"reading", "ending"} =>
       lineCount < position /\ position <= snapshot + 1 /\ snapshot <= Len(sessionFile)
  /\ watcher = "ending" => lineCount + 1 < position
  /\ watcher \in {"found", "reading", "ending"} => path

\* the lines of the turns before are behind the count once the prompt is prepared
OldAreBehind ==
  current \in ExecRuns /\ stage[current] \in {"prepared", "submitted"} =>
    \A n \in LinesOfFile : sessionFile[n].run # current => path /\ n <= lineCount

\* so are the lines that were handled, but for those of the reading under way
HandledAreBehind ==
  /\ \A n \in DOMAIN handledAt : handledAt[n] <= 1 /\ (handledAt[n] > 0 => n <= Len(sessionFile))
  /\ (\A r \in ExecRuns : stage[r] # "forgotten") =>
       \A n \in DOMAIN handledAt : handledAt[n] > 0 =>
         path /\ (n <= lineCount \/ (watcher \in {"reading", "ending"} /\ n < position))

\* a file with lines names the session before the watcher ends, which polls once more at
\* least after the exit of the process
SessionGetsKnown ==
  /\ lineCount > 0 => knowsSession
  /\ watcher \in {"reading", "ending"} /\ position > 1 => knowsSession
  /\ ~knowsSession /\ Len(sessionFile) > 0 =>
       /\ watcher # "off" /\ exits <= 1
       /\ watcher = "polled" => exits = 0
       /\ watcher = "reading" /\ exits > 0 => snapshot > 0

ExecInv ==
  /\ ExecTypes /\ PreparedAlone /\ CurrentIsServed /\ EndsAreNew /\ WatcherReads
  /\ OldAreBehind /\ HandledAreBehind /\ SessionGetsKnown

\* A sequence without elements is empty.
LEMMA NoLines == ASSUME NEW S, NEW s \in Seq(S) PROVE (s = <<>> <=> Len(s) = 0) /\ Len(s) \in Nat
BY EmptySeq, LenProperties, SeqEqual

\* A file that was found has lines, which name the session once they are read.
LEMMA FileIsFound ==
  ASSUME ExecInv, FindFile
  PROVE  SessionGetsKnown'
<1>1. ExecTypes /\ SessionGetsKnown /\ WatcherReads
  BY DEF ExecInv
<1>2. /\ (sessionFile = <<>> <=> Len(sessionFile) = 0) /\ Len(sessionFile) \in Nat
  BY <1>1, NoLines DEF ExecTypes
<1>3. /\ UNCHANGED <<sessionFile, knowsSession, exits, position, snapshot>>
      /\ watcher = "idle"
  BY DEF FindFile
<1>4. CASE sessionFile # <<>>
  <2>1. lineCount' = 0 /\ watcher' = "found"
    BY <1>4 DEF FindFile
  <2>2. QED
    BY <1>1, <1>2, <1>3, <2>1 DEF SessionGetsKnown, ExecTypes
<1>5. CASE sessionFile = <<>>
  <2>1. lineCount' = lineCount /\ watcher' = "polled"
    BY <1>5 DEF FindFile
  <2>2. QED
    BY <1>1, <1>2, <1>3, <1>5, <2>1 DEF SessionGetsKnown, ExecTypes
<1>6. QED
  BY <1>4, <1>5

\* A line that the watcher comes to was not handled before.
LEMMA LineIsNew ==
  ASSUME ExecInv, ReadLine
  PROVE  HandledAreBehind'
<1>1. ExecTypes /\ PreparedAlone /\ HandledAreBehind /\ WatcherReads /\ CurrentIsServed
  BY DEF ExecInv
<1>2. /\ watcher = "reading" /\ position <= snapshot /\ position' = position + 1
      /\ UNCHANGED <<stage, path, lineCount, sessionFile, snapshot>>
      /\ watcher' \in {"reading", "ending"}
      /\ \/ handledAt' = handledAt
         \/ handledAt' = [handledAt EXCEPT ![position] = @ + 1]
  BY DEF ReadLine, Handle
<1>3. /\ \A r \in ExecRuns : stage[r] # "forgotten"
      /\ path' = path
      /\ position \in Nat /\ lineCount \in Nat /\ snapshot \in Nat /\ lineCount < position
      /\ Len(sessionFile) \in Nat /\ position <= Len(sessionFile)
      /\ DOMAIN handledAt' = DOMAIN handledAt
      /\ \A n \in DOMAIN handledAt : n \in Nat /\ handledAt[n] \in Nat
  BY <1>1, <1>2, LenProperties DEF ExecTypes, PreparedAlone, Preparing, WatcherReads
<1>4. \A n \in DOMAIN handledAt : handledAt[n] > 0 => n < position /\ path
  BY <1>1, <1>2, <1>3 DEF HandledAreBehind
<1>5. ASSUME NEW n \in DOMAIN handledAt
      PROVE  /\ handledAt'[n] <= 1
             /\ handledAt'[n] > 0 => n <= Len(sessionFile) /\ (n < position \/ n = position)
  BY <1>1, <1>2, <1>3, <1>4 DEF HandledAreBehind
<1>6. path
  BY <1>1, <1>2 DEF WatcherReads
<1>7. QED
  BY <1>2, <1>3, <1>5, <1>6 DEF HandledAreBehind

\* A prompt is accepted only when nothing of the one before is left.
LEMMA ExecReceiveKept ==
  ASSUME Settled, Grace > 0, ExecInv, NEW r \in ExecRuns, ExecReceive(r) PROVE ExecInv'
<1>1. ExecTypes'
  BY DEF ExecInv, ExecTypes, At, execEntry, execFile, execWatch, ExecReceive
<1>2. PreparedAlone'
  BY DEF PreparedAlone, At, Idle, Preparing, execWatch, ExecReceive
<1>3. CurrentIsServed'
  BY DEF ExecInv, CurrentIsServed, Idle, execWatch, ExecReceive
<1>4. EndsAreNew'
  BY DEF ExecInv, EndsAreNew, At, execEntry, ExecReceive
<1>5. WatcherReads'
  BY DEF WatcherReads, execWatch, ExecReceive
<1>6. OldAreBehind'
  BY DEF ExecInv, OldAreBehind, At, LinesOfFile, execFile, ExecReceive
<1>7. HandledAreBehind'
  BY DEF ExecInv, HandledAreBehind, execFile, ExecReceive
<1>8. SessionGetsKnown'
  BY DEF ExecInv, SessionGetsKnown, execFile, execWatch, ExecReceive
<1>9. QED
  BY <1>1, <1>2, <1>3, <1>4, <1>5, <1>6, <1>7, <1>8 DEF ExecInv

\* Its turn becomes the current one.
LEMMA AnnounceKept ==
  ASSUME Settled, Grace > 0, ExecInv, NEW r \in ExecRuns, Announce(r) PROVE ExecInv'
<1>1. ExecTypes'
  BY DEF ExecInv, ExecTypes, At, execFile, execWatch, Announce
<1>2. PreparedAlone'
  BY DEF ExecInv, PreparedAlone, At, Preparing, execWatch, Announce
<1>3. CurrentIsServed'
  BY DEF ExecInv, PreparedAlone, CurrentIsServed, At, Preparing, execWatch, Announce
<1>4. EndsAreNew'
  BY DEF ExecInv, EndsAreNew, At, Announce
<1>5. WatcherReads'
  BY DEF ExecInv, WatcherReads, execFile, execWatch, Announce
<1>6. OldAreBehind'
  BY DEF OldAreBehind, At, Announce
<1>7. HandledAreBehind'
  BY DEF ExecInv, HandledAreBehind, At, execFile, execWatch, Announce
<1>8. SessionGetsKnown'
  BY DEF ExecInv, SessionGetsKnown, execFile, execWatch, Announce
<1>9. QED
  BY <1>1, <1>2, <1>3, <1>4, <1>5, <1>6, <1>7, <1>8 DEF ExecInv

\* Nothing reads while the session file is forgotten.
LEMMA ForgetKept ==
  ASSUME Settled, Grace > 0, ExecInv, NEW r \in ExecRuns, Forget(r) PROVE ExecInv'
<1>1. ExecTypes'
  BY DEF ExecInv, ExecTypes, At, execEntry, execWatch, Forget
<1>2. PreparedAlone'
  BY DEF ExecInv, PreparedAlone, At, Preparing, execWatch, Forget
<1>3. CurrentIsServed'
  BY DEF ExecInv, CurrentIsServed, At, execWatch, Forget
<1>4. EndsAreNew'
  BY DEF ExecInv, EndsAreNew, At, execEntry, Forget
<1>5. WatcherReads'
  BY DEF ExecInv, PreparedAlone, CurrentIsServed, WatcherReads, At, execWatch, Forget
<1>6. OldAreBehind'
  BY DEF ExecInv, PreparedAlone, OldAreBehind, At, Forget
<1>7. HandledAreBehind'
  BY DEF ExecInv, ExecTypes, HandledAreBehind, At, Forget
<1>8. SessionGetsKnown'
  BY DEF ExecInv, SessionGetsKnown, execWatch, Forget
<1>9. QED
  BY <1>1, <1>2, <1>3, <1>4, <1>5, <1>6, <1>7, <1>8 DEF ExecInv

\* All the lines that the file has are behind the count.
LEMMA BaselineKept ==
  ASSUME Settled, Grace > 0, ExecInv, NEW r \in ExecRuns, Baseline(r) PROVE ExecInv'
<1>1. ExecTypes'
  BY DEF ExecInv, ExecTypes, At, execEntry, execWatch, Baseline
<1>2. PreparedAlone'
  BY DEF ExecInv, PreparedAlone, At, Preparing, execWatch, Baseline
<1>3. CurrentIsServed'
  BY DEF ExecInv, CurrentIsServed, At, execWatch, Baseline
<1>4. EndsAreNew'
  BY DEF ExecInv, EndsAreNew, At, execEntry, Baseline
<1>5. WatcherReads'
  BY DEF ExecInv, PreparedAlone, CurrentIsServed, WatcherReads, At, execWatch, Baseline
<1>6. OldAreBehind'
  BY DEF ExecInv, CurrentIsServed, OldAreBehind, SessionGetsKnown, LinesOfFile, Baseline
<1>7. HandledAreBehind'
  BY DEF ExecInv, ExecTypes, PreparedAlone, CurrentIsServed, HandledAreBehind, SessionGetsKnown,
         Baseline
<1>8. SessionGetsKnown'
  BY DEF ExecInv, SessionGetsKnown, execWatch, Baseline
<1>9. QED
  BY <1>1, <1>2, <1>3, <1>4, <1>5, <1>6, <1>7, <1>8 DEF ExecInv

\* The process comes with a watcher that polls from its start.
LEMMA ExecKept ==
  ASSUME Settled, Grace > 0, ExecInv, NEW r \in ExecRuns, Exec(r) PROVE ExecInv'
<1>1. ExecTypes'
  BY ExecAssumption DEF ExecInv, ExecTypes, At, execEntry, execFile, Exec
<1>2. PreparedAlone'
  BY DEF ExecInv, ExecTypes, PreparedAlone, At, Preparing, Exec
<1>3. CurrentIsServed'
  BY DEF ExecInv, ExecTypes, PreparedAlone, CurrentIsServed, At, Exec
<1>4. EndsAreNew'
  BY DEF ExecInv, EndsAreNew, At, execEntry, Exec
<1>5. WatcherReads'
  BY ExecAssumption DEF ExecInv, WatcherReads, execFile, Exec
<1>6. OldAreBehind'
  BY DEF ExecInv, OldAreBehind, At, LinesOfFile, execFile, Exec
<1>7. HandledAreBehind'
  BY DEF ExecInv, HandledAreBehind, At, execFile, Exec
<1>8. SessionGetsKnown'
  BY DEF ExecInv, SessionGetsKnown, execFile, Exec
<1>9. QED
  BY <1>1, <1>2, <1>3, <1>4, <1>5, <1>6, <1>7, <1>8 DEF ExecInv

\* The process exits, while its watcher runs.
LEMMA ExecExitsKept ==
  ASSUME Settled, Grace > 0, ExecInv, ExecExits PROVE ExecInv'
<1>1. ExecTypes'
  BY DEF ExecInv, ExecTypes, execEntry, execFile, execWatch, ExecExits
<1>2. PreparedAlone'
  BY DEF ExecInv, PreparedAlone, Preparing, ExecExits
<1>3. CurrentIsServed'
  BY DEF ExecInv, CurrentIsServed, ExecExits
<1>4. EndsAreNew'
  BY DEF ExecInv, EndsAreNew, execEntry, ExecExits
<1>5. WatcherReads'
  BY DEF ExecInv, WatcherReads, execFile, execWatch, ExecExits
<1>6. OldAreBehind'
  BY DEF ExecInv, OldAreBehind, LinesOfFile, execFile, ExecExits
<1>7. HandledAreBehind'
  BY DEF ExecInv, HandledAreBehind, execFile, execWatch, ExecExits
<1>8. SessionGetsKnown'
  BY DEF ExecInv, SessionGetsKnown, execFile, execWatch, ExecExits
<1>9. QED
  BY <1>1, <1>2, <1>3, <1>4, <1>5, <1>6, <1>7, <1>8 DEF ExecInv

\* The reader of stdout reports an end.
LEMMA EndPrintedKept ==
  ASSUME Settled, Grace > 0, ExecInv, EndPrinted PROVE ExecInv'
<1>1. ExecTypes'
  BY DEF ExecInv, ExecTypes, CurrentIsServed, Idle, execFile, execWatch, EndPrinted, ReportEnd
<1>2. PreparedAlone'
  BY DEF ExecInv, PreparedAlone, Idle, Preparing, execWatch, EndPrinted
<1>3. CurrentIsServed'
  BY DEF ExecInv, CurrentIsServed, Idle, execWatch, EndPrinted
<1>4. EndsAreNew'
  BY DEF ExecInv, ExecTypes, CurrentIsServed, EndsAreNew, EndPrinted, ReportEnd
<1>5. WatcherReads'
  BY DEF ExecInv, WatcherReads, execFile, execWatch, EndPrinted
<1>6. OldAreBehind'
  BY DEF ExecInv, OldAreBehind, LinesOfFile, execFile, EndPrinted
<1>7. HandledAreBehind'
  BY DEF ExecInv, HandledAreBehind, execFile, execWatch, EndPrinted
<1>8. SessionGetsKnown'
  BY DEF ExecInv, SessionGetsKnown, execFile, execWatch, EndPrinted
<1>9. QED
  BY <1>1, <1>2, <1>3, <1>4, <1>5, <1>6, <1>7, <1>8 DEF ExecInv

\* A file is found from its first line only when no turn came before.
LEMMA FindFileKept ==
  ASSUME Settled, Grace > 0, ExecInv, FindFile PROVE ExecInv'
<1>1. ExecTypes'
  BY DEF ExecInv, ExecTypes, execEntry, FindFile
<1>2. PreparedAlone'
  BY DEF ExecInv, PreparedAlone, Preparing, FindFile
<1>3. CurrentIsServed'
  BY DEF ExecInv, CurrentIsServed, FindFile
<1>4. EndsAreNew'
  BY DEF ExecInv, EndsAreNew, execEntry, FindFile
<1>5. WatcherReads'
  BY DEF ExecInv, WatcherReads, FindFile
<1>6. OldAreBehind'
  BY DEF ExecInv, OldAreBehind, LinesOfFile, FindFile
<1>7. HandledAreBehind'
  BY DEF ExecInv, HandledAreBehind, FindFile
<1>8. SessionGetsKnown'
  BY FileIsFound
<1>9. QED
  BY <1>1, <1>2, <1>3, <1>4, <1>5, <1>6, <1>7, <1>8 DEF ExecInv

\* The watcher reads from after the count.
LEMMA ReadFileKept ==
  ASSUME Settled, Grace > 0, ExecInv, ReadFile PROVE ExecInv'
<1>1. ExecTypes'
  BY DEF ExecInv, ExecTypes, execEntry, ReadFile
<1>2. PreparedAlone'
  BY DEF ExecInv, PreparedAlone, Preparing, ReadFile
<1>3. CurrentIsServed'
  BY DEF ExecInv, CurrentIsServed, ReadFile
<1>4. EndsAreNew'
  BY DEF ExecInv, EndsAreNew, execEntry, ReadFile
<1>5. WatcherReads'
  BY DEF ExecInv, WatcherReads, ReadFile
<1>6. OldAreBehind'
  BY DEF ExecInv, ExecTypes, OldAreBehind, LinesOfFile, ReadFile
<1>7. HandledAreBehind'
  BY DEF ExecInv, ExecTypes, HandledAreBehind, ReadFile
<1>8. SessionGetsKnown'
  BY DEF ExecInv, SessionGetsKnown, ReadFile
<1>9. QED
  BY <1>1, <1>2, <1>3, <1>4, <1>5, <1>6, <1>7, <1>8 DEF ExecInv

\* It handles one line of the current turn.
LEMMA ReadLineKept ==
  ASSUME Settled, Grace > 0, ExecInv, ReadLine PROVE ExecInv'
<1>1. ExecTypes'
  BY DEF ExecInv, ExecTypes, ReadLine, Handle
<1>2. PreparedAlone'
  BY DEF ExecInv, PreparedAlone, Preparing, ReadLine
<1>3. CurrentIsServed'
  BY DEF ExecInv, CurrentIsServed, ReadLine, Handle
<1>4. EndsAreNew'
  BY DEF ExecInv, EndsAreNew, ReadLine
<1>5. WatcherReads'
  BY DEF ExecInv, ExecTypes, WatcherReads, ReadLine
<1>6. OldAreBehind'
  BY DEF ExecInv, OldAreBehind, LinesOfFile, ReadLine
<1>7. HandledAreBehind'
  BY LineIsNew
<1>8. SessionGetsKnown'
  BY DEF SessionGetsKnown, ReadLine
<1>9. QED
  BY <1>1, <1>2, <1>3, <1>4, <1>5, <1>6, <1>7, <1>8 DEF ExecInv

\* It reports an end.
LEMMA EndLineKept ==
  ASSUME Settled, Grace > 0, ExecInv, EndLine PROVE ExecInv'
<1>1. ExecTypes'
  BY NoLines DEF ExecInv, ExecTypes, CurrentIsServed, WatcherReads, OldAreBehind,
         HandledAreBehind, LinesOfFile, execFile, EndLine, ReportEnd
<1>2. PreparedAlone'
  BY DEF ExecInv, PreparedAlone, Preparing, EndLine
<1>3. CurrentIsServed'
  BY DEF ExecInv, CurrentIsServed, EndLine
<1>4. EndsAreNew'
  BY DEF ExecInv, ExecTypes, CurrentIsServed, EndsAreNew, WatcherReads, OldAreBehind,
         LinesOfFile, EndLine, ReportEnd
<1>5. WatcherReads'
  BY DEF ExecInv, WatcherReads, execFile, EndLine
<1>6. OldAreBehind'
  BY DEF ExecInv, OldAreBehind, LinesOfFile, execFile, EndLine
<1>7. HandledAreBehind'
  BY DEF ExecInv, HandledAreBehind, execFile, EndLine
<1>8. SessionGetsKnown'
  BY DEF ExecInv, ExecTypes, WatcherReads, SessionGetsKnown, EndLine
<1>9. QED
  BY <1>1, <1>2, <1>3, <1>4, <1>5, <1>6, <1>7, <1>8 DEF ExecInv

\* It counts the lines it has read.
LEMMA StoreCountKept ==
  ASSUME Settled, Grace > 0, ExecInv, StoreCount PROVE ExecInv'
<1>1. ExecTypes'
  BY DEF ExecInv, ExecTypes, WatcherReads, execEntry, StoreCount
<1>2. PreparedAlone'
  BY DEF ExecInv, PreparedAlone, Preparing, StoreCount
<1>3. CurrentIsServed'
  BY DEF ExecInv, CurrentIsServed, StoreCount
<1>4. EndsAreNew'
  BY DEF ExecInv, EndsAreNew, execEntry, StoreCount
<1>5. WatcherReads'
  BY DEF ExecInv, WatcherReads, StoreCount
<1>6. OldAreBehind'
  BY DEF ExecInv, ExecTypes, WatcherReads, OldAreBehind, LinesOfFile, StoreCount
<1>7. HandledAreBehind'
  BY DEF ExecInv, ExecTypes, WatcherReads, HandledAreBehind, StoreCount
<1>8. SessionGetsKnown'
  BY DEF ExecInv, ExecTypes, SessionGetsKnown, StoreCount
<1>9. QED
  BY <1>1, <1>2, <1>3, <1>4, <1>5, <1>6, <1>7, <1>8 DEF ExecInv

\* It ends only when it has polled after the exit of the process.
LEMMA SleepKept ==
  ASSUME Settled, Grace > 0, ExecInv, Sleep PROVE ExecInv'
<1>1. ExecTypes'
  BY ExecAssumption DEF ExecInv, ExecTypes, WatcherReads, execEntry, execFile, Sleep
<1>2. PreparedAlone'
  BY DEF ExecInv, PreparedAlone, Preparing, Sleep
<1>3. CurrentIsServed'
  BY ExecAssumption DEF ExecInv, CurrentIsServed, Sleep
<1>4. EndsAreNew'
  BY DEF ExecInv, EndsAreNew, execEntry, Sleep
<1>5. WatcherReads'
  BY ExecAssumption DEF WatcherReads, Sleep
<1>6. OldAreBehind'
  BY DEF ExecInv, OldAreBehind, LinesOfFile, execFile, Sleep
<1>7. HandledAreBehind'
  BY DEF ExecInv, HandledAreBehind, execFile, Sleep
<1>8. SessionGetsKnown'
  BY ExecAssumption DEF ExecInv, SessionGetsKnown, execFile, Sleep
<1>9. QED
  BY <1>1, <1>2, <1>3, <1>4, <1>5, <1>6, <1>7, <1>8 DEF ExecInv

\* Initially nothing was prompted, written or handled.
LEMMA ExecInitially == ExecInit => ExecInv
<1> SUFFICES ASSUME ExecInit PROVE ExecInv
  OBVIOUS
<1>1. /\ sessionFile = <<>> /\ printed = <<>> /\ outReader = Idle
      /\ stage = [r \in ExecRuns |-> "new"] /\ current = NoRun /\ process = NoRun
      /\ lineCount = 0 /\ snapshot = 0 /\ position = 0 /\ exits = 0 /\ watcher = "off"
      /\ handledAt = [n \in 1 .. (2 * Cardinality(ExecRuns)) |-> 0]
      /\ reported = {}
  BY DEF ExecInit
<1>2. sessionFile \in Seq(ExecLines) /\ Len(sessionFile) = 0 /\ Len(printed) = 0
  BY <1>1, EmptySeq
<1>3. ExecTypes
  BY <1>1, <1>2, ExecAssumption DEF ExecTypes, Idle
<1>4. PreparedAlone /\ CurrentIsServed /\ EndsAreNew /\ WatcherReads /\ OldAreBehind
  BY <1>1, <1>2, ExecAssumption
     DEF PreparedAlone, Preparing, CurrentIsServed, EndsAreNew, WatcherReads, OldAreBehind, Idle,
         LinesOfFile
<1>5. HandledAreBehind /\ SessionGetsKnown
  BY <1>1, <1>2 DEF HandledAreBehind, SessionGetsKnown
<1>6. QED
  BY <1>3, <1>4, <1>5 DEF ExecInv

\* The process adds a line of the current turn to the session file.
LEMMA FileIsWritten == ExecInv /\ WriteFile => ExecInv'
<1> SUFFICES ASSUME ExecInv, WriteFile PROVE ExecInv'
  OBVIOUS
<1>1. /\ ExecTypes /\ PreparedAlone /\ CurrentIsServed /\ EndsAreNew /\ WatcherReads
      /\ OldAreBehind /\ HandledAreBehind /\ SessionGetsKnown
  BY DEF ExecInv
<1>2. /\ process # NoRun
      /\ UNCHANGED <<stage, current, process, printed, knowsSession, path, lineCount, watcher,
                     snapshot, position, exits, outReader, execEnded, reported, handledAt>>
  BY DEF WriteFile, execFile, execWatch, execEntry
<1>3. /\ process = current /\ current \in ExecRuns /\ watcher # "off" /\ exits = 0
  BY <1>1, <1>2 DEF CurrentIsServed
<1>4. PICK new \in ExecLines : new.run = process /\ sessionFile' = Append(sessionFile, new)
  <2>1. \E k : sessionFile' = Append(sessionFile, Line(process, k))
    BY DEF WriteFile
  <2>2. \A k : Line(process, k) \in ExecLines /\ Line(process, k).run = process
    BY <1>3 DEF Line, ExecLines
  <2>3. QED
    BY <2>1, <2>2
<1>5. /\ sessionFile' \in Seq(ExecLines) /\ Len(sessionFile) \in Nat
      /\ Len(sessionFile') = Len(sessionFile) + 1
      /\ \A n \in LinesOfFile : sessionFile'[n] = sessionFile[n]
      /\ sessionFile'[Len(sessionFile) + 1] = new
  BY <1>1, <1>4, AppendProperties, LenProperties DEF ExecTypes, LinesOfFile
<1>6. \A n \in LinesOfFile' : n \in LinesOfFile \/ n = Len(sessionFile) + 1
  BY <1>5 DEF LinesOfFile
<1>7. ExecTypes'
  BY <1>1, <1>2, <1>5 DEF ExecTypes
<1>8. PreparedAlone' /\ CurrentIsServed' /\ EndsAreNew'
  BY <1>1, <1>2 DEF PreparedAlone, Preparing, CurrentIsServed, EndsAreNew, Idle
<1>9. WatcherReads'
  BY <1>1, <1>2, <1>5 DEF WatcherReads, ExecTypes
<1>10. OldAreBehind'
  BY <1>1, <1>2, <1>3, <1>4, <1>5, <1>6 DEF OldAreBehind
<1>11. HandledAreBehind'
  BY <1>1, <1>2, <1>5 DEF HandledAreBehind
<1>12. SessionGetsKnown'
  BY <1>1, <1>2, <1>3, <1>5 DEF SessionGetsKnown
<1>13. QED
  BY <1>7, <1>8, <1>9, <1>10, <1>11, <1>12 DEF ExecInv

\* The process prints a line of the current turn, or the reader takes one.
LEMMA LinesArePassed == ExecInv /\ (PrintLine \/ ReadPrinted) => ExecInv'
<1> SUFFICES ASSUME ExecInv, PrintLine \/ ReadPrinted PROVE ExecInv'
  OBVIOUS
<1>1. /\ ExecTypes /\ PreparedAlone /\ CurrentIsServed /\ EndsAreNew /\ WatcherReads
      /\ OldAreBehind /\ HandledAreBehind /\ SessionGetsKnown
  BY DEF ExecInv
<1>2. /\ UNCHANGED <<stage, current, process, sessionFile, path, lineCount, watcher,
                     snapshot, position, exits, execEnded, reported, handledAt>>
  BY DEF PrintLine, ReadPrinted, execFile, execWatch, execEntry
<1>3. process # NoRun \/ printed # <<>>
  BY DEF PrintLine, ReadPrinted
<1>4. current \in ExecRuns /\ stage[current] = "submitted"
  BY <1>1, <1>3 DEF CurrentIsServed
<1>5. /\ printed' \in Seq(ExecLines)
      /\ \A n \in 1 .. Len(printed') : printed'[n].run = current
  <2>1. CASE PrintLine
    <3>1. PICK new \in ExecLines : new.run = current /\ printed' = Append(printed, new)
      <4>1. process = current /\ \E k : printed' = Append(printed, Line(process, k))
        BY <1>1, <2>1 DEF PrintLine, CurrentIsServed
      <4>2. \A k : Line(current, k) \in ExecLines /\ Line(current, k).run = current
        BY <1>4 DEF Line, ExecLines
      <4>3. QED
        BY <4>1, <4>2
    <3>2. /\ printed' \in Seq(ExecLines) /\ Len(printed) \in Nat
          /\ Len(printed') = Len(printed) + 1
          /\ \A n \in 1 .. Len(printed) : printed'[n] = printed[n]
          /\ printed'[Len(printed) + 1] = new
      BY <1>1, <3>1, AppendProperties, LenProperties DEF ExecTypes
    <3>3. QED
      BY <1>1, <3>1, <3>2 DEF CurrentIsServed
  <2>2. CASE ReadPrinted
    <3>1. printed # <<>> /\ printed' = Tail(printed)
      BY <2>2 DEF ReadPrinted
    <3>2. /\ Tail(printed) \in Seq(ExecLines) /\ Len(Tail(printed)) = Len(printed) - 1
          /\ \A n \in 1 .. Len(Tail(printed)) : Tail(printed)[n] = printed[n + 1]
          /\ Len(printed) \in Nat
      BY <1>1, <3>1, HeadTailProperties, LenProperties DEF ExecTypes
    <3>3. QED
      BY <1>1, <3>1, <3>2 DEF CurrentIsServed
  <2>3. QED
    BY <2>1, <2>2
<1>6. /\ outReader' \in [at : {"idle", "ending"}, run : ExecRuns \cup {NoRun}]
      /\ outReader'.at = "ending" => outReader'.run = current
      /\ outReader'.at = "idle" => outReader' = Idle
  <2>1. CASE PrintLine
    BY <1>1, <2>1 DEF PrintLine, ExecTypes, CurrentIsServed, Idle
  <2>2. CASE ReadPrinted
    <3>1. /\ printed # <<>>
          /\ outReader' = IF Ends(Head(printed)) THEN [at |-> "ending", run |-> Head(printed).run]
                          ELSE Idle
      BY <2>2 DEF ReadPrinted
    <3>2. Len(printed) \in Nat /\ Len(printed) # 0 /\ Head(printed) = printed[1]
      BY <1>1, <3>1, NoLines, HeadTailProperties DEF ExecTypes
    <3>3. Head(printed).run = current
      BY <1>1, <3>2 DEF CurrentIsServed
    <3>4. QED
      BY <1>4, <3>1, <3>3 DEF Idle
  <2>3. QED
    BY <2>1, <2>2
<1>7. knowsSession => knowsSession'
  BY DEF PrintLine, ReadPrinted
<1>8. ExecTypes'
  BY <1>1, <1>2, <1>5, <1>6 DEF ExecTypes
<1>9. PreparedAlone'
  BY <1>1, <1>2, <1>3, <1>4 DEF PreparedAlone, Preparing
<1>10. CurrentIsServed'
  BY <1>1, <1>2, <1>4, <1>5, <1>6 DEF CurrentIsServed
<1>11. EndsAreNew' /\ WatcherReads' /\ OldAreBehind' /\ HandledAreBehind'
  BY <1>1, <1>2 DEF EndsAreNew, WatcherReads, OldAreBehind, HandledAreBehind, LinesOfFile
<1>12. SessionGetsKnown'
  BY <1>1, <1>2, <1>7 DEF SessionGetsKnown
<1>13. QED
  BY <1>8, <1>9, <1>10, <1>11, <1>12 DEF ExecInv

\* Every step of the prompts, of the processes and of the two threads keeps the invariant.
LEMMA ExecStep ==
  ASSUME Settled, Grace > 0, ExecInv, [ExecNext]_execVars PROVE ExecInv'
<1>1. CASE UNCHANGED execVars
  BY <1>1 DEF ExecInv, ExecTypes, PreparedAlone, Preparing, CurrentIsServed, EndsAreNew,
              WatcherReads, OldAreBehind, LinesOfFile, HandledAreBehind, SessionGetsKnown,
              execVars, execFile, execWatch, execEntry
<1>2. ASSUME NEW r \in ExecRuns,
             ExecReceive(r) \/ Announce(r) \/ Forget(r) \/ Baseline(r) \/ Exec(r)
      PROVE  ExecInv'
  BY <1>2, ExecReceiveKept, AnnounceKept, ForgetKept, BaselineKept, ExecKept
<1>3. CASE WriteFile \/ PrintLine \/ ExecExits
  BY <1>3, FileIsWritten, LinesArePassed, ExecExitsKept
<1>4. CASE ReadOut
  BY <1>4, LinesArePassed, EndPrintedKept DEF ReadOut
<1>5. CASE Watch
  BY <1>5, FindFileKept, ReadFileKept, ReadLineKept, EndLineKept, StoreCountKept, SleepKept DEF Watch
<1>6. QED
  BY <1>1, <1>2, <1>3, <1>4, <1>5 DEF ExecNext

\* The end that a thread reports is that of the current turn, reported for the first time.
LEMMA EndIsOwn ==
  ASSUME ExecInv, [ExecNext]_execVars, ~execEnded, execEnded'
  PROVE  reported' \ reported = {current}
<1>1. /\ ExecTypes /\ CurrentIsServed /\ EndsAreNew /\ WatcherReads /\ OldAreBehind
  BY DEF ExecInv
<1>2. EndPrinted \/ EndLine
  BY DEF ExecNext, ReadOut, Watch, execVars, execEntry, ExecReceive, Announce, Forget, Baseline,
         Exec, WriteFile, PrintLine, ExecExits, ReadPrinted, FindFile, ReadFile, ReadLine,
         StoreCount, Sleep
<1>3. reported' = reported \cup {current}
  <2>1. CASE EndPrinted
    BY <1>1, <2>1 DEF EndPrinted, ReportEnd, CurrentIsServed, ExecTypes
  <2>2. CASE EndLine
    <3>1. /\ watcher = "ending" /\ current \in ExecRuns /\ stage[current] = "submitted"
          /\ lineCount + 1 < position /\ position <= snapshot + 1 /\ snapshot <= Len(sessionFile)
      BY <1>1, <2>2 DEF EndLine, CurrentIsServed, WatcherReads
    <3>2. position - 1 \in LinesOfFile /\ ~(position - 1 <= lineCount)
      BY <1>1, <3>1, LenProperties DEF ExecTypes, LinesOfFile
    <3>3. sessionFile[position - 1].run = current
      BY <1>1, <3>1, <3>2 DEF OldAreBehind
    <3>4. QED
      BY <2>2, <3>3 DEF EndLine, ReportEnd
  <2>3. QED
    BY <1>2, <2>1, <2>2
<1>4. QED
  BY <1>1, <1>3 DEF EndsAreNew

\* For any number of prompts that come when the watcher of the one before has ended, which
\* polls once more at least after the exit of the process: no line of the session file is
\* handled twice, and a turn is ended by a line of its own, whichever thread reads it.
THEOREM LinesSorted ==
  ASSUME Settled, Grace > 0
  PROVE  ExecSpec => LinesAreSorted
<1>1. ExecInit => ExecInv
  BY ExecInitially
<1>2. ExecInv /\ [ExecNext]_execVars => ExecInv'
  BY ExecStep
<1>3. ExecInv => ExecTypeOK /\ LinesHandledOnce
  <2> SUFFICES ASSUME ExecInv PROVE ExecTypeOK /\ LinesHandledOnce
    OBVIOUS
  <2>1. ExecTypes /\ HandledAreBehind
    BY DEF ExecInv
  <2>2. ExecTypeOK
    BY <2>1, ExecAssumption, LenProperties DEF ExecTypes, ExecTypeOK
  <2>3. LinesHandledOnce
    BY <2>1 DEF HandledAreBehind, LinesHandledOnce
  <2>4. QED
    BY <2>2, <2>3
<1>4. ExecInv /\ [ExecNext]_execVars =>
        [~execEnded /\ execEnded' => reported' \ reported = {current}]_execVars
  BY EndIsOwn
<1>5. QED
  BY <1>1, <1>2, <1>3, <1>4, PTL DEF ExecSpec, LinesAreSorted, OwnLineEnds

-----------------------------------------------------------------------------
(* Side by side                                                             *)

\* The scene of the log has a buffer as large as what is pushed, which never gets full;
\* there and in the scene of the buffer the invariants of the events hold.
EventsInv(p) ==
  /\ EventsTypeOK /\ OneInv(p)
  /\ scene = "log" => WholeInv(p)

\* Where the buffer is roomy, a thread does as with the buffer of the code, but that it
\* never finds it full.
LEMMA RoomySteps ==
  ASSUME NEW p, Producers = {p}, EventsTypeOK, OneInv(p), WholeInv(p), Roomy!EventsNext
  PROVE  \/ EventsNext /\ ~CheckSize(p)
         \/ /\ ppc[p] = "added" /\ ppc' = [ppc EXCEPT ![p] = "idle"]
            /\ UNCHANGED <<nextIndex, firstIndex, events, register, pushed, pollVars>>
<1>1. CASE Roomy!Poll
  <2>1. UNCHANGED ppc
    BY <1>1 DEF Roomy!Poll, Roomy!Clamp, Roomy!ComputeOffset, Roomy!ReadSize, Roomy!GetEvent,
                Roomy!GetFails, Roomy!AnswerPoll, Roomy!pushVars
  <2>2. ~CheckSize(p)
    BY <2>1 DEF CheckSize, Producing, EventsTypeOK
  <2>3. Poll
    BY <1>1 DEF Roomy!Poll, Roomy!Clamp, Roomy!ComputeOffset, Roomy!ReadSize, Roomy!GetEvent,
                Roomy!GetFails, Roomy!AnswerPoll, Roomy!More, Roomy!NextCursor, Roomy!pushVars,
                Poll, Clamp, ComputeOffset, ReadSize, GetEvent, GetFails, AnswerPoll, More,
                NextCursor, pushVars
  <2>4. QED
    BY <2>2, <2>3 DEF EventsNext
<1>2. CASE Roomy!CheckSize(p)
  <2>1. ~(Len(events) > Budget)
    <3>1. pushed[p] \in 0 .. Budget /\ Len(events) \in Nat /\ Len(events) <= pushed[p]
      BY DEF EventsTypeOK, WholeInv
    <3>2. QED
      BY <3>1, BufferAssumption
  <2>2. QED
    BY <1>2, <2>1 DEF Roomy!CheckSize, Roomy!Producing, Roomy!pollVars, pollVars
<1>3. CASE \/ Roomy!ReadNextIndex(p) \/ Roomy!StoreNextIndex(p) \/ Roomy!AddEvent(p)
           \/ Roomy!RemoveOldest(p) \/ Roomy!ReadFirstIndex(p) \/ Roomy!StoreFirstIndex(p)
  <2>1. \/ ReadNextIndex(p) \/ StoreNextIndex(p) \/ AddEvent(p)
        \/ RemoveOldest(p) \/ ReadFirstIndex(p) \/ StoreFirstIndex(p)
    BY <1>3 DEF Roomy!ReadNextIndex, Roomy!StoreNextIndex, Roomy!AddEvent, Roomy!RemoveOldest,
                Roomy!ReadFirstIndex, Roomy!StoreFirstIndex, Roomy!Producing, Roomy!Load,
                Roomy!pollVars, ReadNextIndex, StoreNextIndex, AddEvent, RemoveOldest,
                ReadFirstIndex, StoreFirstIndex, Producing, Load, pollVars
  <2>2. ~CheckSize(p)
    BY <2>1 DEF ReadNextIndex, StoreNextIndex, AddEvent, RemoveOldest, ReadFirstIndex,
                StoreFirstIndex, CheckSize, Producing
  <2>3. QED
    BY <2>1, <2>2 DEF EventsNext, Push
<1>4. QED
  BY <1>1, <1>2, <1>3 DEF Roomy!EventsNext, Roomy!Push

\* In its scene the buffer keeps its invariant; in that of the log it also does what the
\* log does; elsewhere it stands still.
LEMMA EventsArePlayed ==
  ASSUME NEW p, Producers = {p}, EventsInv(p),
         [ThreadsNext]_<<scene, eventsVars, execVars, reaperVars, runtimeVars, cacheVars, loginVars>>
  PROVE  EventsInv(p)' /\ [PlayedLog!Next]_<<IF scene = "log" THEN events ELSE <<>>,
                                             IF scene = "log" THEN got ELSE <<>>>>
<1> DEFINE Implemented ==
      [PlayedLog!Next]_<<IF scene = "log" THEN events ELSE <<>>,
                         IF scene = "log" THEN got ELSE <<>>>>
<1>1. scene' = scene
  BY DEF ThreadsNext, Plays
<1>2. CASE UNCHANGED eventsVars
  <2>1. EventsInv(p)'
    BY <1>1, <1>2 DEF EventsInv, EventsTypeOK, OneInv, WithinBudget, WindowInv, Base, PollInv,
                      WholeInv, eventsVars, pushVars, pollVars
  <2>2. Implemented
    BY <1>1, <1>2 DEF eventsVars, pushVars, pollVars
  <2>3. QED
    BY <2>1, <2>2
<1>3. CASE scene = "events" /\ EventsNext
  <2>1. EventsTypeOK' /\ OneInv(p)'
    BY <1>3, OneStep DEF EventsInv
  <2>2. QED
    BY <1>1, <1>3, <2>1 DEF EventsInv
<1>4. CASE scene = "log" /\ Roomy!EventsNext
  <2>1. EventsTypeOK /\ OneInv(p) /\ WholeInv(p)
    BY <1>4 DEF EventsInv
  <2>2. CASE EventsNext /\ ~CheckSize(p)
    <3>1. EventsTypeOK' /\ OneInv(p)' /\ WholeInv(p)' /\ [Log!Next]_<<events, got>>
      BY <2>1, <2>2, OneStep, WholeStep
    <3>2. Implemented
      BY <1>1, <1>4, <3>1 DEF Log!Next, Log!Report, Log!Answer, PlayedLog!Next, PlayedLog!Report,
                              PlayedLog!Answer
    <3>3. QED
      BY <1>1, <3>1, <3>2 DEF EventsInv
  <2>3. CASE /\ ppc[p] = "added" /\ ppc' = [ppc EXCEPT ![p] = "idle"]
             /\ UNCHANGED <<nextIndex, firstIndex, events, register, pushed, pollVars>>
    <3>1. ppc' \in [Producers -> {"idle", "numbered", "built", "added", "full", "removed",
                                  "shifting"}] /\ ppc'[p] = "idle"
      BY <2>1, <2>3 DEF EventsTypeOK
    <3>2. EventsTypeOK' /\ WholeInv(p)'
      BY <2>1, <2>3, <3>1 DEF EventsTypeOK, WholeInv, pollVars
    <3>3. OneInv(p)'
      BY <2>1, <2>3, <3>1 DEF OneInv, WithinBudget, WindowInv, Base, PollInv, pollVars
    <3>4. Implemented
      BY <1>1, <2>3 DEF pollVars
    <3>5. QED
      BY <1>1, <3>2, <3>3, <3>4 DEF EventsInv
  <2>4. QED
    BY <1>4, <2>1, <2>2, <2>3, RoomySteps
<1>5. QED
  BY <1>2, <1>3, <1>4 DEF ThreadsNext, Plays

\* In every scene the other parts stand still: a behaviour of the whole is a behaviour of
\* each part.
LEMMA ThreadsArePlayed ==
  ThreadsSpec => ExecSpec /\ ReaperSpec /\ RuntimeSpec /\ CacheSpec /\ LoginSpec
<1> DEFINE vs == <<scene, eventsVars, execVars, reaperVars, runtimeVars, cacheVars, loginVars>>
<1>1. ThreadsInit => ExecInit /\ ReaperInit /\ RuntimeInit /\ CacheInit /\ LoginInit
  BY DEF ThreadsInit
<1>2. [ThreadsNext]_vs => [ExecNext]_execVars
  BY DEF ThreadsNext, Plays
<1>3. [ThreadsNext]_vs => [ReaperNext]_reaperVars
  BY DEF ThreadsNext, Plays
<1>4. [ThreadsNext]_vs => [RuntimeNext]_runtimeVars
  BY DEF ThreadsNext, Plays
<1>5. [ThreadsNext]_vs => [CacheNext]_cacheVars
  BY DEF ThreadsNext, Plays
<1>6. [ThreadsNext]_vs => [LoginNext]_loginVars
  BY DEF ThreadsNext, Plays
<1>7. QED
  BY <1>1, <1>2, <1>3, <1>4, <1>5, <1>6, PTL
     DEF ThreadsSpec, ExecSpec, ReaperSpec, RuntimeSpec, CacheSpec, LoginSpec

\* The buffer keeps its invariant whether it gets full or not, and the log is implemented
\* when it does not.
LEMMA EventsPlayed ==
  ASSUME NEW p, Producers = {p}
  PROVE  ThreadsSpec => []BufferInv /\ LogIsImplemented
<1> DEFINE vs == <<scene, eventsVars, execVars, reaperVars, runtimeVars, cacheVars, loginVars>>
<1>1. ThreadsInit => EventsInv(p) /\ PlayedLog!Init
  <2> SUFFICES ASSUME ThreadsInit PROVE EventsInv(p) /\ PlayedLog!Init
    OBVIOUS
  <2>1. EventsInit
    BY DEF ThreadsInit
  <2>2. EventsTypeOK /\ OneInv(p) /\ WholeInv(p)
    BY <2>1, OneInitially, WholeInitially
  <2>3. PlayedLog!Init
    BY <2>1 DEF EventsInit, PlayedLog!Init
  <2>4. QED
    BY <2>2, <2>3 DEF EventsInv
<1>2. EventsInv(p) /\ [ThreadsNext]_vs
        => EventsInv(p)' /\ [PlayedLog!Next]_<<IF scene = "log" THEN events ELSE <<>>,
                                               IF scene = "log" THEN got ELSE <<>>>>
  BY EventsArePlayed
<1>3. EventsInv(p) => BufferInv
  <2> SUFFICES ASSUME EventsInv(p) PROVE BufferInv
    OBVIOUS
  <2>1. EventsTypeOK /\ OneInv(p)
    BY DEF EventsInv
  <2>2. IndexStrictlyIncreasing
    BY <2>1, IndexesInOrder
  <2>3. NeverGoesBack
    BY <2>1, IncreasingConcat DEF OneInv, PollInv, NeverGoesBack, EventsTypeOK
  <2>4. QED
    BY <2>1, <2>2, <2>3 DEF BufferInv
<1>4. QED
  BY <1>1, <1>2, <1>3, PTL DEF ThreadsSpec, LogIsImplemented, PlayedLog!Spec

\* What the threads share, side by side: all that the run of MCThreads checks but what
\* they must get done, for every number of threads, of events and of calls.
THEOREM ThreadsCorrect ==
  ASSUME NEW p, Producers = {p}, Settled, Grace > 0
  PROVE  ThreadsSpec => /\ []BufferInv /\ LogIsImplemented
                        /\ LinesAreSorted /\ []ReaperInv
                        /\ InstallsAreWhole /\ []NothingIsUndone /\ LoginsAreSafe
<1>1. ExecSpec => LinesAreSorted
  BY LinesSorted
<1>2. ThreadsSpec => []BufferInv /\ LogIsImplemented
  BY EventsPlayed
<1>3. QED
  BY <1>1, <1>2, ThreadsArePlayed, ReaperCorrect, InstallationIsWhole, WritesAreKept,
     LoginsDoNotMeet, PTL
=============================================================================
