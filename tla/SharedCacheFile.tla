--------------------------- MODULE SharedCacheFile ---------------------------
(***************************************************************************)
(* The JSON file that keeps the update checks, the model catalogs and the    *)
(* preferences of a workspace.  A writer reads it all, changes its own       *)
(* section and writes it all back: it reads a first time to name the file,   *)
(* then again under the file lock.  A write truncates the file first, and     *)
(* what cannot be parsed is read as an empty file.                           *)
(***************************************************************************)
EXTENDS Naturals, FiniteSets

CONSTANTS
  CacheWriters,   \* threads and engines of the workspace
  Sections,       \* entries written by different operations
  MaxWrites,      \* bound: the writes that begin
  NoWriter

ASSUME CacheAssumption == MaxWrites \in Nat /\ NoWriter \notin CacheWriters

Blank == [s \in Sections |-> 0]

VARIABLES
  content,     \* the version each section holds, 0 when absent
  torn,        \* the file is truncated
  cacheLock,   \* who holds the lock file
  writer,      \* what each writer does
  lastWritten, \* history: the version of the last write of each section
  cut,         \* history: a write was cut or failed midway
  writesBegun  \* bound: how many writes have begun, and the next version

cacheVars == <<content, torn, cacheLock, writer, lastWritten, cut, writesBegun>>

Resting == [at |-> "idle", section |-> "", version |-> 0, text |-> Blank]

CacheInit ==
  /\ content = Blank /\ torn = FALSE
  /\ cacheLock = NoWriter
  /\ writer = [w \in CacheWriters |-> Resting]
  /\ lastWritten = Blank /\ cut = FALSE
  /\ writesBegun = 0

\* readPersistentRuntimeUpdateCache
Parsed == IF torn THEN Blank ELSE content

\* a write stores a new version, an invalidation stores none
BeginCacheWrite(w) ==
  /\ writer[w].at = "idle" /\ writesBegun < MaxWrites
  /\ writesBegun' = writesBegun + 1
  /\ \E s \in Sections, v \in {0, writesBegun + 1} :
       writer' = [writer EXCEPT ![w] =
                    [at |-> "waiting", section |-> s, version |-> v, text |-> Parsed]]
  /\ UNCHANGED <<content, torn, cacheLock, lastWritten, cut>>

LockCache(w) ==
  /\ writer[w].at = "waiting" /\ cacheLock = NoWriter
  /\ cacheLock' = w
  /\ writer' = [writer EXCEPT ![w].at = "locked"]
  /\ UNCHANGED <<content, torn, lastWritten, cut, writesBegun>>

\* after five seconds the write is dropped, and nobody told
DropCacheWrite(w) ==
  /\ writer[w].at = "waiting" /\ cacheLock # NoWriter
  /\ writer' = [writer EXCEPT ![w] = Resting]
  /\ UNCHANGED <<content, torn, cacheLock, lastWritten, cut, writesBegun>>

\* fault: the text read before the lock is written back
FirstRead(w) == writer[w].text

\* the file is read again under the lock
Reread(w) == Parsed

\* an invalidation that finds nothing to remove writes nothing
TruncateCache(w) ==
  /\ writer[w].at = "locked"
  /\ LET text == [Reread(w) EXCEPT ![writer[w].section] = writer[w].version]
     IN IF writer[w].version = 0 /\ Reread(w)[writer[w].section] = 0
        THEN /\ writer' = [writer EXCEPT ![w] = Resting]
             /\ cacheLock' = NoWriter
             /\ UNCHANGED torn
        ELSE /\ writer' = [writer EXCEPT ![w].at = "writing", ![w].text = text]
             /\ torn' = TRUE
             /\ UNCHANGED cacheLock
  /\ UNCHANGED <<content, lastWritten, cut, writesBegun>>

\* fault: the lock is kept when the write throws
KeepOnFailure(failed) == IF failed THEN cacheLock ELSE NoWriter

AfterWrite(failed) == NoWriter

EndCacheWrite(w) ==
  /\ writer[w].at = "writing"
  /\ writer' = [writer EXCEPT ![w] = Resting]
  /\ \E failed \in BOOLEAN :
       /\ cacheLock' = AfterWrite(failed)
       /\ IF failed
          THEN cut' = TRUE /\ UNCHANGED <<content, torn, lastWritten>>
          ELSE /\ content' = writer[w].text /\ torn' = FALSE
               /\ lastWritten' = [lastWritten EXCEPT ![writer[w].section] = writer[w].version]
               /\ UNCHANGED cut
  /\ UNCHANGED writesBegun

\* the engine of a writer stops: the system frees its lock, the file stays as it is
StopCacheWriter(w) ==
  /\ writer[w].at # "idle"
  /\ cut' = (cut \/ writer[w].at = "writing")
  /\ cacheLock' = IF cacheLock = w THEN NoWriter ELSE cacheLock
  /\ writer' = [writer EXCEPT ![w] = Resting]
  /\ UNCHANGED <<content, torn, lastWritten, writesBegun>>

CacheStep(w) == LockCache(w) \/ DropCacheWrite(w) \/ TruncateCache(w) \/ EndCacheWrite(w)

CacheNext == \E w \in CacheWriters : BeginCacheWrite(w) \/ CacheStep(w) \/ StopCacheWriter(w)

CacheSpec == CacheInit /\ [][CacheNext]_cacheVars

CacheFair == \A w \in CacheWriters : WF_cacheVars(CacheStep(w))

CacheFairSpec == CacheSpec /\ CacheFair

-----------------------------------------------------------------------------
\* Writers of different sections never undo one another: as long as no write was cut
\* or failed midway, the file holds the last version written of every section.
NothingIsUndone == ~cut => torn \/ content = lastWritten

\* A write is over in time, done, failed or dropped, and the lock it took is free
\* again for the others.
CacheWriteEnds ==
  \A w \in CacheWriters :
    writer[w].at # "idle" ~> (writer[w].at = "idle" /\ cacheLock # w)
=============================================================================
