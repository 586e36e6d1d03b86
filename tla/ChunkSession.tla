---------------------------- MODULE ChunkSession ----------------------------
(***************************************************************************)
(* SessionTable and ChunkReader (src/session.rs): how the chunks of one    *)
(* file are read from the blob store or downloaded.  Everyone who asks for *)
(* a chunk that is being downloaded joins the one download of it; what     *)
(* arrives is stored under its hash, entered in cached_chunks and sent to  *)
(* all who joined.                                                         *)
(*                                                                         *)
(* A body is the interval <<from, to>> of bytes (to excluded) that it      *)
(* holds of upstream's file, and stands for its own hash.                  *)
(***************************************************************************)
EXTENDS Integers, FiniteSets, FiniteSetsExt

CONSTANTS
  Asker,       \* callers of subscribe, each for one chunk, one call at a time
  Prefetcher,  \* those that drop the receiver they get
  CacheMap,    \* the cached_chunks of the file's actors
  MapOf,       \* the one each asker uses
  ChunkOf,     \* the chunk each asks for
  ChunkSize,   \* CHUNK_SIZE
  TotalSize,   \* total_size of the row
  MaxAttempts, \* chunk_retries
  MaxAsks,     \* bound: calls of subscribe
  MaxDamage,   \* bound: blobs damaged
  Verify,      \* verify_sha256
  Packed,      \* bodies that are stored compressed: past COMPRESS_THRESHOLD, with zstd
  FileSizes,   \* the sizes that upstream's file may have by now
  None,        \* no task, no hash, an error
  Mismatch     \* the error of another hash than expected

ASSUME ChunkAssumption ==
  /\ Prefetcher \subseteq Asker
  /\ MapOf \in [Asker -> CacheMap]
  /\ ChunkSize \in Nat \ {0} /\ TotalSize \in Nat \ {0}
  /\ MaxAttempts \in Nat \ {0}
  /\ Verify \in BOOLEAN
  /\ FileSizes \subseteq 0 .. TotalSize
  /\ ChunkOf \in [Asker -> 0 .. (TotalSize - 1) \div ChunkSize]

Chunk == 0 .. (TotalSize - 1) \div ChunkSize
Start(k) == k * ChunkSize
End(k) == Min({Start(k) + ChunkSize, TotalSize}) - 1
Whole(k) == <<Start(k), End(k) + 1>>
Body == {b \in (0 .. TotalSize) \X (0 .. TotalSize) : b[1] <= b[2]}

ASSUME PackedAssumption == Packed \subseteq Body

ASSUME NullAssumption == None \notin Asker /\ Mismatch \notin Body \cup {None}

Length(b) == b[2] - b[1]
Wanted(r) == Whole(ChunkOf[r])

VARIABLES
  at,       \* where each call of subscribe is
  seen,     \* the hash it found in cached_chunks
  joined,   \* the download it has subscribed to
  entry,    \* SessionTable.map: the task of each chunk's ChunkSession
  task,     \* where the task each asker spawned is
  attempt,  \* the attempt it is at
  body,     \* what it has downloaded
  cached,   \* each cached_chunks: the hash of each chunk
  linked,   \* the chunks the database knows of
  blob,     \* "absent", "partial" or "whole", by hash
  lock,     \* write_locks: the task that holds each hash's
  asks,     \* the calls so far
  damage,   \* the blobs damaged so far
  spoiled   \* history: hashes whose blob was damaged, deleted, or found short by
            \* exists(), since it was last written

askVars == <<at, seen, joined>>
taskVars == <<task, attempt, body>>
storeVars == <<cached, linked, blob, lock>>
bounds == <<asks, damage, spoiled>>
chunkVars == <<askVars, entry, taskVars, storeVars, bounds>>

ChunkInit ==
  /\ at = [r \in Asker |-> "idle"]
  /\ seen = [r \in Asker |-> None]
  /\ joined = [r \in Asker |-> None]
  /\ entry = [k \in Chunk |-> None]
  /\ task = [r \in Asker |-> "none"]
  /\ attempt = [r \in Asker |-> 0]
  /\ body = [r \in Asker |-> None]
  /\ cached = [m \in CacheMap |-> [k \in Chunk |-> None]]
  /\ linked = [k \in Chunk |-> None]
  /\ blob = [s \in Body |-> "absent"]
  /\ lock = [s \in Body |-> None]
  /\ asks = 0 /\ damage = 0 /\ spoiled = {}

-----------------------------------------------------------------------------
(* SessionTable::subscribe *)

Goto(r, label) == at' = [at EXCEPT ![r] = label]

\* The hash is taken from cached_chunks, and the lock on it released.
Ask(r) ==
  /\ at[r] = "idle" /\ task[r] = "none"
  /\ asks < MaxAsks /\ asks' = asks + 1
  /\ seen' = [seen EXCEPT ![r] = cached[MapOf[r]][ChunkOf[r]]]
  /\ Goto(r, IF seen'[r] = None THEN "enter" ELSE "read")
  /\ UNCHANGED <<joined, entry, taskVars, storeVars, damage, spoiled>>

\* read_cached_chunk: the blob is missing, or returned, or found damaged or of
\* the wrong size.  Without verification it is returned as it is.  A damaged .zst
\* file may fail to decode, which is taken for a missing blob.
ReadCached(r) ==
  LET s == seen[r]
      good == blob[s] = "whole" /\ Length(s) = Length(Wanted(r)) IN
  /\ at[r] = "read"
  /\ \/ /\ blob[s] = "absent" \/ (blob[s] = "partial" /\ s \in Packed)
        /\ Goto(r, "forget") /\ UNCHANGED seen
     \/ /\ blob[s] # "absent" /\ Verify /\ ~ good
        /\ Goto(r, "purge") /\ UNCHANGED seen
     \/ /\ blob[s] # "absent" /\ (Verify => good)
        /\ Goto(r, "idle") /\ seen' = [seen EXCEPT ![r] = None]
  /\ UNCHANGED <<joined, entry, taskVars, storeVars, bounds>>

\* It deletes what it found damaged, by hash: by now it may be another blob.
Purge(r) ==
  /\ at[r] = "purge"
  /\ Goto(r, "forget")
  /\ blob' = [blob EXCEPT ![seen[r]] = "absent"]
  /\ spoiled' = spoiled \cup {seen[r]}
  /\ UNCHANGED <<seen, joined, entry, taskVars, cached, linked, lock, asks, damage>>

\* Mutant: the stale hash stays in cached_chunks.
ForgetNothing(r) ==
  /\ at[r] = "forget"
  /\ Goto(r, "enter")
  /\ UNCHANGED <<seen, joined, entry, taskVars, storeVars, bounds>>

Forget(r) ==
  /\ at[r] = "forget"
  /\ Goto(r, "enter")
  /\ cached' = [cached EXCEPT ![MapOf[r]][ChunkOf[r]] = None]
  /\ UNCHANGED <<seen, joined, entry, taskVars, linked, blob, lock, bounds>>

\* Mutant: insert in place of entry().or_insert_with().
AlwaysSpawns(r) == TRUE

\* Whether the entry of the chunk is vacant.
Spawns(r) == entry[ChunkOf[r]] = None

\* map.entry().or_insert_with() and entry.tx.subscribe(), under the guard of the
\* entry: the receiver is that of the session found, or of a new one whose task is
\* spawned.  A prefetch drops it.
Enter(r) ==
  LET k == ChunkOf[r] IN
  /\ at[r] = "enter"
  /\ Goto(r, IF r \in Prefetcher THEN "idle" ELSE "wait")
  /\ seen' = [seen EXCEPT ![r] = None]
  /\ IF Spawns(r)
     THEN /\ entry' = [entry EXCEPT ![k] = r]
          /\ task' = [task EXCEPT ![r] = "request"]
          /\ attempt' = [attempt EXCEPT ![r] = 1]
     ELSE UNCHANGED <<entry, task, attempt>>
  /\ joined' = [joined EXCEPT ![r] = IF r \in Prefetcher THEN None ELSE entry'[k]]
  /\ UNCHANGED <<body, storeVars, bounds>>

-----------------------------------------------------------------------------
(* The task: ChunkReader::fetch_chunk *)

TaskGoto(r, label) == task' = [task EXCEPT ![r] = label]

\* The task has what it will send: body[r], or None for an error.
Deliver(r, b) ==
  /\ TaskGoto(r, "send")
  /\ body' = [body EXCEPT ![r] = b]
  /\ attempt' = [attempt EXCEPT ![r] = 0]

\* Mutant: the test for the last attempt is > in place of >=.
RetryOnceMore(r) ==
  IF attempt[r] > MaxAttempts
  THEN Deliver(r, None)
  ELSE attempt' = [attempt EXCEPT ![r] = @ + 1] /\ UNCHANGED <<task, body>>

\* The answer was unusable: try again, or give up.
Retry(r) ==
  IF attempt[r] >= MaxAttempts
  THEN Deliver(r, None)
  ELSE attempt' = [attempt EXCEPT ![r] = @ + 1] /\ UNCHANGED <<task, body>>

\* A request error, a 5xx, or a body that broke off.
RequestFails(r) ==
  /\ task[r] = "request"
  /\ Retry(r)
  /\ UNCHANGED <<askVars, entry, storeVars, bounds>>

\* A 4xx: no retry.
RequestRefused(r) ==
  /\ task[r] = "request"
  /\ Deliver(r, None)
  /\ UNCHANGED <<askVars, entry, storeVars, bounds>>

Downloaded(r, b) ==
  /\ TaskGoto(r, "check")
  /\ body' = [body EXCEPT ![r] = b]
  /\ attempt' = [attempt EXCEPT ![r] = 0]

\* A 206 with `n` bytes of the range.
PartialContent(r) ==
  /\ task[r] = "request"
  /\ \E n \in 0 .. Length(Wanted(r)) :
       IF n = Length(Wanted(r)) THEN Downloaded(r, Wanted(r)) ELSE Retry(r)
  /\ UNCHANGED <<askVars, entry, storeVars, bounds>>

\* A 200 with the n bytes of the whole file, as long as upstream has it now.
\* What is longer than the chunk is cut, be there enough of it or not: if it ends
\* before the chunk starts, slice() panics.  What is as long as the chunk is taken
\* for the chunk.
FullContent(r) ==
  LET want == Wanted(r) IN
  /\ task[r] = "request"
  /\ \E n \in FileSizes :
       \/ n < Length(want) /\ Retry(r)
       \/ n = Length(want) /\ Downloaded(r, <<0, n>>)
       \/ /\ n > Length(want) /\ n >= want[1]
          /\ Downloaded(r, <<want[1], Min({want[2], n})>>)
       \/ /\ n > Length(want) /\ n < want[1]
          /\ TaskGoto(r, "panicked") /\ UNCHANGED <<attempt, body>>
  /\ UNCHANGED <<askVars, entry, storeVars, bounds>>

\* The hash that cached_chunks has for the chunk now, if any, must be this one.
Check(r) ==
  LET expected == cached[MapOf[r]][ChunkOf[r]] IN
  /\ task[r] = "check"
  /\ IF Verify /\ expected \notin {None, body[r]}
     THEN Deliver(r, Mismatch)
     ELSE TaskGoto(r, "lock") /\ UNCHANGED <<body, attempt>>
  /\ UNCHANGED <<askVars, entry, storeVars, bounds>>

\* Mutant: no write_locks.
FreeAnyway(s) == TRUE

FreeLock(s) == lock[s] = None

Acquire(r) ==
  /\ task[r] = "lock" /\ FreeLock(body[r])
  /\ lock' = [lock EXCEPT ![body[r]] = r]
  /\ TaskGoto(r, "exists")
  /\ UNCHANGED <<askVars, entry, attempt, body, cached, linked, blob, bounds>>

\* Somebody is writing this blob right now.
Writing(s) == \E q \in Asker : task[q] = "write" /\ body[q] = s

\* backend.exists: any file of that name will do, with .zst or without, even a
\* short one that a failed write or damage has left.
Exists(r) ==
  LET s == body[r] IN
  /\ task[r] = "exists"
  /\ TaskGoto(r, IF blob[s] = "absent" THEN "put" ELSE "record")
  /\ spoiled' = IF blob[s] = "partial" /\ ~ Writing(s) THEN spoiled \cup {s} ELSE spoiled
  /\ UNCHANGED <<askVars, entry, attempt, body, storeVars, asks, damage>>

\* backend.put creates the file,
PutBegin(r) ==
  /\ task[r] = "put"
  /\ TaskGoto(r, "write")
  /\ blob' = [blob EXCEPT ![body[r]] = "partial"]
  /\ UNCHANGED <<askVars, entry, attempt, body, cached, linked, lock, bounds>>

\* and writes it, in vain if somebody unlinked it.
PutEnd(r) ==
  /\ task[r] = "write"
  /\ TaskGoto(r, "record")
  /\ blob' = [blob EXCEPT ![body[r]] = IF @ = "partial" THEN "whole" ELSE @]
  /\ spoiled' = IF blob[body[r]] = "partial" THEN spoiled \ {body[r]} ELSE spoiled
  /\ UNCHANGED <<askVars, entry, attempt, body, cached, linked, lock, asks, damage>>

Release(r) == lock' = [lock EXCEPT ![body[r]] = None]

\* put failed: what it wrote stays.
PutFails(r) ==
  /\ task[r] = "write"
  /\ Release(r)
  /\ Deliver(r, None)
  /\ UNCHANGED <<askVars, entry, cached, linked, blob, bounds>>

\* cached_chunks, the ChunkStoredEvent and the end of the guard.  (The event task
\* links the chunk later, see MetadataStore; Respawn lets it lag.)
Record(r) ==
  /\ task[r] = "record"
  /\ cached' = [cached EXCEPT ![MapOf[r]][ChunkOf[r]] = body[r]]
  /\ linked' = [linked EXCEPT ![ChunkOf[r]] = body[r]]
  /\ Release(r)
  /\ TaskGoto(r, "send")
  /\ UNCHANGED <<askVars, entry, attempt, body, blob, bounds>>

Dismiss(R) ==
  /\ at' = [q \in Asker |-> IF q \in R THEN "idle" ELSE at[q]]
  /\ joined' = [q \in Asker |-> IF q \in R THEN None ELSE joined[q]]

Waiting(r) == {q \in Asker : at[q] = "wait" /\ joined[q] = r}

\* tx.send, of body[r] or an error, reaches those that have subscribed.
Send(r) ==
  /\ task[r] = "send"
  /\ TaskGoto(r, "remove")
  /\ body' = [body EXCEPT ![r] = None]
  /\ Dismiss(Waiting(r))
  /\ UNCHANGED <<seen, entry, attempt, storeVars, bounds>>

\* Mutant: a sender outlives the session, and the channel stays open.
RemoveKeepsSender(r) ==
  /\ task[r] = "remove"
  /\ entry' = [entry EXCEPT ![ChunkOf[r]] = None]
  /\ TaskGoto(r, "none")
  /\ UNCHANGED <<askVars, attempt, body, storeVars, bounds>>

\* map.remove; the last senders go, and whoever subscribed after the send finds
\* its channel closed.
Remove(r) ==
  /\ task[r] = "remove"
  /\ entry' = [entry EXCEPT ![ChunkOf[r]] = None]
  /\ TaskGoto(r, "none")
  /\ Dismiss(Waiting(r))
  /\ UNCHANGED <<seen, attempt, body, storeVars, bounds>>

-----------------------------------------------------------------------------
(* The environment *)

\* A stored chunk is damaged: bit rot, or a crash in the middle of a write.
Damage(s) ==
  /\ blob[s] = "whole"
  /\ damage < MaxDamage /\ damage' = damage + 1
  /\ blob' = [blob EXCEPT ![s] = "partial"]
  /\ spoiled' = spoiled \cup {s}
  /\ UNCHANGED <<askVars, entry, taskVars, cached, linked, lock, asks>>

\* The actor of a cached_chunks ends, and the next begins with what the database
\* lists.
Respawn(m) ==
  /\ \A r \in Asker : MapOf[r] = m => at[r] = "idle" /\ task[r] = "none"
  /\ \E K \in SUBSET Chunk :
       cached' = [cached EXCEPT ![m] = [k \in Chunk |-> IF k \in K THEN linked[k] ELSE None]]
  /\ UNCHANGED <<askVars, entry, taskVars, linked, blob, lock, bounds>>

AskStep(r) == ReadCached(r) \/ Purge(r) \/ Forget(r) \/ Enter(r)

TaskStep(r) ==
  \/ RequestFails(r) \/ RequestRefused(r) \/ PartialContent(r) \/ FullContent(r)
  \/ Check(r) \/ Exists(r) \/ PutBegin(r) \/ PutEnd(r) \/ PutFails(r)
  \/ Record(r) \/ Send(r) \/ Remove(r)

ChunkNext ==
  \/ \E r \in Asker : Ask(r) \/ AskStep(r) \/ TaskStep(r) \/ Acquire(r)
  \/ \E s \in Body : Damage(s)
  \/ \E m \in CacheMap : Respawn(m)

ChunkSpec == ChunkInit /\ [][ChunkNext]_chunkVars

\* Tasks are polled, attempts end and are bounded, and tokio's mutex serves its
\* waiters in order.
ChunkFairness ==
  \A r \in Asker :
    /\ WF_chunkVars(AskStep(r))
    /\ WF_chunkVars(TaskStep(r)) /\ SF_chunkVars(Acquire(r))

FairChunkSpec == ChunkSpec /\ ChunkFairness

-----------------------------------------------------------------------------
(* Properties *)

Running == {"request", "check", "lock", "exists", "put", "write", "record", "send", "remove"}

ChunkTypeOK ==
  /\ at \in [Asker -> {"idle", "read", "purge", "forget", "enter", "wait"}]
  /\ seen \in [Asker -> Body \cup {None}]
  /\ joined \in [Asker -> Asker \cup {None}]
  /\ entry \in [Chunk -> Asker \cup {None}]
  /\ task \in [Asker -> Running \cup {"none", "panicked"}]
  /\ attempt \in [Asker -> 0 .. MaxAttempts]
  /\ body \in [Asker -> Body \cup {Mismatch, None}]
  /\ cached \in [CacheMap -> [Chunk -> Body \cup {None}]]
  /\ linked \in [Chunk -> Body \cup {None}]
  /\ blob \in [Body -> {"absent", "partial", "whole"}]
  /\ lock \in [Body -> Asker \cup {None}]
  /\ spoiled \subseteq Body

\* However many callers ask for a chunk at once, of whatever actor, one download of
\* it runs: the entry of the table is the atomic one (SessionTable::subscribe).
OneDownload ==
  \A q, r \in Asker :
    q # r /\ task[q] \in Running /\ task[r] \in Running => ChunkOf[q] # ChunkOf[r]

\* A caller waits only for a download that still has its entry, and will send or
\* close (or has panicked): no receiver outlives its session.
WaitsForEntry ==
  \A r \in Asker : at[r] = "wait" => joined[r] # None /\ entry[ChunkOf[r]] = joined[r]

\* Whoever alone reads a chunk in its actor is never refused the chunk for another
\* hash: the copy that it found damaged, missing or of the wrong size is no longer
\* the one to compare with.  (Two that do may be, if upstream answers them
\* differently.)  See subscribe, which clears cached_chunks, and fetch_chunk.
RefetchRecovers ==
  \A r \in Asker :
    (\A q \in Asker \ {r} : <<MapOf[q], ChunkOf[q]>> # <<MapOf[r], ChunkOf[r]>>)
    => body[r] # Mismatch

\* A blob is never written over: between its absence being seen and the write, no
\* other task can store the same content (write_locks).
PutIsFresh == \A r \in Asker : task[r] = "put" => blob[body[r]] = "absent"

\* A chunk that is linked has a whole blob, whatever tasks store the same content at
\* a time, unless since the last write the blob was damaged, deleted by a reader
\* that had found an earlier one bad, or left short and taken for stored by exists().
StoredIsWhole ==
  \A k \in Chunk : linked[k] # None => blob[linked[k]] = "whole" \/ linked[k] \in spoiled

\* Whoever waits for a download gets an answer or a closed channel, unless the task
\* panicked.
CallerReleased ==
  \A r \in Asker :
    at[r] = "wait" ~> (at[r] # "wait" \/ task[joined[r]] = "panicked")

\* A downloaded chunk is the chunk.  The code breaks this when upstream ignores the
\* Range and its file is shorter than the row says: a 200 answer is cut short, or
\* taken for the chunk because it is as long.
WholeChunk ==
  \A r \in Asker : task[r] = "send" /\ body[r] \in Body => body[r] = Wanted(r)
=============================================================================
