--------------------------- MODULE ChunkLifecycle ---------------------------
(***************************************************************************)
(* The life of a stored chunk (src/service.rs, src/session.rs): a download *)
(* stores its blob and queues an event, the event task links it in the     *)
(* database, deletes and evictions orphan it, and garbage collection takes *)
(* first the blob and then the row.  The database is MetadataStore; blobs, *)
(* queue, downloads and collectors are here.                               *)
(*                                                                         *)
(* A blob is there or not: ChunkSession has the short and damaged ones.    *)
(***************************************************************************)
EXTENDS MetadataStore, SequencesExt

CONSTANTS
  Writer,     \* download tasks, past the hash of what they fetched
  Worker,     \* requests that collect: for a batch of GC, or for a file
  BatchSize,  \* chunks in a batch
  MaxSize,    \* max_size, in files: a file adds 1 to original_bytes
  MaxEvents   \* bound: queued events

ASSUME LifecycleAssumption ==
  BatchSize \in Nat \ {0} /\ MaxSize \in Nat /\ MaxEvents \in Nat

Event == [sha : Sha, file : FileId, index : ChunkIndex]

VARIABLES
  blobs,      \* the hashes that have a blob
  events,     \* the queue of ChunkStoredEvents
  writer,     \* per download: where it is (at), and its event to be
  worker,     \* per collector: where it is (at), whether its batch follows an eviction
              \* (second), the listed chunks whose blobs it has yet to delete (todo),
              \* those whose blobs it has deleted (done), the repository to evict (repo)
  overtaken   \* history: chunks that GC had listed while they were on their way

lifeVars == <<metaVars, blobs, events, writer, worker, overtaken>>

Idle == [at |-> "idle", event |-> [sha |-> NoSha, file |-> 0, index |-> 0]]
Resting == [at |-> "idle", second |-> FALSE, todo |-> {}, done |-> {}, repo |-> {}]

LifeInit ==
  /\ MetaInit
  /\ blobs = {}
  /\ events = <<>>
  /\ writer = [w \in Writer |-> Idle]
  /\ worker = [w \in Worker |-> Resting]
  /\ overtaken = {}

SlotOf(e) == <<e.file, e.index>>
Pending == {events[i] : i \in DOMAIN events}

\* Chunks that are stored, or taken for stored, and not yet linked.
OnTheirWay ==
  {e.sha : e \in Pending} \cup {writer[w].event.sha : w \in {v \in Writer : writer[v].at = "record"}}

Linked(s) == \E k \in Slot : fileChunks[k] = s

\* Chunks whose blobs a collector is about to delete.
Doomed == UNION {worker[w].todo : w \in Worker}

-----------------------------------------------------------------------------
(* Downloads: the last part of fetch_chunk *)

\* Mutant: a chunk with a row is taken for stored.
HasRow(s) == s \in chunks

\* backend.exists
Stored(s) == s \in blobs

\* A chunk has arrived, its hash is locked, and exists() has answered.  One download
\* of a slot runs at a time (ChunkSession).  The session of a file goes on when the
\* file is deleted.
Fetch(w) ==
  /\ writer[w].at = "idle"
  /\ \E e \in Event :
       /\ e.file < nextId
       /\ \A v \in Writer : writer[v].event.sha # e.sha /\ SlotOf(writer[v].event) # SlotOf(e)
       /\ writer' = [writer EXCEPT ![w] =
                       [at |-> IF Stored(e.sha) THEN "record" ELSE "put", event |-> e]]
  /\ UNCHANGED <<metaVars, blobs, events, worker>>

Put(w) ==
  /\ writer[w].at = "put"
  /\ writer' = [writer EXCEPT ![w].at = "record"]
  /\ blobs' = blobs \cup {writer[w].event.sha}
  /\ UNCHANGED <<metaVars, events, worker>>

PutFails(w) ==
  /\ writer[w].at = "put"
  /\ writer' = [writer EXCEPT ![w] = Idle]
  /\ UNCHANGED <<metaVars, blobs, events, worker>>

\* event_tx.send; the channel itself is unbounded.
Record(w) ==
  /\ writer[w].at = "record"
  /\ Len(events) < MaxEvents
  /\ events' = Append(events, writer[w].event)
  /\ writer' = [writer EXCEPT ![w] = Idle]
  /\ UNCHANGED <<metaVars, blobs, worker>>

-----------------------------------------------------------------------------
(* The event task of CacheService::new *)

\* Mutant: a task is spawned for each event, and they are served in any order.
AnyEvent(i) == i \in DOMAIN events

NextEvent(i) == i = 1

\* ensure_chunk_and_link for one event.  It fails when the file is gone, which is
\* logged and forgotten, and does nothing when the slot holds the chunk.
Link ==
  \E i \in DOMAIN events :
    /\ NextEvent(i)
    /\ events' = RemoveAt(events, i)
    /\ LET e == events[i] IN
       \/ EnsureChunkAndLink(e.file, e.index, e.sha)
       \/ /\ ~ ForeignKeyHolds(e.file) \/ fileChunks[SlotOf(e)] = e.sha
          /\ UNCHANGED metaVars
    /\ UNCHANGED <<blobs, writer, worker>>

-----------------------------------------------------------------------------
(* gc_execute_batch *)

\* An operator asks for a batch, or a request for a file that misses a chunk evicts
\* first; which of the two it is shows when the batch is over.
Start(w) ==
  /\ worker[w].at = "idle"
  /\ worker' = [worker EXCEPT ![w].at = "list"]
  /\ UNCHANGED <<metaVars, blobs, events, writer>>

\* list_orphan_chunks_batch: the oldest marks first, in whole seconds, so any.
List(w) ==
  /\ worker[w].at = "list"
  /\ \E B \in SUBSET OrphanChunks :
       /\ Cardinality(B) = Min({BatchSize, Cardinality(OrphanChunks)})
       /\ worker' = [worker EXCEPT ![w].at = "delete", ![w].todo = B, ![w].done = {}]
  /\ UNCHANGED <<metaVars, blobs, events, writer>>

DeleteBlob(w) ==
  /\ worker[w].at = "delete"
  /\ \E s \in worker[w].todo :
       /\ blobs' = blobs \ {s}
       /\ worker' = [worker EXCEPT ![w].todo = @ \ {s}, ![w].done = @ \cup {s}]
  /\ UNCHANGED <<metaVars, events, writer>>

\* backend.delete fails, or the client leaves while it is awaited: the rows of the
\* blobs deleted so far stay.  evict_if_needed ignores an error of its second batch.
Abandon(w) ==
  /\ worker[w].at = "delete" /\ worker[w].todo # {}
  /\ \/ worker' = [worker EXCEPT ![w] = Resting]
     \/ /\ worker[w].second
        /\ worker' = [worker EXCEPT ![w] = [Resting EXCEPT !.at = "list"]]
  /\ UNCHANGED <<metaVars, blobs, events, writer>>

\* Where evict_if_needed goes after a batch that deleted the rows of S.
AfterBatch(second, S) ==
  IF second THEN "list" ELSE IF S # {} THEN "freed" ELSE "dry"

DeleteRows(w) ==
  /\ worker[w].at = "delete" /\ worker[w].todo = {}
  /\ DeleteChunksBatch(worker[w].done)
  /\ \/ /\ ~ worker[w].second
        /\ worker' = [worker EXCEPT ![w] = Resting]
     \/ worker' = [worker EXCEPT ![w] =
                     [Resting EXCEPT !.at = AfterBatch(worker[w].second, Deletable(worker[w].done))]]
  /\ UNCHANGED <<blobs, events, writer>>

-----------------------------------------------------------------------------
(* evict_if_needed *)

\* original_bytes <= max_size
Fits == Cardinality(Live) <= MaxSize

\* get_stats: another batch if the last one freed something, else a repository.
Measure(w) ==
  /\ worker[w].at \in {"freed", "dry"}
  /\ \/ /\ Fits
        /\ worker' = [worker EXCEPT ![w] = Resting]
     \/ /\ ~ Fits
        /\ worker' = [worker EXCEPT ![w].at = IF @ = "freed" THEN "list" ELSE "choose"]
  /\ UNCHANGED <<metaVars, blobs, events, writer>>

\* list_repos_by_access: the least recently used, as clients and whole seconds have
\* it, so any that has a file.
Choose(w) ==
  /\ worker[w].at = "choose"
  /\ \/ /\ Live = {}
        /\ worker' = [worker EXCEPT ![w] = Resting]
     \/ \E f \in Live :
          worker' = [worker EXCEPT ![w].at = "evict", ![w].repo = {RepoOf[files[f]]}]
  /\ UNCHANGED <<metaVars, blobs, events, writer>>

\* Mutant: files that hold no chunk are spared, as nothing would be freed.
CachedFiles(r) ==
  {f \in FilesOfRepo(r) : \E i \in ChunkIndex : fileChunks[<<f, i>>] # NoSha}

VictimFiles(r) == FilesOfRepo(r)

\* delete_files_by_repo.  The repository may be gone by now.
Evict(w) ==
  /\ worker[w].at = "evict"
  /\ \E r \in worker[w].repo : DeleteFilesById(VictimFiles(r))
  /\ worker' = [worker EXCEPT ![w] = [Resting EXCEPT !.at = "list", !.second = TRUE]]
  /\ UNCHANGED <<blobs, events, writer>>

-----------------------------------------------------------------------------
(* Everything else that writes the database, and a crash *)

\* An operator's DELETE of a file or a repository takes its rows one by one.
ControlDelete == \E n \in Name : DeleteFile(n)

\* An operator's repair.
ControlReconcile == ReconcileChunkRefs

Administer ==
  /\ (\E n \in Name : AddFile(n)) \/ ControlDelete \/ ControlReconcile
  /\ UNCHANGED <<blobs, events, writer, worker>>

\* The process stops and starts again: tables and blobs are all that lasts.
Crash ==
  /\ events' = <<>>
  /\ writer' = [w \in Writer |-> Idle]
  /\ worker' = [w \in Worker |-> Resting]
  /\ UNCHANGED <<metaVars, blobs>>

Download(w) == Fetch(w) \/ Put(w) \/ PutFails(w) \/ Record(w)

\* What a collector does by itself.
Proceed(w) ==
  List(w) \/ DeleteBlob(w) \/ DeleteRows(w) \/ Measure(w) \/ Choose(w) \/ Evict(w)

LifeStep ==
  \/ \E w \in Writer : Download(w)
  \/ Link
  \/ \E w \in Worker : Start(w) \/ Proceed(w) \/ Abandon(w)
  \/ Administer
  \/ Crash

\* A chunk was overtaken for as long as it stays on its way or linked, or until its
\* blob is put again.
LifeNext ==
  /\ LifeStep
  /\ overtaken' = {s \in Sha :
       /\ s \in OnTheirWay' \/ Linked(s)'
       /\ s \in Doomed' \cap OnTheirWay' \/ s \in overtaken \ (blobs' \ blobs)}

LifeSpec == LifeInit /\ [][LifeNext]_lifeVars

\* A collector awaits the file system only, and every request is polled.
FairLifeSpec == LifeSpec /\ \A w \in Worker : WF_worker(Proceed(w))

-----------------------------------------------------------------------------
(* Properties *)

Collector ==
  [at : {"idle", "list", "delete", "freed", "dry", "choose", "evict"},
   second : BOOLEAN, todo : SUBSET Sha, done : SUBSET Sha, repo : SUBSET Repo]

LifeTypeOK ==
  /\ TypeOK
  /\ blobs \subseteq Sha
  /\ events \in Seq(Event) /\ Len(events) <= MaxEvents
  /\ writer \in [Writer -> {Idle} \cup [at : {"put", "record"}, event : Event]]
  /\ worker \in [Worker -> Collector]
  /\ overtaken \subseteq Sha

\* Every linked chunk has its blob, through crashes and batches that fail half-way
\* (whose rows stay without blobs), but for the one race the code leaves open: a
\* batch had listed the chunk while a download took its blob for stored.
BlobKept ==
  \A s \in Sha : Linked(s) => s \in blobs \cup overtaken

\* The chunk a slot will hold once the queue is served.
Newest(k) ==
  LET E == {i \in DOMAIN events : SlotOf(events[i]) = k}
  IN  IF E = {} THEN fileChunks[k] ELSE events[Max(E)].sha

\* Serving the queue never changes what a slot of a living file is to hold in the
\* end: the chunk that was downloaded last, and not one that was on its way longer.
LinkKeepsNewest ==
  [][Link => \A k \in Slot : k[1] \in Live => Newest(k)' = Newest(k)]_lifeVars

\* A chunk that loses its last link is a candidate of GC from that step on, unless
\* another chunk took its slot (that one ensure_chunk_and_link does not mark).
LastLinkMarked ==
  [][\A s \in Sha :
       /\ Refs(s) # {}
       /\ \A k \in Refs(s) : fileChunks'[k] = NoSha
       => s \in OrphanChunks']_lifeVars

\* An eviction comes to its end, unless chunks keep being linked and orphaned: its
\* loop frees what there is, then a repository at a time until the rest fits.
EvictionEnds ==
  (\A w \in Worker : []<>(worker[w].at = "idle"))
  \/ []<><<Link \/ ReconcileChunkRefs>>_lifeVars
=============================================================================
