# hugrs in TLA+

hugrs is a caching proxy for model hubs (Hugging Face, ModelScope).  It answers
HEAD and GET requests for files from a content-addressed chunk store and fetches
what is missing from upstream.  These modules model the part of it that keeps
state: the metadata database, the reconciliation of a file's metadata with
upstream, the request handler, the download sessions, the life of a stored chunk
until garbage collection takes it, the streaming of a cached file, and the start of a
daemon.  TLC checks small instances; TLAPS proves the theorems for every value of the
constants.

Run a check with `tlc -config <cfg> <module>` and a proof with
`tlapm <module>.tla`; `PROJECT.json` lists the runs, the theorems, and the source
lines of every definition.

## 1. The system

Paths are relative to `src/src/`.

| Part | State it keeps | Operations | Talks to |
|---|---|---|---|
| Metadata database (`metadata.rs`, `migrations/`) | tables files, chunks (ref_count, orphaned_at), file_chunks, behind one `Mutex<Connection>` | add, delete (one, or a repository), link a chunk, list and delete orphans, repair counts | everyone calls it; one transaction per call |
| Metadata reconcile (`server.rs`, `service.rs`) | the singleflight table: per key, the waiters of the request that leads | HEAD: lead or wait; probe; look up, delete, add, set headers; publish | upstream, the database |
| File proxy (`server.rs: file_proxy_inner`) | per request: the copy of the row it loaded, the verdict on its etag | cache lookup, etag validation, backfill, invalidation, 304, hit, miss | reconcile, the sessions |
| File sessions (`session.rs`) | the actor of each file; per actor: mailbox, subscribers, completed, prefetch_inflight, cached_chunks | subscribe, pick the next chunk, download, forward, prefetch, stop | chunk sessions; clients over bounded channels |
| Chunk sessions (`session.rs: SessionTable`, `ChunkReader`) | one download task per (file, chunk), write locks per hash | join or start a download, retry, check the length, store, send a `ChunkStoredEvent` | upstream, blob storage, the event task |
| Event task, GC, eviction (`service.rs`) | the event queue | link stored chunks; delete orphan blobs and rows; evict the oldest repository | database, blob storage |
| Cached-file streaming (`service.rs: stream_cached_file`) | per stream: a queue of read-ahead tasks, the position, the client's channel | read ahead, verify, delete a bad blob, send, stop | blob storage, one client |
| Startup (`main.rs`, `config.rs`, `admin_client.rs`) | settings; on disk: database, blob directory, token file | layer the settings, rename the old blob directory, migrate, make or find the token, bind | database, other daemons and hugrsctl through the disk |
| Blob storage (`storage/`) | files or S3 objects by hash | put, get, exists, delete | - |
| Control API, hugrsctl's commands, Git LFS proxy, routing | none that lasts | HTTP and JSON | the service |

What is hard here:

- Requests run concurrently on several threads; every method of
  the database is atomic, but handlers call several, and between two of them any other
  request can run.  A request future can be dropped at any await when its client leaves.
- Upstream changes under the server: two probes of one file may differ.
- Chunks are shared by files; their counts are maintained by hand in SQL.
- A stored chunk is linked later, by an event, when its file may be gone.
- One actor serves many clients with different ranges through bounded channels;
  clients come late and leave early.
- The process may stop between any two of these steps, and another one, with other
  settings, may start on what it left on disk, or run beside it.
- A blob may go bad, or be short, and what is read ahead may be of it.

What makes each part correct:

- Database: counts equal links; links resolve; a chunk in use is never marked or
  collected; an old database drifts only in the safe direction and the repair ends
  the drift.
- Reconcile: one flight per key; every waiter is told; rows do not mix two
  contents; headers do not go back in time; a key is never left behind.
- File proxy: what the cache serves was vouched for in this request; a 304 is for
  the current content; every request ends.
- Sessions: a client gets its range in order, complete, nothing twice; every stream
  ends.
- Chunk sessions: one download of a chunk at a time; a blob is not written over; who
  waits is answered; a bad copy does not stop its own replacement; what is stored is
  what was asked for.
- Cached streams: the range in order and whole, or a part of it and an error; a bounded
  number of reads.
- Startup: a setting has the value of the highest layer that names it; hugrsctl and the
  daemon mean the same token; old blobs are not left aside; no stop in a migration
  spoils a count.
- Chunk life cycle: a linked chunk has its blob; what loses its last link can be
  collected; a late event does not displace a newer chunk; an eviction ends.

`PROJECT.json` lists the hazards one by one, at their lines.

## 2. The modules

| Module | Models | State |
|---|---|---|
| `ChunkCatalog` | what the database promises: which chunk each slot holds, which chunks are known, nothing held is collected | links, known |
| `MetadataStore` | `metadata.rs`; one action per writing method | files, nextId, fileChunks, chunks, refCount, orphanedAt |
| `SchemaMigration` | migrations 005 and 006 on any consistent schema-4 database, then `MetadataStore` | + headers, schema, repaired (history) |
| `Startup` | extends it with the start of daemons: `Config::load`, the rename of the old blob directory, `ensure_admin_token`, the port; hugrsctl's search for the token | + per daemon where it is, its settings and token; token files, blob directory; history |
| `MetadataReconcile` | HEAD: `reconcile_metadata_singleflight`, `probe_file_metadata`, `reconcile_fetched_metadata` | row, upstream, leaders, waiters, pc, probed, outcome |
| `FileProxy` | extends it with GET: `file_proxy_inner`, `validate_file_etag`; evictions | + complete, cached, asks, verdict |
| `FileSession` | `FileSessionManager`, `ActorHandle`, `FileSessionActor` | manager, actor and client variables; history of what was sent |
| `ChunkSession` | `SessionTable`, `ChunkReader`, the `LocalBackend`, with compression | callers, the table, download tasks, cached_chunks, blobs, write locks |
| `ChunkLifecycle` | extends `MetadataStore` with blobs, `ChunkStoredEvent`s and their task, `gc_execute_batch`, `evict_if_needed`, crashes | + blobs, events, writer, worker; history of overtaken chunks |
| `RangeStream` | what the body of an answer promises: the range in order, then the end, or an error; implemented by `CachedStream` and, for a client alone with its actor, by `FileSession` | status, range, next |
| `CachedStream` | `stream_cached_file` and its read-ahead tasks, over a store that others use | blobs, the streaming task and its queue, a reader per chunk, the client |
| `MC*` | instances for TLC: `MCMetadataReconcile`, `MCFileProxy`, `MCFileSession`, `MCChunkSession`, `MCChunkLifecycle`, `MCCachedStream`, `MCStartup` | - |
| `*_proofs` | theorems about the module of that name (`Startup_proofs`: and about `SchemaMigration`) | - |

**MetadataStore.**  A method of the store holds the connection lock throughout, so
each is one action: `AddFile`, `DeleteFile`, `DeleteFilesByRepo`,
`EnsureChunkAndLink`, `DeleteChunksBatch`, `ReconcileChunkRefs`.  The foreign keys
are modelled as the guards they are: the insert of a link to a deleted file rolls
back.  `DeleteChunksBatch(S)` takes any set S, because the list it works on was read
in an earlier transaction.  Sizes, timestamps and headers are left out.

**SchemaMigration.**  `LegacyInit` is every consistent database of schema 4 over the
constants (each with any headers on each file), so TLC starts from thousands of
initial states and the theorems from all of them.

**Startup.**  A step lies between two looks at the disk: `root.exists()`,
`legacy.exists()`, `rename`; one migration, which is a transaction; `File::create` and
`write_all` of the token file.  `Stop` is a crash or a `?` of main, anywhere.  A setting
is a string of a finite set.  `config.rs` names every setting in four lists kept by hand:
what `cli_patch` asks for before it passes a section on, what it then passes on, what
`env_patch` reads, and what the `*_is_empty` functions ask for.  Each is transcribed on
its own (`CliListed`, `CliFields`, `EnvFields`, `EnvListed`), with one name for a setting
in all layers, and `CliPatch` and `EnvPatch` pass on what these lists name and nothing
else: a setting that one list forgets is lost.  A daemon that serves takes the steps of
`SchemaMigration` (`Serve`, `Repair`) and stores blobs.  `write_all` from offset 0 over a
token that another start wrote meanwhile leaves a mixture of the two if that one is
longer.  All daemons use one data directory.

**MetadataReconcile.**  A request is a program counter.  Each database call of
`reconcile_fetched_metadata` is a step of its own since the function takes the lock
anew for each; registration, and removal of the key with the sends, are one step
each (they hold the table's lock, or do not await after it).  `Cancel` drops the
future at the awaits.  `DatabaseError` is any `?` on a statement.  A row records
*which version of upstream* its size and its headers came from instead of the values;
`EtagOf` maps versions to etags, so two versions can share an etag, have equivalent
ones (`W/"x"`), or none.

**FileProxy.**  GETs load a copy of the row, validate it, and decide on the copy; a
miss goes through the same reconcile steps but not through the table.  `Complete`
stands for the sessions that link a file's last chunk, `Remove` for evictions and
operators.

**FileSession.**  An actor runs alone between its awaits: the chunk it waits for
(`Arrive`, `Fail`) and each send to a client (`Forward`, `ForwardError`, one step per
subscriber, waiting for room in its channel).  `Find` and `Create` are the two halves
of `get_or_create`, which another request can separate.  What is sent is kept as byte
ranges, so order, gaps and repetition are visible.

A chunk may come short.  When an upstream that ignores Range answers 200 with a file that
is shorter than the row says, `fetch_chunk` takes what is there of the chunk
(`session.rs:302-306`), nothing notices, and `forward_chunk` computes the chunk's end from
`data.len()`.  So `Arrive` picks one of the lengths (`Pieces`), `data` keeps it, and
`Slice` and `Overlaps` use it; the history `cut` records which chunks came short to which
actor.  A download may also never end (`Hang`): such a 200 answer may stop before the
chunk begins, and then the slice panics and leaves the chunk's entry in the table of
`SessionTable`, with a sender in it (`session.rs:141`, `168-171`), so that `rx.recv()` of
whoever asks for the chunk waits for ever (`session.rs:600`); or a body stalls.  `stuck`
are these chunks, and it is shared by the actors as the table is.  `joined` records the
clients an actor has taken on.  Urgencies are compared by cross multiplication, which is
exact where the code's `f64` rounds; at the sizes in question the order is the same.

**ChunkSession.**  What `FileSession` sees as a chunk that arrives or fails.  An asker
is a caller of `subscribe` for one chunk with the cached_chunks of its actor; the task
it spawns bears its name.  The steps of both lie between the awaits; `map.entry()` up to
the `subscribe` of the receiver is one step, under the guard of the entry.  A body is
the interval of upstream's bytes it holds and stands for its own hash, so a piece of
another chunk, a short piece and equal contents of two chunks are visible.  `Ask` and
`Damage` are bounded by `MaxAsks` and `MaxDamage`.  `Packed` are the bodies that are
stored compressed: a short file of one makes `get` fail, which `read_cached_chunk` takes
for a missing blob and leaves where it is, while `exists` accepts it.  `spoiled` records the
hashes whose blob was damaged, deleted by hash after another's finding, or found short by
`exists`.

**CachedStream.**  The streaming task is a program counter with a step per await: take
the next prefetch or read itself, await it, fill the queue, send.  Each chunk's read is a
task of its own (get and verify, purge).  What a chunk's turn sends is computed as the
code does it, from the offset of the position and the data of the chunk in hand, so that
a queue out of step would send the wrong bytes.  `Elsewhere` lets others damage, collect
and store blobs at any time.

**ChunkLifecycle.**  Composes the database's actions with the parts that use them.  A
writer is a download from `exists` to the event it queues; the bytes before that are
`ChunkSession`'s, which also shows that one download of a slot runs at a time.  `Link`
is one turn of the event task.  A worker is a request that collects: it lists a batch,
deletes its blobs one await at a time, deletes the rows, and, when it evicts, goes on
around the loop of `evict_if_needed`.  Whether a first batch was an operator's or an
eviction's is left open until its end, which has the same behaviours and fewer states.
Sizes are counted in files.  `Administer` is what operators (`ControlDelete`,
`ControlReconcile`) and requests for new files do to the tables; `Crash` keeps the tables
and the blobs and nothing else.  `overtaken` records the chunks that a batch had listed
while a download took their blob for stored: the code takes no lock there (see below).

## 3. The runs

| Run | Question | Result |
|---|---|---|
| Reconcile | HEADs alone: singleflight and row are right? | yes |
| StuckKey | is a key always removed? | no: not when the leader fails on `?` or is dropped |
| Proxy | GETs, HEADs and evictions together: hits vouched for, everyone answered? | yes |
| NotModified | is a 304 only given for an unchanged etag? | no: etag_invalid is not looked at |
| MixedRow | rows of one content, with GETs? | no: GET misses are not single-flighted |
| Session | two clients, two actors, failures, hang-ups, full channels, short and stuck chunks: what reaches a client? | alone: in order, all that came, and as `RangeStream` promises if no chunk was short; shared: nothing twice; streams end, unless their own actor waits for a stuck chunk |
| SharedSession | in order with two clients on one actor? | no: a late client misses forwarded chunks |
| ChunkTable | two actors and a prefetch ask for chunks, some compressed, with failures, short answers and damage | one download per chunk; what is linked is stored whole, or its loss is on record; nobody left waiting, panics aside |
| Lifecycle | downloads, events, GC, evictions, deletes and crashes together: are blobs, links, counts and marks kept in step, and does the server implement the catalog? | yes, but for the two gaps below; evictions end |
| Startup | daemons start, stop and run side by side on what migrations and starts left: settings, token, old blobs, counts? | right, but for the exceptions below; counts too high at worst, and the repair ends it |
| CachedStream | does a cached file's stream keep the promise of `RangeStream` while blobs go bad, vanish and come back? | yes; reads are bounded, streams end |
| ShortChunk | is a downloaded chunk the chunk? | no: a 200 answer is cut or taken without looking at its length |

`MetadataStore` and `SchemaMigration` have no runs of their own: *Lifecycle* and *Startup*
check their properties, and fire their actions, with everything that uses them around.

The five runs that expect a violation check one statement each of the repository's
docs or changelog; `PROJECT.json` "findings" quotes them.

Some properties have an exception where the code has a gap, each named by a history
variable or in the property itself:

- `BlobKept` excepts overtaken chunks.  `gc_execute_batch` lists a chunk, a download
  of the same content finds its blob (`session.rs:361`), the batch deletes the blob
  (`service.rs:297`), and the event links the chunk: the row check that comes after
  the blob is gone keeps the row.  The next reader finds no blob and downloads it
  again.  The property is about sound blobs: of these, no batch that failed half-way, no
  crash and no two collectors at once take one from a linked chunk.  `read_cached_chunk`
  deletes blobs too, those it finds bad (`session.rs:207`, `219`); that is *ChunkTable*'s
  subject (`StoredIsWhole`).
- `LastLinkMarked` excepts a chunk that another one replaces in its slot
  (`metadata.rs:473`): its count reaches zero, it gets no mark, and no batch lists it
  before an operator runs the repair.
- `StoredIsWhole` (*ChunkTable*) excepts spoiled hashes: `read_cached_chunk` deletes by
  hash a blob that may have been replaced since (`session.rs:207`), and `exists`
  accepts a short file (`storage/local.rs:54`).  Nothing else leaves a linked chunk
  without its whole blob.
- `AloneStreams` (*Session*) excepts clients whose actor got a chunk short (`Whole`).  Such a
  chunk is forwarded as far as it goes and counted as completed, so the stream has a
  hole, or ends in the middle of its range, and the client is not told; *ShortChunk* shows how
  the chunk comes to be short.  `AloneComplete` holds of these clients as well
  and says what is left of the promise: the pieces join up, and from the first byte of the range to
  the end of the stream nothing is missing but the ends of the short chunks.
- `AloneStreams` takes a stream that ends because its subscription was lost (`Lost`) for
  failed, though its client is not told: the actor stopped before it took the subscription on
  (`session.rs:547`).  `AloneComplete` speaks of the end of subscriptions that were taken on.
- `StreamsEnd` excepts a client whose actor waits for a stuck chunk (`HeldUp`): after the panic
  of the slice in `fetch_chunk`, or while a body stalls, nothing wakes it.  A stuck
  prefetch, or the stuck chunk of another client's actor, holds nobody up until its own actor
  comes to need the chunk.
- `ControlFindsToken` (*Startup*) excepts token files that two starts made at a time
  (`rivals`), and daemons whose token is set in a layer that hugrsctl does not read
  (command line, `.env`, config file).
- `OldBlobsServed` (*Startup*) excepts a root that a start under another backend name
  had made (`strange`): `main.rs` takes every name but "s3" for a local directory,
  `Config::load` renames for "local" only.

Bounds, and why they are enough:

- *Reconcile*: three HEADs of one file (a leader, a waiter, a late one), each made
  again and again; four versions: a, weak a, b, no etag.  Keys are independent.
- *Proxy*: two HEADs and a GET, versions a, b, no etag; version 1 without a
  Content-Type so that the backfill occurs.  The two violation runs have two GETs.
- *Session*: a file of two and a half chunks of two bytes, so that a chunk may come with
  two bytes, one or none; the ranges are all but the first byte, which begins inside a
  chunk and needs all three, and the last half chunk, whose need for the last chunk is as
  urgent as the other's for its first, so that chunks reach a shared client out of order;
  channels of one slot, so that they fill; two clients and two actors, so that a client
  can meet a stopped, a busy, or its own actor.  A stuck chunk may be of the other actor,
  of a prefetch, or one that only one of the clients needs.  `CHECK_DEADLOCK FALSE`
  there: when all clients are done, nothing happens.
- *ChunkTable*: a file of three chunks of two bytes; two actors ask for the second, a
  prefetch of one of them for the last.  Upstream's file has by now 2 bytes (the piece
  of a foreign chunk, the same for both), 3 (a short piece; a panic for the last chunk)
  or all 6.  Two attempts, three calls in all, one damaged blob: a call that finds a
  damaged copy while the other actor downloads, and a third.  The second chunk is
  compressed, the others are not.  `CHECK_DEADLOCK FALSE`: after the last call nothing
  happens.
- *Startup*: two daemons and three starts among five setups: nothing set; a token file and
  a port from the environment; a config file under the command line, with a backend of
  another name; S3 from the second config file and a `.env`; the token itself.  Spread
  over the five, every setting of `huggingface`, `modelscope` and `server` is once the
  only one of its section on the command line and once in the environment, so that a list
  that forgot it would lose it; so is the admin token and its file in the environment, and
  of `storage` nine of thirteen in one or the other (the rest, and settings in any
  company, are the theorem's).  One file with two slots of one hash, so that a headerless
  file that holds a chunk twice drifts in migration 005.  The theorems have any
  database.  Daemons and tokens are symmetric; there is no liveness.  `CHECK_DEADLOCK
  FALSE`: the starts are counted.
- *CachedStream*: a file of four and a half chunks, the first and third of equal content;
  ranges that are the file, begin and end inside chunks, are one byte, are cut to the
  file, or are refused; two reads ahead, a channel of two slots.  `CHECK_DEADLOCK FALSE`:
  one request.
- *Lifecycle*: two files in two repositories, of which one fits; two hashes, so that a
  slot is replaced and a chunk shared; two queued events, so that they could be served
  in the wrong order; one download, one collector with batches of one chunk.  (Two
  collectors were run on smaller data; the theorems have any number.)

Fairness: weak, per request and per actor.  Probes and validations have timeouts
(`hf.rs`, `main.rs`, `etag_validation_timeout`), database calls are local, tokio polls
every woken task.  A chunk download is assumed to end, with data or an error after a
bounded number of attempts, only if it is not stuck: the stream client has a connect
timeout and no other (`hf.rs:33`), so that a download may stall for ever is part of the
model (`Hang`), and nothing unsticks it.  Clients are assumed to read what has come, or
to hang up.  Lock acquisition is strongly fair: tokio's mutex serves its waiters in
order.  The tasks of a cached stream await blob storage, which answers, and the client's
channel.  Collectors await the file system only.  `EvictionEnds` does not hold of a
server that links and repairs for ever while it evicts, and says so.  Nothing is assumed
of new requests, cancellations, upstream's changes, or evictions.

## 4. The proofs

`MetadataStore_proofs`: `InductiveInvariant` proves `Inv`, the conjunction of `TypeOK`,
`RefCountExact`, `LinksResolve` and `OrphanUnreferenced`.  They need each other: that a
chunk about to be deleted has no link follows from the exact count, that a mark is off
chunks in use needs both, and that a new link finds its chunk needs
`LinksResolve`.  The counting lemmas say how the set of links to a hash changes when
one slot is rewritten and when the slots of some files are emptied; `TypeCorrect`,
`RefCountsAreExact`, `LinksAlwaysResolve` and `OrphansAreUnreferenced` are its
conjuncts, and `DatabaseImplementsCatalog` maps each action to `Record`, `Forget`,
`Collect` or a stutter.  `ServerImplementsCatalog` and `TablesAgree`, in
`ChunkLifecycle_proofs`, carry them over to everything that uses the database.

`Startup_proofs`, of `SchemaMigration` and `Startup`: with the exact count weakened to
"never too low" until the repair has run, the same argument goes through from every
`LegacyInit`: `MigratedCountsNeverLow`, `MigratedOrphansUnreferenced`, `RepairLasts`.
`StartsAreLegacy` shows that daemons, however many start, stop and serve at a time, only
take `SchemaMigration`'s steps (a refinement by the identity), so that its theorems hold
of them.  `StartInvariant` proves `StartInv`: types; whoever is past the migrations finds
the last schema; whoever is past the rename finds no old blobs unless `strange`; and a
token file without rivals is being made by one daemon at most, and holds what the daemons
that took their token from it have.  `SettingsAreLayered` needs no invariant: for any
layers, `CliPatch` and `EnvPatch` lose no setting (`CliPatchAt`, `EnvPatchAt`), because
each setting is in all four lists of one section (`ListsAgree`, which goes through the
lists of `config.rs` as they are written).

`CachedStream_proofs`: `CachedInvariant` proves `CachedInv`: the queue holds the chunks
that come next (`QueueInOrder`), what was sent ends where the position's chunk begins
(`Progress`), and reads under way lie in a window of `prefetch_depth` chunks that moves
with the position, those a failed stream leaves behind included (`ReadsInWindow`).
From it `CachedStreamIsRangeStream` maps `Request` to `Open`, `Send` to `Deliver` or
`Close`, `SendError` to `Close`, and the rest to stutters.

`MetadataReconcile_proofs`: `ReconcileInvariant` proves `ReconcileInv`: types; `Flights`
(whoever leads is registered, alone, and has all who wait on its list, and nobody
else); `Versions` (a row's headers are no newer than upstream, nor than what whoever
reconciles it has probed, nor older than what those who were told "ready" had fetched);
`Contents` (the row that `should_delete` keeps has the size of the content that was
probed, until its headers are set).  Only the order of the flights makes the versions
comparable; with GETs, which do not join them, it fails, as *MixedRow* shows.

`FileProxy_proofs`: `ProxyInvariant` proves `ProxyInv`: types, the same flights (GETs do not
touch the table), and for each GET `Judged`: what the verdict says of the copy the
request holds, from the load to the answer.

`FileSession_proofs`: `SessionInvariant` proves `SessionInv`.  `Held`: what an actor
forwards is a piece of its current chunk, all of it unless `cut` has it.  `Places`: a
client is in one place of one actor at most, once, and has been sent nothing before it is
a subscriber.  `Sound`: what a client was sent are pieces of chunks that its actor has
done with (`Given`), and the chunk being forwarded is not one of them; as different chunks
hold different bytes (`ChunksApart`), `NoByteTwice` follows, in whatever order chunks
come.  `AlonesServed`: an actor serves only those it has taken on (`Begun`), and if it
has taken on a single client (`ServedAlone`), it has done the chunks from that client's
first up to some k, comes to k next (`Steady`), and has sent everything before k that
came.  "Everything that came" is `Gap(S, x, y)`: the bytes from x up to y belong to
chunks of S.  Gaps join (`GapsJoin`) and grow with S (`GapGrows`), so the invariant
survives chunks that come short later.  `NextInLine` shows that the most urgent chunk is
then k: distances grow with the chunk, and between equals the first is taken.
`PieceJoins` is the arithmetic of `forward_chunk`: what is sent of k, however much of it
came, begins where the chunk's part of the range begins, and what is left up to the next
chunk is a gap, of `cut` if k was short and empty if not; a piece that came so short that
it does not reach the range is not sent, and then its whole part is a gap.  `RetainKeeps`
and `SubscribersKept` give `clean_subscribers` its meaning, by the least length at which
it would fail.  `AloneGetAll` follows, whatever chunks come short: `AloneInOrder` and
`AloneToEnd`, the two halves of `AloneComplete`.  `AloneAreServed` and
`AloneIsRangeStream` map the stream of a client that shares its actor with nobody, and to
whose actor no chunk came short, to `RangeStream`: `Subscribe` to `Open`, `Forward` to
`Deliver`, `ForwardError`, `Leave` and the end of a lost subscription to `Close`, the rest
to stutters.  That a `Forward` is a `Deliver` needs that nobody who was told of an error
is sent to again (`Told`: its actor is in its last loop or gone), and `Contiguous` after
the step, which with no chunk cut puts the piece where the last one ended; that any other
`EndOfStream` is a stutter needs `AloneToEnd`.  That the client is alone and its chunks
whole are assumptions on the behaviour, `[]Alone(c)` and `[]Whole(c)`: *SharedSession* and
*ShortChunk* show what becomes of the promise without them.

`ChunkSession_proofs`: `ChunkInvariant` proves `ChunkInv`.  What the properties need
beside themselves: a task that has not ended is the one its chunk's entry names
(`TaskHasEntry`, from which `OneDownload` and `WaitsForEntry` follow: a second task needs
a vacant entry, and the removal takes away the remover's own); a task that stores holds
the lock on the hash it stores (`StoresLocked`, for `PutIsFresh`: another writer of that
hash would hold it too, and purge and damage never bring an absent blob back); what is
linked, or about to be, has a whole blob or is spoiled (`StoresSound`, with `HashIsSeen`,
for `StoredIsWhole`); and for a caller alone in its actor, cached_chunks has nothing for
its chunk from `Enter` to `Check` (`NothingExpected`, for `RefetchRecovers`).
`WholeIsBody` and `FullBody` show that what is asked for, and what a 200 answer is cut to,
is an interval of the file for every chunk and file size.

`ChunkLifecycle_proofs`: `LifeInvariant` proves `LifeInv`, the database's `IInv` and two
facts that `BlobKept` needs: a chunk that is only on its way must have its blob too
(`WantedKept`), and of the chunks a collector is about to take, those that are wanted
again have been overtaken (`DoomedOvertaken`).  `Careful` is what each step respects: a
chunk comes to be wanted with its blob there, only listed blobs are deleted, only
unlinked chunks are listed (by `OrphanUnreferenced`), links are made of chunks on their
way, and a blob is put by a download that goes on to record it.  `CarefulKeeps` shows
once that this preserves the two facts; one lemma per action shows that the action is
careful.  `LastLinksAreMarked` counts: the links that a delete takes are all there
were, so by `RefCountExact` the count is zero afterwards.  `LinksKeepNewest` looks at the
last event of a slot: it stays the last when the first of the queue is taken away, and if
it is the first, the link writes its chunk (`LastExists`, that there is a last one, is
drawn from the well-foundedness of the naturals).

Assumed: the named assumptions on constants and nothing else (bounds are naturals, the
null values are not values, ranges are ranges; `StartAssumption`: all starts use one data
directory, and token files are named from one place).  No finiteness of Name, Sha,
Writer, Worker, Asker, Request or Daemon.

Only model-checked: liveness (`WaiterReleased`, `EveryRequestAnswered`, `StreamsEnd`,
`StreamEnds`, `CallerReleased`, `EvictionEnds`), which the prover does not reach.

## 5. Not modelled

- HTTP headers, Range syntax, Git LFS, routing, the control API, hugrsctl's commands and
  output: no state that outlives a request.  (The repair and deletes they ask for are
  `ReconcileChunkRefs`, `DeleteFile` and collectors.)
- The parsing of values in settings, platform directories.  `StartAssumption` keeps
  `db_path` and `local_root` the same for all starts, if there is more than one.
- Bytes and hashes: a chunk is an index, an interval or a hash; SHA-256 is injective.
- Verification in `CachedStream` is on, as by default; with `verify_sha256` off a bad blob is
  sent as it is, and `FileSession` leaves out cached blobs of another length than the chunk, which
  that setting lets through.
- Panics (but that of the slice in `fetch_chunk`), a poisoned mutex, and disk-full errors
  of SQLite other than a failing statement (`DatabaseError`).
- S3: single calls that succeed or fail; the client's own retries and multipart are
  the library's.
- `delete_chunk`, `mark_chunk_orphaned`, `clear_chunk_orphaned`, `link_file_chunk`,
  `ensure_chunk`: called by tests only.  (So is `stream_cached_file`, by tests and benches;
  it is modelled because it is the reference for what a complete file's stream does.)
- `backfill_missing_headers` probes each file of incomplete headers and counts it as
  fixed, but stores nothing (CHANGELOG.md:79 lists it as a backfill "in cached
  metadata"): there is no state to model.
- Migrations 001 to 004 and 007, which create, rename or index tables.

## 6. What could follow

- Revisions other than the default in reconcile and proxy: rows of several revisions of
  one file share nothing but chunks, so the keys are independent as they are.
- hugrsctl's GC loop (`hugrsctl_cli.rs`), which calls batches until one frees nothing.
