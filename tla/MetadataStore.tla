--------------------------- MODULE MetadataStore ---------------------------
(***************************************************************************)
(* The metadata database (src/metadata.rs): tables files, chunks and       *)
(* file_chunks behind one Mutex<Connection>, so that every method is one   *)
(* step.  A chunk is stored once and shared by every file that contains    *)
(* it; ref_count counts the file_chunks rows that name it, and orphaned_at *)
(* marks the chunks that garbage collection may take.                      *)
(*                                                                         *)
(* Columns no property here tells apart (sizes, headers, timestamps) are   *)
(* left out; orphaned_at is kept as "IS NOT NULL".                         *)
(***************************************************************************)
EXTENDS Integers, FiniteSets

CONSTANTS
  Name,        \* (name, source) pairs, the UNIQUE key of files
  Repo,        \* repositories
  RepoOf,      \* the repo column add_file is given for each name
  Sha,         \* content hashes
  MaxFileId,   \* bound on the file ids handed out
  MaxIndex,    \* largest chunk index of a file
  NoName,      \* no file row
  NoSha        \* no file_chunks row

ASSUME MetadataAssumption ==
  /\ MaxFileId \in Nat
  /\ MaxIndex \in Nat
  /\ RepoOf \in [Name -> Repo]
  /\ NoName \notin Name
  /\ NoSha \notin Sha

FileId == 1 .. MaxFileId
ChunkIndex == 0 .. MaxIndex
Slot == FileId \X ChunkIndex     \* the PRIMARY KEY of file_chunks

VARIABLES
  files,        \* the name of each file row, NoName where there is none
  nextId,       \* the AUTOINCREMENT sequence: ids are never handed out twice
  fileChunks,   \* the sha256 of each file_chunks row, NoSha where there is none
  chunks,       \* the sha256 of every chunks row
  refCount,     \* chunks.ref_count
  orphanedAt    \* chunks.orphaned_at IS NOT NULL

metaVars == <<files, nextId, fileChunks, chunks, refCount, orphanedAt>>

Live == {f \in FileId : files[f] # NoName}
Refs(s) == {k \in Slot : fileChunks[k] = s}
FilesOf(n) == {f \in FileId : files[f] = n}

MetaInit ==
  /\ files = [f \in FileId |-> NoName]
  /\ nextId = 1
  /\ fileChunks = [k \in Slot |-> NoSha]
  /\ chunks = {}
  /\ refCount = [s \in Sha |-> 0]
  /\ orphanedAt = [s \in Sha |-> FALSE]

-----------------------------------------------------------------------------
(* File rows *)

\* The row takes an id that may come back: a plain rowid, not AUTOINCREMENT.
AddFileReusingId(n) ==
  /\ nextId \in FileId
  /\ FilesOf(n) = {}
  /\ files' = [files EXCEPT ![nextId] = n]
  /\ UNCHANGED <<nextId, fileChunks, chunks, refCount, orphanedAt>>

\* add_file: UNIQUE(name, source) refuses a second row of a name.
AddFile(n) ==
  /\ nextId \in FileId
  /\ FilesOf(n) = {}
  /\ files' = [files EXCEPT ![nextId] = n]
  /\ nextId' = nextId + 1
  /\ UNCHANGED <<fileChunks, chunks, refCount, orphanedAt>>

\* The references to s that go with the rows of the files in F.
RefsLost(F, s) == Cardinality({k \in Refs(s) : k[1] \in F})

\* Mutant: the cascade of the foreign key is left to clean up.
CascadeOnly(F) ==
  /\ files' = [f \in FileId |-> IF f \in F THEN NoName ELSE files[f]]
  /\ fileChunks' = [k \in Slot |-> IF k[1] \in F THEN NoSha ELSE fileChunks[k]]
  /\ UNCHANGED <<nextId, chunks, refCount, orphanedAt>>

\* delete_file_by_id_tx for every file of F in one transaction.  The decrements
\* of a chunk that several of the files share add up, and the one that reaches
\* zero marks the chunk.
DeleteFilesById(F) ==
  /\ files' = [f \in FileId |-> IF f \in F THEN NoName ELSE files[f]]
  /\ fileChunks' = [k \in Slot |-> IF k[1] \in F THEN NoSha ELSE fileChunks[k]]
  /\ refCount' = [s \in Sha |-> refCount[s] - RefsLost(F, s)]
  /\ orphanedAt' = [s \in Sha |-> \/ orphanedAt[s]
                                  \/ RefsLost(F, s) > 0 /\ refCount'[s] = 0]
  /\ UNCHANGED <<nextId, chunks>>

\* delete_file
DeleteFile(n) ==
  /\ FilesOf(n) # {}
  /\ DeleteFilesById(FilesOf(n))

FilesOfRepo(r) == {f \in Live : RepoOf[files[f]] = r}

\* delete_files_by_repo: one transaction over the whole repository.
DeleteFilesByRepo(r) ==
  /\ FilesOfRepo(r) # {}
  /\ DeleteFilesById(FilesOfRepo(r))

-----------------------------------------------------------------------------
(* Chunk rows and links *)

\* Mutant: the replaced chunk keeps the reference it lost.
RefCountOfNewOnly(old, s, t) ==
  IF t = s THEN refCount[t] + 1 ELSE refCount[t]

\* The count of t once the row of a slot that held `old` holds s.
RefCountAfterLink(old, s, t) ==
  CASE t = s   -> refCount[t] + 1
    [] t = old -> IF refCount[t] > 0 THEN refCount[t] - 1 ELSE 0
    [] OTHER   -> refCount[t]

\* Mutant: "orphaned_at = NULL" missing from the last UPDATE.
OrphanedAfterInsert(s, t) == orphanedAt[t] \/ (t = s /\ s \notin chunks)

\* The marks once s is linked.
OrphanedAfterLink(s, t) == orphanedAt[t] /\ t # s

\* Mutant: foreign_keys left OFF after the migrations.
ForeignKeyIgnored(f) == f \in FileId

\* The foreign key file_chunks.file_id.
ForeignKeyHolds(f) == f \in Live

\* ensure_chunk_and_link: once the file is gone the insert fails and the whole
\* transaction rolls back; a slot that holds s already is left alone.  The chunk
\* a slot held before loses its reference but gets no orphan mark.
EnsureChunkAndLink(f, i, s) ==
  LET old == fileChunks[<<f, i>>] IN
  /\ ForeignKeyHolds(f)
  /\ old # s
  /\ fileChunks' = [fileChunks EXCEPT ![<<f, i>>] = s]
  /\ chunks' = chunks \cup {s}
  /\ refCount' = [t \in Sha |-> RefCountAfterLink(old, s, t)]
  /\ orphanedAt' = [t \in Sha |-> OrphanedAfterLink(s, t)]
  /\ UNCHANGED <<files, nextId>>

\* list_orphan_chunks_batch and list_orphan_chunks_stats: what GC looks at.
OrphanChunks == {s \in chunks : refCount[s] = 0 /\ orphanedAt[s]}

\* Mutant: the rows go on the strength of the listing alone.
DeleteListedChunks(S) ==
  /\ chunks' = chunks \ S
  /\ orphanedAt' = [s \in Sha |-> orphanedAt[s] /\ s \notin S]
  /\ UNCHANGED <<files, nextId, fileChunks, refCount>>

\* The re-check of delete_chunks_batch.
Deletable(S) == {s \in S \cap chunks : refCount[s] = 0}

\* delete_chunks_batch(S): S was listed in an earlier step.  The foreign key of
\* file_chunks fails the whole DELETE when a row of it is still linked.
DeleteChunksBatch(S) ==
  /\ \A s \in Deletable(S) : Refs(s) = {}
  /\ chunks' = chunks \ Deletable(S)
  /\ orphanedAt' = [s \in Sha |-> orphanedAt[s] /\ s \notin Deletable(S)]
  /\ UNCHANGED <<files, nextId, fileChunks, refCount>>

\* Mutant: COUNT(DISTINCT file_id), blind to a chunk repeated in a file.
ReferringFiles(s) == Cardinality({k[1] : k \in Refs(s)})

\* The COUNT(*) of reconcile_chunk_refs.
ActualRefs(s) == Cardinality(Refs(s))

\* reconcile_chunk_refs(dry_run = false): file_chunks is the source of truth.
\* A dry run rolls back, and so does nothing.
ReconcileChunkRefs ==
  /\ refCount' = [s \in Sha |->
                    IF s \in chunks THEN ActualRefs(s) ELSE refCount[s]]
  /\ orphanedAt' = [s \in Sha |->
                      IF s \in chunks THEN Refs(s) = {} ELSE orphanedAt[s]]
  /\ UNCHANGED <<files, nextId, fileChunks, chunks>>

\* Every operation but the repair.
MetaOp ==
  \/ \E n \in Name : AddFile(n)
  \/ \E n \in Name : DeleteFile(n)
  \/ \E r \in Repo : DeleteFilesByRepo(r)
  \/ \E f \in FileId, i \in ChunkIndex, s \in Sha : EnsureChunkAndLink(f, i, s)
  \/ \E S \in SUBSET Sha : DeleteChunksBatch(S)

MetaNext == MetaOp \/ ReconcileChunkRefs

MetaSpec == MetaInit /\ [][MetaNext]_metaVars

-----------------------------------------------------------------------------
(* Properties *)

TypeOK ==
  /\ files \in [FileId -> Name \cup {NoName}]
  /\ nextId \in 1 .. MaxFileId + 1
  /\ \A f \in FileId : f >= nextId => files[f] = NoName
  /\ fileChunks \in [Slot -> Sha \cup {NoSha}]
  /\ chunks \subseteq Sha
  /\ refCount \in [Sha -> Int]
  /\ \A s \in Sha \ chunks : refCount[s] = 0
  /\ orphanedAt \in [Sha -> BOOLEAN]

\* No operation, in any order, makes a chunk's stored reference count differ
\* from the number of file_chunks rows that name it: a count too low lets GC
\* take a chunk in use, one too high keeps it forever (metadata.rs keeps the
\* count by hand in delete_file_by_id_tx and ensure_chunk_and_link).
RefCountExact ==
  \A s \in Sha : refCount[s] = Cardinality(Refs(s))

\* No count is ever too low, not even in a database that an old version left with
\* counts that are too high: the deletes subtract what they remove, never more.
RefCountNeverLow ==
  \A s \in Sha : refCount[s] >= Cardinality(Refs(s))

\* Every file_chunks row names a file and a chunk that exist: the foreign keys
\* of the schema, which the order of the statements in each transaction has to
\* respect.
LinksResolve ==
  \A k \in Slot : fileChunks[k] # NoSha => k[1] \in Live /\ fileChunks[k] \in chunks

\* A chunk that GC may list is held by no file: a link made after the mark
\* takes the mark away (ensure_chunk_and_link's orphaned_at = NULL).
OrphanUnreferenced ==
  \A s \in Sha : orphanedAt[s] => s \in chunks /\ Refs(s) = {}

\* The database implements the catalog: counts and marks are enough to tell
\* which chunks no slot holds.
Catalog == INSTANCE ChunkCatalog WITH
  links <- {l \in Slot \X Sha : fileChunks[l[1]] = l[2]},
  known <- chunks

ImplementsCatalog == Catalog!CatalogSpec
=============================================================================
