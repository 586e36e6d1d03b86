----------------------- MODULE MetadataStore_proofs -----------------------
(***************************************************************************)
(* Proofs about MetadataStore, for any number of names, hashes, file ids   *)
(* and chunk indexes: the types, the exactness of the reference counts,    *)
(* the safety of the orphan marks, and that the database implements        *)
(* ChunkCatalog.                                                           *)
(***************************************************************************)
EXTENDS MetadataStore, FiniteSetTheorems, TLAPS

\* What every operation keeps even in a database whose counts drifted high before
\* the server opened it.  The safety of the marks needs counts that are never too
\* low, and the mark of a delete needs the foreign keys.
DriftInv ==
  /\ TypeOK
  /\ LinksResolve
  /\ RefCountNeverLow
  /\ OrphanUnreferenced

\* The inductive invariant of a database this version created.
IInv == DriftInv /\ RefCountExact

-----------------------------------------------------------------------------
(* Counting file_chunks rows *)

\* The rows that can name a chunk are finitely many.
LEMMA SlotFinite == IsFiniteSet(Slot)
<1>1. IsFiniteSet(FileId)
  BY MetadataAssumption, FS_Interval DEF FileId
<1>2. IsFiniteSet(ChunkIndex)
  BY MetadataAssumption, FS_Interval DEF ChunkIndex
<1>3. QED
  BY <1>1, <1>2, FS_Product DEF Slot

\* So are the rows of one chunk, and their number is a natural number.
LEMMA RefsFinite ==
  ASSUME NEW s
  PROVE  IsFiniteSet(Refs(s)) /\ Cardinality(Refs(s)) \in Nat
<1>1. Refs(s) \in SUBSET Slot
  BY DEF Refs
<1>2. IsFiniteSet(Refs(s))
  BY <1>1, SlotFinite, FS_Subset
<1>3. QED
  BY <1>2, FS_CardinalityType

\* What the deletion of the files in F takes from the count of a chunk.
LEMMA RefsLostType ==
  ASSUME NEW F, NEW s
  PROVE  /\ RefsLost(F, s) \in Nat
         /\ RefsLost(F, s) <= Cardinality(Refs(s))
<1>1. {k \in Refs(s) : k[1] \in F} \in SUBSET Refs(s)
  OBVIOUS
<1>2. IsFiniteSet({k \in Refs(s) : k[1] \in F})
  BY <1>1, RefsFinite, FS_Subset
<1>3. QED
  BY <1>1, <1>2, RefsFinite, FS_Subset, FS_CardinalityType DEF RefsLost

\* Deleting the rows of the files in F takes RefsLost(F, s) rows from s.
LEMMA RefsAfterDelete ==
  ASSUME TypeOK, NEW F, NEW s \in Sha,
         fileChunks' = [k \in Slot |-> IF k[1] \in F THEN NoSha ELSE fileChunks[k]]
  PROVE  /\ Refs(s)' \subseteq Refs(s)
         /\ Cardinality(Refs(s)') = Cardinality(Refs(s)) - RefsLost(F, s)
<1> DEFINE L == {k \in Refs(s) : k[1] \in F}
<1>1. Refs(s)' = Refs(s) \ L
  BY MetadataAssumption DEF Refs, TypeOK
<1>2. Refs(s) \cap L = L
  OBVIOUS
<1>3. Cardinality(Refs(s) \ L) = Cardinality(Refs(s)) - Cardinality(L)
  BY <1>2, RefsFinite, FS_Difference
<1>4. QED
  BY <1>1, <1>3 DEF RefsLost

\* Giving a slot to s adds a row to s and takes one from the chunk it held.
LEMMA RefsAfterLink ==
  ASSUME TypeOK, NEW k \in Slot, NEW s \in Sha, NEW t \in Sha,
         fileChunks[k] # s,
         fileChunks' = [fileChunks EXCEPT ![k] = s]
  PROVE  Cardinality(Refs(t)') = IF t = s THEN Cardinality(Refs(t)) + 1
                                 ELSE IF t = fileChunks[k]
                                      THEN Cardinality(Refs(t)) - 1
                                      ELSE Cardinality(Refs(t))
<1>1. CASE t = s
  <2>1. Refs(t)' = Refs(t) \cup {k} /\ k \notin Refs(t)
    BY <1>1 DEF Refs, TypeOK
  <2>2. QED
    BY <1>1, <2>1, RefsFinite, FS_AddElement
<1>2. CASE t # s /\ t = fileChunks[k]
  <2>1. Refs(t)' = Refs(t) \ {k} /\ k \in Refs(t)
    BY <1>2 DEF Refs, TypeOK
  <2>2. QED
    BY <1>2, <2>1, RefsFinite, FS_RemoveElement
<1>3. CASE t # s /\ t # fileChunks[k]
  <2>1. Refs(t)' = Refs(t)
    BY <1>3 DEF Refs, TypeOK
  <2>2. QED
    BY <1>3, <2>1
<1>4. QED
  BY <1>1, <1>2, <1>3

-----------------------------------------------------------------------------
(* The inductive invariant *)

LEMMA InitIInv == MetaInit => IInv
<1> SUFFICES ASSUME MetaInit PROVE IInv
  OBVIOUS
<1> USE MetadataAssumption
<1>1. TypeOK
  BY DEF MetaInit, TypeOK, FileId
<1>2. LinksResolve
  BY DEF MetaInit, LinksResolve
<1>3. \A s \in Sha : Refs(s) = {}
  BY DEF MetaInit, Refs
<1>4. RefCountExact /\ RefCountNeverLow
  BY <1>3, FS_EmptySet DEF MetaInit, RefCountExact, RefCountNeverLow
<1>5. OrphanUnreferenced
  BY DEF MetaInit, OrphanUnreferenced
<1>6. QED
  BY <1>1, <1>2, <1>4, <1>5 DEF IInv, DriftInv

\* add_file
LEMMA AddFileInv ==
  ASSUME DriftInv, NEW n \in Name, AddFile(n)
  PROVE  DriftInv' /\ (RefCountExact => RefCountExact')
<1> USE MetadataAssumption DEF DriftInv, AddFile
<1>1. TypeOK'
  BY DEF TypeOK, FileId
<1>2. Live \subseteq Live'
  BY DEF TypeOK, Live, FileId
<1>3. LinksResolve'
  BY <1>2 DEF LinksResolve
<1>4. \A s \in Sha : Refs(s)' = Refs(s)
  BY DEF Refs
<1>5. RefCountNeverLow' /\ (RefCountExact => RefCountExact')
  BY <1>4 DEF RefCountNeverLow, RefCountExact
<1>6. OrphanUnreferenced'
  BY <1>4 DEF OrphanUnreferenced
<1>7. QED
  BY <1>1, <1>3, <1>5, <1>6

\* delete_file and delete_files_by_repo
LEMMA DeleteFilesInv ==
  ASSUME DriftInv, NEW F \in SUBSET FileId, DeleteFilesById(F)
  PROVE  DriftInv' /\ (RefCountExact => RefCountExact')
<1> USE MetadataAssumption
<1>1. TypeOK /\ LinksResolve /\ RefCountNeverLow /\ OrphanUnreferenced
  BY DEF DriftInv
<1>2. \A s \in Sha : /\ Refs(s)' \subseteq Refs(s)
                     /\ Cardinality(Refs(s)') = Cardinality(Refs(s)) - RefsLost(F, s)
  BY <1>1, RefsAfterDelete DEF DeleteFilesById
<1>3. TypeOK'
  <2>1. refCount' \in [Sha -> Int]
    BY <1>1, RefsLostType DEF TypeOK, DeleteFilesById
  <2>2. \A s \in Sha \ chunks : refCount'[s] = 0
    <3> SUFFICES ASSUME NEW s \in Sha \ chunks PROVE refCount'[s] = 0
      OBVIOUS
    <3>1. Refs(s) = {}
      BY <1>1 DEF LinksResolve, Refs, TypeOK
    <3>2. RefsLost(F, s) = 0
      BY <3>1, RefsLostType, RefsFinite, FS_EmptySet
    <3>3. QED
      BY <1>1, <3>2 DEF DeleteFilesById, TypeOK
  <2>3. QED
    BY <1>1, <2>1, <2>2 DEF TypeOK, DeleteFilesById
<1>4. LinksResolve'
  <2> SUFFICES ASSUME NEW k \in Slot, fileChunks'[k] # NoSha
               PROVE  k[1] \in Live' /\ fileChunks'[k] \in chunks'
    BY DEF LinksResolve
  <2>1. k[1] \notin F /\ fileChunks'[k] = fileChunks[k]
    BY DEF DeleteFilesById
  <2>2. k[1] \in Live /\ fileChunks[k] \in chunks
    BY <1>1, <2>1 DEF LinksResolve
  <2>3. QED
    BY <2>1, <2>2 DEF DeleteFilesById, Live
<1>5. RefCountNeverLow' /\ (RefCountExact => RefCountExact')
  <2>1. \A s \in Sha : /\ refCount'[s] = refCount[s] - RefsLost(F, s)
                       /\ RefsLost(F, s) \in Nat
                       /\ Cardinality(Refs(s)) \in Nat
                       /\ refCount[s] \in Int
    BY <1>1, RefsLostType, RefsFinite DEF DeleteFilesById, TypeOK
  <2>2. QED
    BY <1>1, <1>2, <2>1 DEF RefCountNeverLow, RefCountExact
<1>6. OrphanUnreferenced'
  <2> SUFFICES ASSUME NEW s \in Sha, orphanedAt'[s]
               PROVE  s \in chunks' /\ Refs(s)' = {}
    BY DEF OrphanUnreferenced
  <2>1. CASE orphanedAt[s]
    BY <1>1, <1>2, <2>1 DEF OrphanUnreferenced, DeleteFilesById
  <2>2. CASE RefsLost(F, s) > 0 /\ refCount'[s] = 0
    <3>1. PICK k \in Slot : fileChunks[k] = s
      <4>1. RefsLost(F, s) <= Cardinality(Refs(s)) /\ Cardinality(Refs(s)) \in Nat
        BY RefsLostType, RefsFinite
      <4>2. Refs(s) # {}
        BY <2>2, <4>1, RefsLostType, FS_EmptySet
      <4>3. QED
        BY <4>2 DEF Refs
    <3>2. s \in chunks
      BY <1>1, <3>1 DEF LinksResolve
    <3>3. IsFiniteSet(Refs(s)')
      BY <1>2, RefsFinite, FS_Subset
    <3>4. Cardinality(Refs(s)') = 0
      BY <1>5, <2>2, <3>3, FS_CardinalityType DEF RefCountNeverLow
    <3>5. QED
      BY <3>2, <3>3, <3>4, FS_EmptySet DEF DeleteFilesById
  <2>3. QED
    BY <2>1, <2>2 DEF DeleteFilesById
<1>7. QED
  BY <1>3, <1>4, <1>5, <1>6 DEF DriftInv

\* ensure_chunk_and_link
LEMMA LinkInv ==
  ASSUME DriftInv, NEW f \in FileId, NEW i \in ChunkIndex, NEW s \in Sha,
         EnsureChunkAndLink(f, i, s)
  PROVE  DriftInv' /\ (RefCountExact => RefCountExact')
<1> USE MetadataAssumption
<1> DEFINE k == <<f, i>>
           old == fileChunks[k]
<1>1. TypeOK /\ LinksResolve /\ RefCountNeverLow /\ OrphanUnreferenced
  BY DEF DriftInv
<1>2. k \in Slot /\ old # s /\ f \in Live
  BY DEF EnsureChunkAndLink, ForeignKeyHolds, Slot
<1>3. \A t \in Sha : Cardinality(Refs(t)') = IF t = s THEN Cardinality(Refs(t)) + 1
                                             ELSE IF t = old
                                                  THEN Cardinality(Refs(t)) - 1
                                                  ELSE Cardinality(Refs(t))
  <2>1. fileChunks' = [fileChunks EXCEPT ![k] = s]
    BY DEF EnsureChunkAndLink
  <2> HIDE DEF k
  <2>2. QED
    BY <1>1, <1>2, <2>1, RefsAfterLink
<1>4. \A t \in Sha : refCount'[t] = IF t = s THEN refCount[t] + 1
                                    ELSE IF t = old
                                         THEN IF refCount[t] > 0 THEN refCount[t] - 1
                                              ELSE 0
                                         ELSE refCount[t]
  BY <1>2 DEF EnsureChunkAndLink, RefCountAfterLink
<1>5. TypeOK'
  <2>1. refCount' \in [Sha -> Int]
    BY <1>1, <1>4 DEF EnsureChunkAndLink, TypeOK
  <2>2. fileChunks' \in [Slot -> Sha \cup {NoSha}]
    BY <1>1 DEF EnsureChunkAndLink, TypeOK
  <2>3. orphanedAt' \in [Sha -> BOOLEAN]
    BY DEF EnsureChunkAndLink, OrphanedAfterLink
  <2>4. \A t \in Sha \ chunks' : refCount'[t] = 0
    <3>1. \A t \in Sha \ chunks' : t \notin chunks /\ t # s
      BY DEF EnsureChunkAndLink
    <3>2. old = NoSha \/ old \in chunks
      BY <1>1, <1>2 DEF LinksResolve
    <3>3. QED
      BY <1>1, <1>4, <3>1, <3>2 DEF TypeOK
  <2>5. QED
    BY <1>1, <2>1, <2>2, <2>3, <2>4 DEF EnsureChunkAndLink, TypeOK
<1>6. LinksResolve'
  BY <1>1, <1>2 DEF LinksResolve, EnsureChunkAndLink, Live, TypeOK
<1>7. RefCountNeverLow' /\ (RefCountExact => RefCountExact')
  <2> SUFFICES ASSUME NEW t \in Sha
               PROVE  /\ refCount'[t] >= Cardinality(Refs(t)')
                      /\ refCount[t] = Cardinality(Refs(t))
                           => refCount'[t] = Cardinality(Refs(t)')
    BY DEF RefCountNeverLow, RefCountExact
  <2>1. refCount[t] >= Cardinality(Refs(t)) /\ Cardinality(Refs(t)) \in Nat
    BY <1>1, RefsFinite DEF RefCountNeverLow
  <2>2. t = old => Cardinality(Refs(t)) # 0
    <3>1. t = old => k \in Refs(t)
      BY <1>2 DEF Refs
    <3>2. QED
      BY <3>1, RefsFinite, FS_EmptySet
  <2>3. refCount[t] \in Int
    BY <1>1 DEF TypeOK
  <2>4. QED
    BY <1>3, <1>4, <2>1, <2>2, <2>3
<1>8. OrphanUnreferenced'
  <2> SUFFICES ASSUME NEW t \in Sha, orphanedAt'[t]
               PROVE  t \in chunks' /\ Refs(t)' = {}
    BY DEF OrphanUnreferenced
  <2>1. orphanedAt[t] /\ t # s
    BY DEF EnsureChunkAndLink, OrphanedAfterLink
  <2>2. t \in chunks /\ Refs(t) = {}
    BY <1>1, <2>1 DEF OrphanUnreferenced
  <2>3. Refs(t)' = {}
    BY <1>1, <2>1, <2>2 DEF Refs, EnsureChunkAndLink, TypeOK
  <2>4. QED
    BY <2>2, <2>3 DEF EnsureChunkAndLink
<1>9. QED
  BY <1>5, <1>6, <1>7, <1>8 DEF DriftInv

\* delete_chunks_batch: with counts never too low the foreign key does not refuse it.
LEMMA DeleteBatchInv ==
  ASSUME DriftInv, NEW S \in SUBSET Sha, DeleteChunksBatch(S)
  PROVE  DriftInv' /\ (RefCountExact => RefCountExact')
<1> USE MetadataAssumption
<1>1. TypeOK /\ LinksResolve /\ RefCountNeverLow /\ OrphanUnreferenced
  BY DEF DriftInv
<1>2. \A s \in Sha : Refs(s)' = Refs(s)
  BY DEF Refs, DeleteChunksBatch
<1>3. TypeOK'
  BY <1>1 DEF TypeOK, DeleteChunksBatch, Deletable
<1>4. LinksResolve'
  <2> SUFFICES ASSUME NEW k \in Slot, fileChunks[k] # NoSha
               PROVE  fileChunks[k] \notin Deletable(S)
    BY <1>1 DEF LinksResolve, DeleteChunksBatch, Live
  <2>1. fileChunks[k] \in Sha /\ k \in Refs(fileChunks[k])
    BY <1>1 DEF TypeOK, Refs
  <2>2. QED
    BY <2>1 DEF DeleteChunksBatch
<1>5. RefCountNeverLow' /\ (RefCountExact => RefCountExact')
  BY <1>1, <1>2 DEF RefCountNeverLow, RefCountExact, DeleteChunksBatch
<1>6. OrphanUnreferenced'
  BY <1>1, <1>2 DEF OrphanUnreferenced, DeleteChunksBatch
<1>7. QED
  BY <1>3, <1>4, <1>5, <1>6 DEF DriftInv

\* reconcile_chunk_refs makes the counts exact, whatever the drift.
LEMMA ReconcileInv ==
  ASSUME DriftInv, ReconcileChunkRefs
  PROVE  DriftInv' /\ RefCountExact'
<1> USE MetadataAssumption
<1>1. TypeOK /\ LinksResolve /\ RefCountNeverLow /\ OrphanUnreferenced
  BY DEF DriftInv
<1>2. \A s \in Sha : Refs(s)' = Refs(s)
  BY DEF Refs, ReconcileChunkRefs
<1>3. TypeOK'
  <2>1. refCount' \in [Sha -> Int]
    <3>1. \A s \in Sha : ActualRefs(s) \in Int /\ refCount[s] \in Int
      BY <1>1, RefsFinite DEF ActualRefs, TypeOK
    <3>2. QED
      BY <3>1 DEF ReconcileChunkRefs
  <2>2. orphanedAt' \in [Sha -> BOOLEAN]
    BY <1>1 DEF ReconcileChunkRefs, TypeOK
  <2>3. QED
    BY <1>1, <2>1, <2>2 DEF ReconcileChunkRefs, TypeOK
<1>4. LinksResolve'
  BY <1>1 DEF LinksResolve, ReconcileChunkRefs, Live
<1>5. RefCountExact' /\ RefCountNeverLow'
  <2> SUFFICES ASSUME NEW s \in Sha
               PROVE  refCount'[s] = Cardinality(Refs(s)) /\ refCount'[s] \in Nat
    BY <1>2 DEF RefCountExact, RefCountNeverLow
  <2>1. CASE s \in chunks
    BY <2>1, RefsFinite DEF ReconcileChunkRefs, ActualRefs
  <2>2. CASE s \notin chunks
    <3>1. Refs(s) = {}
      BY <1>1, <2>2 DEF LinksResolve, Refs, TypeOK
    <3>2. refCount'[s] = 0
      BY <1>1, <2>2 DEF ReconcileChunkRefs, TypeOK
    <3>3. QED
      BY <3>1, <3>2, FS_EmptySet
  <2>3. QED
    BY <2>1, <2>2
<1>6. OrphanUnreferenced'
  BY <1>1, <1>2 DEF OrphanUnreferenced, ReconcileChunkRefs
<1>7. QED
  BY <1>3, <1>4, <1>5, <1>6 DEF DriftInv

\* Every operation but the repair keeps both.
LEMMA OpInv == DriftInv /\ MetaOp => DriftInv' /\ (RefCountExact => RefCountExact')
<1> SUFFICES ASSUME DriftInv, MetaOp
             PROVE  DriftInv' /\ (RefCountExact => RefCountExact')
  OBVIOUS
<1>1. ASSUME NEW n \in Name, AddFile(n)
      PROVE  DriftInv' /\ (RefCountExact => RefCountExact')
  BY <1>1, AddFileInv
<1>2. ASSUME NEW n \in Name, DeleteFile(n)
      PROVE  DriftInv' /\ (RefCountExact => RefCountExact')
  <2>1. FilesOf(n) \in SUBSET FileId
    BY DEF FilesOf
  <2>2. QED
    BY <1>2, <2>1, DeleteFilesInv DEF DeleteFile
<1>3. ASSUME NEW r \in Repo, DeleteFilesByRepo(r)
      PROVE  DriftInv' /\ (RefCountExact => RefCountExact')
  <2>1. FilesOfRepo(r) \in SUBSET FileId
    BY DEF FilesOfRepo, Live
  <2>2. QED
    BY <1>3, <2>1, DeleteFilesInv DEF DeleteFilesByRepo
<1>4. ASSUME NEW f \in FileId, NEW i \in ChunkIndex, NEW s \in Sha,
             EnsureChunkAndLink(f, i, s)
      PROVE  DriftInv' /\ (RefCountExact => RefCountExact')
  BY <1>4, LinkInv
<1>5. ASSUME NEW S \in SUBSET Sha, DeleteChunksBatch(S)
      PROVE  DriftInv' /\ (RefCountExact => RefCountExact')
  BY <1>5, DeleteBatchInv
<1>6. QED
  BY <1>1, <1>2, <1>3, <1>4, <1>5 DEF MetaOp

\* A step that leaves the tables alone keeps both.
LEMMA StutterInv ==
  ASSUME DriftInv, UNCHANGED metaVars
  PROVE  DriftInv' /\ (RefCountExact => RefCountExact')
  BY DEF metaVars, DriftInv, TypeOK, LinksResolve, RefCountNeverLow, RefCountExact,
         OrphanUnreferenced, Live, Refs

LEMMA NextIInv == IInv /\ [MetaNext]_metaVars => IInv'
  BY OpInv, ReconcileInv, StutterInv DEF IInv, MetaNext

\* The inductive invariant holds of every behaviour.
THEOREM InductiveInvariant == MetaSpec => []IInv
  BY InitIInv, NextIInv, PTL DEF MetaSpec

-----------------------------------------------------------------------------
(* Theorems *)

\* The tables keep their types and file ids are never reused.
THEOREM TypeCorrect == MetaSpec => []TypeOK
<1>1. IInv => TypeOK
  BY DEF IInv, DriftInv
<1>2. QED
  BY <1>1, InductiveInvariant, PTL

\* The stored reference counts are exact after any sequence of operations.
THEOREM RefCountsAreExact == MetaSpec => []RefCountExact
<1>1. IInv => RefCountExact
  BY DEF IInv, DriftInv
<1>2. QED
  BY <1>1, InductiveInvariant, PTL

\* The foreign keys hold without SQLite's help.
THEOREM LinksAlwaysResolve == MetaSpec => []LinksResolve
<1>1. IInv => LinksResolve
  BY DEF IInv, DriftInv
<1>2. QED
  BY <1>1, InductiveInvariant, PTL

\* GC is never offered a chunk that a file holds.
THEOREM OrphansAreUnreferenced == MetaSpec => []OrphanUnreferenced
<1>1. IInv => OrphanUnreferenced
  BY DEF IInv, DriftInv
<1>2. QED
  BY <1>1, InductiveInvariant, PTL

-----------------------------------------------------------------------------
(* The database implements ChunkCatalog *)

\* The rows of file_chunks as ChunkCatalog's links.
CatalogLinks == {l \in Slot \X Sha : fileChunks[l[1]] = l[2]}

LEMMA InitRefines == MetaInit => Catalog!CatalogInit
  BY MetadataAssumption DEF MetaInit, Catalog!CatalogInit

LEMMA DeleteRefines ==
  ASSUME TypeOK, NEW F \in SUBSET FileId, DeleteFilesById(F)
  PROVE  Catalog!CatalogNext
<1> DEFINE K == {k \in Slot : k[1] \in F}
<1>1. CatalogLinks' = {l \in CatalogLinks : l[1] \notin K}
  BY MetadataAssumption DEF CatalogLinks, DeleteFilesById, TypeOK
<1>2. Catalog!Forget(K)
  BY <1>1 DEF Catalog!Forget, CatalogLinks, DeleteFilesById
<1>3. QED
  BY <1>2 DEF Catalog!CatalogNext

LEMMA LinkRefines ==
  ASSUME TypeOK, NEW f \in FileId, NEW i \in ChunkIndex, NEW s \in Sha,
         EnsureChunkAndLink(f, i, s)
  PROVE  Catalog!CatalogNext
<1> DEFINE k == <<f, i>>
<1>1. k \in Slot
  BY DEF Slot
<1>2. fileChunks' = [fileChunks EXCEPT ![k] = s] /\ chunks' = chunks \cup {s}
  BY DEF EnsureChunkAndLink
<1> HIDE DEF k
<1>3. CatalogLinks' = {l \in CatalogLinks : l[1] # k} \cup {<<k, s>>}
  BY <1>1, <1>2 DEF CatalogLinks, TypeOK
<1>4. Catalog!Record(k, s)
  BY <1>2, <1>3 DEF Catalog!Record, CatalogLinks
<1>5. QED
  BY <1>1, <1>4 DEF Catalog!CatalogNext

LEMMA DeleteBatchRefines ==
  ASSUME TypeOK, NEW S \in SUBSET Sha, DeleteChunksBatch(S)
  PROVE  Catalog!CatalogNext
<1>1. Deletable(S) \subseteq chunks \ Catalog!Held
  <2> SUFFICES ASSUME NEW s \in Deletable(S), NEW l \in CatalogLinks, l[2] = s
               PROVE  FALSE
    BY DEF Catalog!Held, CatalogLinks, Deletable
  <2>1. l[1] \in Refs(s)
    BY DEF CatalogLinks, Refs
  <2>2. QED
    BY <2>1 DEF DeleteChunksBatch
<1>2. CatalogLinks' = CatalogLinks
  BY DEF CatalogLinks, DeleteChunksBatch
<1>3. Catalog!Collect(Deletable(S))
  BY <1>1, <1>2 DEF Catalog!Collect, CatalogLinks, DeleteChunksBatch
<1>4. Deletable(S) \in SUBSET Sha
  BY DEF Deletable
<1>5. QED
  BY <1>3, <1>4 DEF Catalog!CatalogNext

\* Counts and marks decide what GC may take exactly as the catalog does: a chunk
\* leaves the database only while no file holds it.
THEOREM DatabaseImplementsCatalog == MetaSpec => ImplementsCatalog
<1>1. MetaInit => Catalog!CatalogInit
  BY InitRefines
<1>2. IInv /\ [MetaNext]_metaVars => [Catalog!CatalogNext]_(Catalog!catalogVars)
  <2> SUFFICES ASSUME IInv, [MetaNext]_metaVars
               PROVE  Catalog!CatalogNext \/ UNCHANGED <<CatalogLinks, chunks>>
    BY DEF Catalog!catalogVars, CatalogLinks
  <2> USE DEF IInv, DriftInv
  <2>1. ASSUME NEW n \in Name, AddFile(n)
        PROVE  UNCHANGED <<CatalogLinks, chunks>>
    BY <2>1 DEF AddFile, CatalogLinks
  <2>2. ASSUME NEW n \in Name, DeleteFile(n)
        PROVE  Catalog!CatalogNext
    BY <2>2, DeleteRefines DEF DeleteFile, FilesOf
  <2>3. ASSUME NEW r \in Repo, DeleteFilesByRepo(r)
        PROVE  Catalog!CatalogNext
    BY <2>3, DeleteRefines DEF DeleteFilesByRepo, FilesOfRepo, Live
  <2>4. ASSUME NEW f \in FileId, NEW i \in ChunkIndex, NEW s \in Sha,
               EnsureChunkAndLink(f, i, s)
        PROVE  Catalog!CatalogNext
    BY <2>4, LinkRefines
  <2>5. ASSUME NEW S \in SUBSET Sha, DeleteChunksBatch(S)
        PROVE  Catalog!CatalogNext
    BY <2>5, DeleteBatchRefines
  <2>6. CASE ReconcileChunkRefs
    BY <2>6 DEF ReconcileChunkRefs, CatalogLinks
  <2>7. CASE UNCHANGED metaVars
    BY <2>7 DEF metaVars, CatalogLinks
  <2>8. QED
    BY <2>1, <2>2, <2>3, <2>4, <2>5, <2>6, <2>7 DEF MetaNext, MetaOp
<1>3. QED
  BY <1>1, <1>2, InductiveInvariant, PTL
     DEF MetaSpec, ImplementsCatalog, Catalog!CatalogSpec
=============================================================================
