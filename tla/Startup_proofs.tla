-------------------------- MODULE Startup_proofs ---------------------------
(***************************************************************************)
(* Proofs about SchemaMigration and Startup, for any legacy database and   *)
(* any number of daemons, starts and settings.  The migrated counts are    *)
(* never too low, so that GC never takes a chunk in use, and the repair    *)
(* makes them exact for good.  For the database a start is what            *)
(* SchemaMigration says, so that these facts carry over; for the blob      *)
(* directory and the token files the invariant is StartInv below.          *)
(***************************************************************************)
EXTENDS Startup, MetadataStore_proofs

-----------------------------------------------------------------------------
(* The schema and its counts *)

\* The inductive invariant: the counts of schema 4 are exact, migration 005 may
\* leave them too high, and the repair runs only on the latest schema.
LegacyInv ==
  /\ DriftInv
  /\ schema \in {4, 5, 6}
  /\ schema = 4 => RefCountExact
  /\ schema # 6 => ~ repaired /\ \A s \in Sha : ~ orphanedAt[s]
  /\ RepairedIsExact

LEMMA LegacyInitInv == LegacyInit => LegacyInv
<1> SUFFICES ASSUME LegacyInit PROVE LegacyInv
  OBVIOUS
<1> USE MetadataAssumption
<1>1. \A s \in Sha : Cardinality(Refs(s)) \in Nat
  BY RefsFinite
<1>2. ASSUME NEW s \in Sha \ chunks
      PROVE  Cardinality(Refs(s)) = 0
  <2>1. LinksResolve
    BY DEF LegacyInit
  <2>2. Refs(s) = {}
    <3> SUFFICES ASSUME NEW k \in Slot, fileChunks[k] = s
                 PROVE  FALSE
      BY DEF Refs
    <3>1. fileChunks[k] # NoSha
      OBVIOUS
    <3>2. QED
      BY <2>1, <3>1 DEF LinksResolve
  <2>3. QED
    BY <2>2, FS_EmptySet
<1>3. TypeOK
  <2>1. refCount \in [Sha -> Int] /\ \A s \in Sha \ chunks : refCount[s] = 0
    BY <1>1, <1>2 DEF LegacyInit
  <2>2. \A f \in FileId : f >= nextId => files[f] = NoName
    BY DEF LegacyInit, Live, FileId
  <2>3. QED
    BY <2>1, <2>2 DEF LegacyInit, TypeOK
<1>4. RefCountExact /\ RefCountNeverLow /\ OrphanUnreferenced
  BY <1>1 DEF LegacyInit, RefCountExact, RefCountNeverLow, OrphanUnreferenced
<1>5. QED
  BY <1>3, <1>4 DEF LegacyInit, LegacyInv, DriftInv, RepairedIsExact

\* Migration 005 takes at most one reference from a chunk that loses one or more.
LEMMA CleanupInv ==
  ASSUME LegacyInv, CleanupHeaderlessFiles
  PROVE  LegacyInv'
<1> USE MetadataAssumption
<1> DEFINE F == HeaderlessInDelete
<1>1. /\ TypeOK /\ LinksResolve /\ RefCountNeverLow
      /\ RefCountExact /\ ~ repaired /\ \A s \in Sha : ~ orphanedAt[s]
  BY DEF LegacyInv, DriftInv, CleanupHeaderlessFiles
<1>2. F = HeaderlessInUpdate
  BY DEF HeaderlessInUpdate, HeaderlessInDelete
<1>3. \A s \in Sha : /\ refCount'[s] = IF RefsLost(F, s) > 0 THEN refCount[s] - 1
                                       ELSE refCount[s]
                     /\ RefsLost(F, s) \in Nat
                     /\ RefsLost(F, s) <= Cardinality(Refs(s))
                     /\ Cardinality(Refs(s)) \in Nat
                     /\ refCount[s] \in Int
  BY <1>1, <1>2, RefsLostType, RefsFinite DEF CleanupHeaderlessFiles, TypeOK
<1>4. \A s \in Sha : Cardinality(Refs(s)') = Cardinality(Refs(s)) - RefsLost(F, s)
  BY <1>1, RefsAfterDelete DEF CleanupHeaderlessFiles
<1>5. RefCountNeverLow'
  BY <1>1, <1>3, <1>4 DEF RefCountNeverLow
<1>6. TypeOK'
  <2>1. refCount' \in [Sha -> Int]
    BY <1>3 DEF CleanupHeaderlessFiles
  <2>2. \A s \in Sha \ chunks : refCount'[s] = 0
    <3>1. \A s \in Sha \ chunks : Cardinality(Refs(s)) = 0
      BY <1>1 DEF RefCountExact, TypeOK
    <3>2. QED
      BY <1>1, <1>3, <3>1 DEF TypeOK
  <2>3. QED
    BY <1>1, <2>1, <2>2 DEF TypeOK, CleanupHeaderlessFiles
<1>7. LinksResolve'
  <2> SUFFICES ASSUME NEW k \in Slot, fileChunks'[k] # NoSha
               PROVE  k[1] \in Live' /\ fileChunks'[k] \in chunks'
    BY DEF LinksResolve
  <2>1. k[1] \notin F /\ fileChunks'[k] = fileChunks[k]
    BY DEF CleanupHeaderlessFiles
  <2>2. k[1] \in Live /\ fileChunks[k] \in chunks
    BY <1>1, <2>1 DEF LinksResolve
  <2>3. QED
    BY <2>1, <2>2 DEF CleanupHeaderlessFiles, Live
<1>8. OrphanUnreferenced'
  BY <1>1 DEF OrphanUnreferenced, CleanupHeaderlessFiles
<1>9. QED
  BY <1>1, <1>5, <1>6, <1>7, <1>8
     DEF LegacyInv, DriftInv, CleanupHeaderlessFiles, RepairedIsExact

\* Migration 006 marks the chunks whose count is zero; none of them is in use.
LEMMA AddColumnInv ==
  ASSUME LegacyInv, AddChunkOrphanedAt
  PROVE  LegacyInv'
<1>1. /\ TypeOK /\ LinksResolve /\ RefCountNeverLow /\ ~ repaired
      /\ UNCHANGED <<files, nextId, fileChunks, chunks, refCount, repaired>>
  BY DEF LegacyInv, DriftInv, AddChunkOrphanedAt
<1>2. \A s \in Sha : Refs(s)' = Refs(s)
  BY <1>1 DEF Refs
<1>3. TypeOK'
  BY <1>1 DEF AddChunkOrphanedAt, TypeOK, Unreferenced
<1>4. LinksResolve' /\ RefCountNeverLow'
  BY <1>1, <1>2 DEF LinksResolve, RefCountNeverLow, Live
<1>5. OrphanUnreferenced'
  <2> SUFFICES ASSUME NEW s \in Sha, orphanedAt'[s]
               PROVE  s \in chunks' /\ Refs(s)' = {}
    BY DEF OrphanUnreferenced
  <2>1. s \in chunks /\ refCount[s] = 0
    BY DEF AddChunkOrphanedAt, Unreferenced
  <2>2. Cardinality(Refs(s)) = 0
    BY <1>1, <2>1, RefsFinite DEF RefCountNeverLow
  <2>3. QED
    BY <1>1, <1>2, <2>1, <2>2, RefsFinite, FS_EmptySet
<1>6. QED
  BY <1>1, <1>3, <1>4, <1>5 DEF AddChunkOrphanedAt, LegacyInv, DriftInv, RepairedIsExact

LEMMA LegacyNextInv == LegacyInv /\ [LegacyNext]_legacyVars => LegacyInv'
<1> SUFFICES ASSUME LegacyInv, [LegacyNext]_legacyVars
             PROVE  LegacyInv'
  OBVIOUS
<1>1. CASE CleanupHeaderlessFiles
  BY <1>1, CleanupInv
<1>2. CASE AddChunkOrphanedAt
  BY <1>2, AddColumnInv
<1>3. CASE Serve
  <2>1. DriftInv' /\ (RefCountExact => RefCountExact')
    BY <1>3, OpInv DEF Serve, LegacyInv
  <2>2. QED
    BY <1>3, <2>1 DEF Serve, LegacyInv, RepairedIsExact
<1>4. CASE Repair
  <2>1. DriftInv' /\ RefCountExact'
    BY <1>4, ReconcileInv DEF Repair, LegacyInv
  <2>2. QED
    BY <1>4, <2>1 DEF Repair, LegacyInv, RepairedIsExact
<1>5. CASE UNCHANGED legacyVars
  <2>1. UNCHANGED metaVars /\ UNCHANGED <<schema, repaired, orphanedAt>>
    BY <1>5 DEF legacyVars, metaVars
  <2>2. DriftInv' /\ (RefCountExact => RefCountExact')
    BY <2>1, StutterInv DEF LegacyInv
  <2>3. QED
    BY <2>1, <2>2 DEF LegacyInv, RepairedIsExact
<1>6. QED
  BY <1>1, <1>2, <1>3, <1>4, <1>5 DEF LegacyNext

\* A migrated database never counts fewer references than there are, even where
\* migration 005 left it counting more: no chunk in use can reach zero.
THEOREM MigratedCountsNeverLow == LegacySpec => []RefCountNeverLow
<1>1. LegacyInv => RefCountNeverLow
  BY DEF LegacyInv, DriftInv
<1>2. QED
  BY <1>1, LegacyInitInv, LegacyNextInv, PTL DEF LegacySpec

\* GC of a migrated database, repaired or not, is never offered a chunk in use.
THEOREM MigratedOrphansUnreferenced == LegacySpec => []OrphanUnreferenced
<1>1. LegacyInv => OrphanUnreferenced
  BY DEF LegacyInv, DriftInv
<1>2. QED
  BY <1>1, LegacyInitInv, LegacyNextInv, PTL DEF LegacySpec

\* One run of the repair endpoint makes the counts exact, and they stay exact.
THEOREM RepairLasts == LegacySpec => []RepairedIsExact
<1>1. LegacyInv => RepairedIsExact
  BY DEF LegacyInv
<1>2. QED
  BY <1>1, LegacyInitInv, LegacyNextInv, PTL DEF LegacySpec

-----------------------------------------------------------------------------
(* A start *)

Opened == {"backend", "token", "create", "write", "bind", "serve"}

\* The database of a daemon that has opened it is the latest.
LatestSchema == \A d \in Daemon : at[d] \in Opened => schema = 6

\* A root that exists holds the old blobs, or was made under a strange name; and a
\* daemon that went past the rename has a reason not to look for them.
RootIsRight ==
  /\ rootExists => ~ trunks \/ strange
  /\ \A d \in Daemon :
       at[d] \in Opened \cup {"database"} /\ Config(d, "backend") = "local"
         => ~ trunks \/ strange
  /\ \A d \in Daemon :
       at[d] \in Opened \ {"backend"} /\ Config(d, "backend") # "s3" => rootExists

\* A daemon that has its token has it from its settings or from the file; a file
\* that only one start at a time makes is without a token while it is made.
TokensAgree ==
  \A d \in Daemon :
    /\ at[d] \in {"create", "write"} => Config(d, "admin_token") = "none"
    /\ at[d] \in {"bind", "serve"} /\ Config(d, "admin_token") # "none"
         => token[d] = Config(d, "admin_token")
    /\ FileOf(d) \notin rivals =>
         /\ at[d] \in {"create", "write"} =>
              ~ Holds(FileOf(d)) /\ \A e \in Making(FileOf(d)) : e = d
         /\ at[d] \in {"bind", "serve"} /\ Config(d, "admin_token") = "none"
              => Holds(FileOf(d)) /\ token[d] = tokenFile[FileOf(d)]

StartInv == StartTypeOK /\ LatestSchema /\ RootIsRight /\ TokensAgree

-----------------------------------------------------------------------------
LEMMA ConfigKept ==
  ASSUME NEW d \in Daemon, given'[d] = given[d]
  PROVE  \A s \in Setting : Config(d, s)' = Config(d, s)
BY DEF Config

\* What the token files of a daemon are is a matter of its settings.
LEMMA FileKept ==
  ASSUME NEW d \in Daemon, given'[d] = given[d]
  PROVE  FileOf(d)' = FileOf(d)
BY DEF FileOf, Config

LEMMA InitStartInv == StartInit => StartInv
<1> SUFFICES ASSUME StartInit PROVE StartInv
  OBVIOUS
<1>1. StartTypeOK
  BY DEF StartInit, StartTypeOK, TokenValue
<1>2. LatestSchema /\ RootIsRight /\ TokensAgree
  BY DEF StartInit, LatestSchema, RootIsRight, TokensAgree, Opened
<1>3. QED
  BY <1>1, <1>2 DEF StartInv

-----------------------------------------------------------------------------
(* Types *)

LEMMA StartTypeStep == StartTypeOK /\ [StartNext]_startVars => StartTypeOK'
<1> SUFFICES ASSUME StartTypeOK, [StartNext]_startVars PROVE StartTypeOK'
  OBVIOUS
<1> USE StartAssumption DEF StartTypeOK, Goto
<1>1. ASSUME NEW d \in Daemon, Start(d)
      PROVE  StartTypeOK'
  BY <1>1 DEF Start, diskVars
<1>2. ASSUME NEW d \in Daemon, Stop(d)
      PROVE  StartTypeOK'
  <2>1. "none" \in TokenValue
    BY DEF TokenValue
  <2>2. QED
    BY <1>2, <2>1 DEF Stop, diskVars, history
<1>3. ASSUME NEW d \in Daemon, LookForRoot(d) \/ LookForTrunks(d)
      PROVE  StartTypeOK'
  BY <1>3 DEF LookForRoot, LookForTrunks, diskVars, history
<1>4. ASSUME NEW d \in Daemon, Rename(d)
      PROVE  StartTypeOK'
  BY <1>4 DEF Rename, history
<1>5. ASSUME NEW d \in Daemon, Migrate(d) \/ ServeRequest(d)
      PROVE  StartTypeOK'
  BY <1>5 DEF Migrate, ServeRequest, diskVars, history
<1>6. ASSUME NEW d \in Daemon, OpenDatabase(d) \/ Bind(d)
      PROVE  StartTypeOK'
  BY <1>6 DEF OpenDatabase, Bind, diskVars, history
<1>7. ASSUME NEW d \in Daemon, MakeBackend(d)
      PROVE  StartTypeOK'
  BY <1>7 DEF MakeBackend
<1>8. ASSUME NEW d \in Daemon, FindToken(d)
      PROVE  StartTypeOK'
  <2>1. given[d] \in Setups
    BY <1>8 DEF FindToken
  <2>2. Config(d, "admin_token") \in TokenValue
    BY <2>1 DEF Config, TokenValue
  <2>3. FileOf(d) \in TokenFile
    BY <2>1 DEF FileOf, Config
  <2>4. Holds(FileOf(d)) => tokenFile[FileOf(d)] \in TokenValue
    BY <2>3 DEF Holds, TokenValue
  <2>5. token' \in [Daemon -> TokenValue]
    BY <1>8, <2>2, <2>4 DEF FindToken
  <2>6. at' \in [Daemon -> {"down", "load", "legacy", "rename", "database", "backend",
                            "token", "create", "write", "bind", "serve"}]
    BY <1>8 DEF FindToken
  <2>7. \A e \in Daemon : at'[e] # "down" => given'[e] \in Setups
    BY <1>8, <2>1 DEF FindToken
  <2>8. QED
    BY <1>8, <2>5, <2>6, <2>7 DEF FindToken, diskVars
<1>9. ASSUME NEW d \in Daemon, CreateTokenFile(d)
      PROVE  StartTypeOK'
  BY <1>9 DEF CreateTokenFile, history
<1>10. ASSUME NEW d \in Daemon, WriteToken(d)
       PROVE  StartTypeOK'
  <2>1. PICK t \in Token \ issued :
          /\ issued' = issued \cup {t}
          /\ token' = [token EXCEPT ![d] = t]
          /\ \/ tokenFile' = [tokenFile EXCEPT ![FileOf(d)] = t]
             \/ tokenFile' = [tokenFile EXCEPT ![FileOf(d)] = "mixed"]
    BY <1>10 DEF WriteToken
  <2>2. t \in TokenValue
    BY DEF TokenValue
  <2>3. QED
    BY <1>10, <2>1, <2>2 DEF WriteToken
<1>11. ASSUME NEW d \in Daemon, StoreBlob(d)
       PROVE  StartTypeOK'
  BY <1>11 DEF StoreBlob, history
<1>12. CASE UNCHANGED startVars
  BY <1>12 DEF startVars, diskVars, history
<1>13. QED
  BY <1>1, <1>2, <1>3, <1>4, <1>5, <1>6, <1>7, <1>8, <1>9, <1>10, <1>11, <1>12
     DEF StartNext, StartStep

-----------------------------------------------------------------------------
(* For the database *)

\* Whatever a daemon does is, for the database, a step of SchemaMigration or none.
LEMMA StepIsLegacy == [StartNext]_startVars => [LegacyNext]_legacyVars
<1> SUFFICES ASSUME [StartNext]_startVars PROVE [LegacyNext]_legacyVars
  OBVIOUS
<1>1. ASSUME NEW d \in Daemon, Migrate(d) \/ ServeRequest(d)
      PROVE  LegacyNext
  BY <1>1 DEF Migrate, ServeRequest, LegacyNext
<1>2. ASSUME NEW d \in Daemon, Start(d) \/ Stop(d) \/ StoreBlob(d)
      PROVE  UNCHANGED legacyVars
  BY <1>2 DEF Start, Stop, StoreBlob
<1>3. ASSUME NEW d \in Daemon, StartStep(d), ~ Migrate(d)
      PROVE  UNCHANGED legacyVars
  BY <1>3 DEF StartStep, LookForRoot, LookForTrunks, Rename, OpenDatabase, MakeBackend,
              FindToken, CreateTokenFile, WriteToken, Bind
<1>4. CASE UNCHANGED startVars
  BY <1>4 DEF startVars
<1>5. QED
  BY <1>1, <1>2, <1>3, <1>4 DEF StartNext

\* However daemons start, stop and serve at a time, the database goes through the
\* states SchemaMigration describes.
THEOREM StartsAreLegacy == StartSpec => LegacySpec
<1>1. StartInit => LegacyInit
  BY DEF StartInit
<1>2. QED
  BY <1>1, StepIsLegacy, PTL DEF StartSpec, LegacySpec

\* No start, and no stop in the middle of one, leads to a count too low.
THEOREM StartedCountsNeverLow == StartSpec => []RefCountNeverLow
BY StartsAreLegacy, MigratedCountsNeverLow, PTL

\* The repair outlasts restarts.
THEOREM StartedRepairLasts == StartSpec => []RepairedIsExact
BY StartsAreLegacy, RepairLasts, PTL

-----------------------------------------------------------------------------
(* The database and the blob directory *)

LEMMA SchemaStep ==
  StartTypeOK /\ LatestSchema /\ [StartNext]_startVars => LatestSchema'
<1> SUFFICES ASSUME StartTypeOK, LatestSchema, [StartNext]_startVars
             PROVE  LatestSchema'
  OBVIOUS
<1> USE DEF StartTypeOK, LatestSchema, Opened, Goto
<1>1. schema = 6 => schema' = 6
  BY StepIsLegacy
     DEF LegacyNext, CleanupHeaderlessFiles, AddChunkOrphanedAt, Serve, Repair, legacyVars
<1>2. ASSUME NEW d \in Daemon, Start(d) \/ Stop(d) \/ StoreBlob(d) \/ ServeRequest(d)
      PROVE  LatestSchema'
  BY <1>1, <1>2 DEF Start, Stop, StoreBlob, ServeRequest
<1>3. ASSUME NEW d \in Daemon, OpenDatabase(d)
      PROVE  LatestSchema'
  BY <1>1, <1>3 DEF OpenDatabase
<1>4. ASSUME NEW d \in Daemon, StartStep(d), ~ OpenDatabase(d)
      PROVE  LatestSchema'
  BY <1>1, <1>4 DEF StartStep, LookForRoot, LookForTrunks, Rename, Migrate, MakeBackend,
              FindToken, CreateTokenFile, WriteToken, Bind
<1>5. CASE UNCHANGED startVars
  BY <1>1, <1>5 DEF startVars
<1>6. QED
  BY <1>2, <1>3, <1>4, <1>5 DEF StartNext

LEMMA RootStep ==
  StartTypeOK /\ RootIsRight /\ [StartNext]_startVars => RootIsRight'
<1> SUFFICES ASSUME StartTypeOK, RootIsRight, [StartNext]_startVars
             PROVE  RootIsRight'
  OBVIOUS
<1> USE DEF StartTypeOK, RootIsRight, Opened, Goto
<1> DEFINE B(e) == Config(e, "backend")
<1>1. ASSUME UNCHANGED given
      PROVE  \A e \in Daemon : B(e)' = B(e)
  BY <1>1 DEF Config
<1>2. ASSUME NEW d \in Daemon, Start(d)
      PROVE  RootIsRight'
  <2>1. \A e \in Daemon \ {d} : B(e)' = B(e)
    BY <1>2 DEF Start, Config
  <2> HIDE DEF B
  <2>2. QED
    BY <1>2, <2>1 DEF Start, diskVars, B
<1>3. ASSUME NEW d \in Daemon, Stop(d)
      PROVE  RootIsRight'
  <2>1. \A e \in Daemon \ {d} : B(e)' = B(e)
    BY <1>3 DEF Stop, Config
  <2>2. QED
    BY <1>3, <2>1 DEF Stop, diskVars, history
<1>4. ASSUME NEW d \in Daemon, LookForRoot(d) \/ LookForTrunks(d)
      PROVE  RootIsRight'
  BY <1>1, <1>4 DEF LookForRoot, LookForTrunks, MigratesBlobs, diskVars, history
<1>5. ASSUME NEW d \in Daemon, Rename(d)
      PROVE  RootIsRight'
  BY <1>1, <1>5 DEF Rename, history
<1>6. ASSUME NEW d \in Daemon, OpenDatabase(d) \/ Migrate(d) \/ ServeRequest(d) \/ Bind(d)
      PROVE  RootIsRight'
  BY <1>1, <1>6 DEF OpenDatabase, Migrate, ServeRequest, Bind, diskVars, history
<1>7. ASSUME NEW d \in Daemon, MakeBackend(d)
      PROVE  RootIsRight'
  BY <1>1, <1>7 DEF MakeBackend
<1>8. ASSUME NEW d \in Daemon, FindToken(d) \/ CreateTokenFile(d) \/ WriteToken(d)
      PROVE  RootIsRight'
  BY <1>1, <1>8 DEF FindToken, CreateTokenFile, WriteToken, diskVars, history
<1>9. ASSUME NEW d \in Daemon, StoreBlob(d)
      PROVE  RootIsRight'
  BY <1>1, <1>9 DEF StoreBlob, history
<1>10. CASE UNCHANGED startVars
  BY <1>1, <1>10 DEF startVars, diskVars, history
<1>11. QED
  BY <1>2, <1>3, <1>4, <1>5, <1>6, <1>7, <1>8, <1>9, <1>10 DEF StartNext, StartStep

-----------------------------------------------------------------------------
(* The token *)

\* A step that changes neither settings, tokens nor token files, and takes nobody
\* to where they matter.
LEMMA QuietToken ==
  ASSUME TokensAgree, UNCHANGED <<given, token, tokenFile, rivals>>,
         \A e \in Daemon : \/ at'[e] = at[e]
                            \/ /\ at'[e] \notin {"create", "write", "bind"}
                               /\ at'[e] = "serve" => at[e] = "bind"
  PROVE  TokensAgree'
<1>1. \A e \in Daemon : Config(e, "admin_token")' = Config(e, "admin_token")
                        /\ FileOf(e)' = FileOf(e)
  BY DEF Config, FileOf
<1>2. \A e \in Daemon : Holds(FileOf(e))' = Holds(FileOf(e))
  BY <1>1 DEF Holds
<1>3. \A e \in Daemon : Making(FileOf(e))' \subseteq Making(FileOf(e))
  BY <1>1 DEF Making
<1>4. QED
  BY <1>1, <1>2, <1>3 DEF TokensAgree

LEMMA FindTokenOK ==
  ASSUME StartTypeOK, TokensAgree, NEW d \in Daemon, FindToken(d)
  PROVE  TokensAgree'
<1> USE DEF StartTypeOK, Goto
<1>1. \A e \in Daemon : /\ Config(e, "admin_token")' = Config(e, "admin_token")
                        /\ FileOf(e)' = FileOf(e)
                        /\ Holds(FileOf(e))' = Holds(FileOf(e))
  BY DEF FindToken, diskVars, Config, FileOf, Holds
<1>2. \A e \in Daemon \ {d} : at'[e] = at[e] /\ token'[e] = token[e]
  BY DEF FindToken
<1>3. CASE at'[d] = "bind"
  <2>1. rivals' = rivals
    BY <1>3 DEF FindToken
  <2>2. \A e \in Daemon : Making(FileOf(e))' \subseteq Making(FileOf(e))
    BY <1>1, <1>2, <1>3 DEF Making
  <2>3. \/ token'[d] = Config(d, "admin_token") /\ Config(d, "admin_token") # "none"
        \/ /\ Holds(FileOf(d)) /\ token'[d] = tokenFile[FileOf(d)]
           /\ Config(d, "admin_token") = "none"
    BY <1>3 DEF FindToken
  <2>4. UNCHANGED tokenFile
    BY DEF FindToken, diskVars
  <2>5. QED
    BY <1>1, <1>2, <1>3, <2>1, <2>2, <2>3, <2>4 DEF TokensAgree
<1>4. CASE at'[d] = "create"
  <2>1. /\ Config(d, "admin_token") = "none" /\ ~ Holds(FileOf(d))
        /\ rivals \subseteq rivals'
        /\ FileOf(d) \notin rivals' => Making(FileOf(d)) = {}
        /\ UNCHANGED <<token, tokenFile>>
    BY <1>4 DEF FindToken, diskVars
  <2>2. \A e \in Daemon : Making(FileOf(e))' \subseteq Making(FileOf(e)) \cup {d}
    BY <1>1, <1>2 DEF Making
  <2>3. \A e \in Daemon : FileOf(e) # FileOf(d) => Making(FileOf(e))' \subseteq Making(FileOf(e))
    BY <1>1, <1>2 DEF Making
  <2>4. \A e \in Daemon \ {d} : at[e] \in {"create", "write"} => e \in Making(FileOf(e))
    BY DEF Making
  <2>5. QED
    BY <1>1, <1>2, <1>4, <2>1, <2>2, <2>3, <2>4 DEF TokensAgree
<1>5. QED
  BY <1>3, <1>4 DEF FindToken

LEMMA CreateTokenOK ==
  ASSUME StartTypeOK, TokensAgree, NEW d \in Daemon, CreateTokenFile(d)
  PROVE  TokensAgree'
<1> USE DEF StartTypeOK, Goto
<1>1. \A e \in Daemon : /\ Config(e, "admin_token")' = Config(e, "admin_token")
                        /\ FileOf(e)' = FileOf(e)
  BY DEF CreateTokenFile, Config, FileOf
<1>2. UNCHANGED <<token, rivals>>
  BY DEF CreateTokenFile, history
<1>3. \A e \in Daemon : Making(FileOf(e))' \subseteq Making(FileOf(e))
  BY <1>1 DEF CreateTokenFile, Making
<1>4. FileOf(d) \notin rivals => ~ Holds(FileOf(d))
  BY DEF CreateTokenFile, TokensAgree
<1>5. ASSUME NEW e \in Daemon, at[e] # "down", FileOf(e) # FileOf(d)
      PROVE  tokenFile'[FileOf(e)] = tokenFile[FileOf(e)] /\ Holds(FileOf(e))' = Holds(FileOf(e))
  <2>1. FileOf(e) \in TokenFile
    BY <1>5, StartAssumption DEF FileOf, Config
  <2>2. tokenFile'[FileOf(e)] = tokenFile[FileOf(e)]
    BY <1>5, <2>1 DEF CreateTokenFile
  <2>3. QED
    BY <1>1, <2>2 DEF Holds
<1>6. d \in Making(FileOf(d)) /\ at'[d] = "write" /\ at[d] = "create"
  BY DEF CreateTokenFile, Making
<1>7. FileOf(d) \in TokenFile
  BY StartAssumption DEF CreateTokenFile, FileOf, Config
<1>8. ~ Holds(FileOf(d))'
  BY <1>1, <1>7 DEF CreateTokenFile, Holds
<1>9. \A e \in Daemon \ {d} : at'[e] = at[e]
  BY DEF CreateTokenFile
<1>10. ASSUME NEW e \in Daemon
       PROVE  /\ at'[e] \in {"create", "write"} => Config(e, "admin_token")' = "none"
              /\ at'[e] \in {"bind", "serve"} /\ Config(e, "admin_token")' # "none"
                   => token'[e] = Config(e, "admin_token")'
  BY <1>1, <1>2, <1>6, <1>9 DEF TokensAgree
<1>11. ASSUME NEW e \in Daemon, FileOf(e) \notin rivals
       PROVE  /\ at'[e] \in {"create", "write"} =>
                   ~ Holds(FileOf(e))' /\ \A x \in Making(FileOf(e))' : x = e
              /\ at'[e] \in {"bind", "serve"} /\ Config(e, "admin_token")' = "none"
                   => Holds(FileOf(e))' /\ token'[e] = tokenFile'[FileOf(e)]
  <2>1. CASE FileOf(e) = FileOf(d)
    <3>1. ~ Holds(FileOf(e))' /\ ~ Holds(FileOf(e))
      BY <1>1, <1>4, <1>8, <1>11, <2>1 DEF Holds
    <3>2. at[e] \in {"create", "write"} => \A x \in Making(FileOf(e)) : x = e
      BY <1>11 DEF TokensAgree
    <3>3. ~ (at[e] \in {"bind", "serve"} /\ Config(e, "admin_token") = "none")
      BY <1>11, <3>1 DEF TokensAgree
    <3>4. QED
      BY <1>1, <1>3, <1>6, <1>9, <3>1, <3>2, <3>3
  <2>2. CASE FileOf(e) # FileOf(d)
    BY <1>1, <1>2, <1>3, <1>5, <1>9, <1>11, <2>2 DEF TokensAgree
  <2>3. QED
    BY <2>1, <2>2
<1>12. QED
  BY <1>1, <1>2, <1>10, <1>11 DEF TokensAgree

LEMMA WriteTokenOK ==
  ASSUME StartTypeOK, TokensAgree, NEW d \in Daemon, WriteToken(d)
  PROVE  TokensAgree'
<1> USE DEF StartTypeOK, Goto
<1>1. \A e \in Daemon : /\ Config(e, "admin_token")' = Config(e, "admin_token")
                        /\ FileOf(e)' = FileOf(e)
  BY DEF WriteToken, Config, FileOf
<1>2. UNCHANGED rivals
  BY DEF WriteToken
<1>3. \A e \in Daemon : Making(FileOf(e))' \subseteq Making(FileOf(e))
  BY <1>1 DEF WriteToken, Making
<1>4. /\ at[d] = "write" /\ at'[d] = "bind" /\ Config(d, "admin_token") = "none"
      /\ FileOf(d) \notin rivals =>
           ~ Holds(FileOf(d)) /\ \A e \in Making(FileOf(d)) : e = d
  BY DEF WriteToken, TokensAgree
<1>5. FileOf(d) \in TokenFile
  BY StartAssumption DEF WriteToken, FileOf, Config
<1>6. PICK t \in Token \ issued :
        /\ token' = [token EXCEPT ![d] = t]
        /\ \/ tokenFile' = [tokenFile EXCEPT ![FileOf(d)] = t]
           \/ Holds(FileOf(d)) /\ tokenFile' = [tokenFile EXCEPT ![FileOf(d)] = "mixed"]
  BY DEF WriteToken
<1>7. ASSUME NEW e \in Daemon, at[e] # "down", FileOf(e) # FileOf(d)
      PROVE  tokenFile'[FileOf(e)] = tokenFile[FileOf(e)] /\ Holds(FileOf(e))' = Holds(FileOf(e))
  <2>1. FileOf(e) \in TokenFile
    BY <1>7, StartAssumption DEF FileOf, Config
  <2>2. tokenFile'[FileOf(e)] = tokenFile[FileOf(e)]
    BY <1>6, <1>7, <2>1
  <2>3. QED
    BY <1>1, <2>2 DEF Holds
<1>8. \A e \in Daemon \ {d} : at'[e] = at[e] /\ token'[e] = token[e]
  BY <1>6 DEF WriteToken
<1>9. FileOf(d) \notin rivals => Holds(FileOf(d))' /\ token'[d] = tokenFile'[FileOf(d)]
  BY <1>1, <1>4, <1>5, <1>6, StartAssumption DEF Holds
<1>10. \A e \in Daemon : FileOf(e) = FileOf(d) /\ FileOf(d) \notin rivals /\ e # d =>
         /\ at[e] \notin {"create", "write"}
         /\ ~ (at[e] \in {"bind", "serve"} /\ Config(e, "admin_token") = "none")
  BY <1>4 DEF TokensAgree, Making
<1>11. \A e \in Daemon \ {d} :
         at'[e] \in {"bind", "serve"} /\ Config(e, "admin_token")' # "none"
           => token'[e] = Config(e, "admin_token")'
  BY <1>1, <1>8 DEF TokensAgree
<1>12. ASSUME NEW e \in Daemon, FileOf(e) \notin rivals
       PROVE  /\ at'[e] \in {"create", "write"} =>
                   ~ Holds(FileOf(e))' /\ \A x \in Making(FileOf(e))' : x = e
              /\ at'[e] \in {"bind", "serve"} /\ Config(e, "admin_token")' = "none"
                   => Holds(FileOf(e))' /\ token'[e] = tokenFile'[FileOf(e)]
  <2>1. CASE e = d
    BY <1>4, <1>9, <1>12, <2>1
  <2>2. CASE e # d /\ FileOf(e) = FileOf(d)
    BY <1>1, <1>8, <1>10, <1>12, <2>2
  <2>3. CASE FileOf(e) # FileOf(d)
    BY <1>1, <1>3, <1>7, <1>8, <1>12, <2>3 DEF TokensAgree
  <2>4. QED
    BY <2>1, <2>2, <2>3
<1>13. \A e \in Daemon : at'[e] \in {"create", "write"} => Config(e, "admin_token")' = "none"
  BY <1>1, <1>4, <1>8 DEF TokensAgree
<1>14. QED
  BY <1>1, <1>2, <1>4, <1>11, <1>12, <1>13 DEF TokensAgree

LEMMA TokenStep ==
  StartTypeOK /\ TokensAgree /\ [StartNext]_startVars => TokensAgree'
<1> SUFFICES ASSUME StartTypeOK, TokensAgree, [StartNext]_startVars
             PROVE  TokensAgree'
  OBVIOUS
<1> USE DEF StartTypeOK, Goto
<1>1. ASSUME NEW d \in Daemon, Start(d) \/ Stop(d)
      PROVE  TokensAgree'
  <2>1. /\ \A e \in Daemon \ {d} : given'[e] = given[e] /\ at'[e] = at[e] /\ token'[e] = token[e]
        /\ at'[d] \in {"load", "down"}
        /\ UNCHANGED <<tokenFile, rivals>>
    BY <1>1 DEF Start, Stop, diskVars, history
  <2>2. \A e \in Daemon \ {d} : /\ Config(e, "admin_token")' = Config(e, "admin_token")
                                /\ FileOf(e)' = FileOf(e)
    BY <2>1 DEF Config, FileOf
  <2>3. \A e \in Daemon \ {d} : /\ Holds(FileOf(e))' = Holds(FileOf(e))
                                /\ Making(FileOf(e))' \subseteq Making(FileOf(e))
    BY <2>1, <2>2 DEF Holds, Making
  <2>4. QED
    BY <2>1, <2>2, <2>3 DEF TokensAgree
<1>2. ASSUME NEW d \in Daemon, FindToken(d) \/ CreateTokenFile(d) \/ WriteToken(d)
      PROVE  TokensAgree'
  BY <1>2, FindTokenOK, CreateTokenOK, WriteTokenOK
<1>3. ASSUME NEW d \in Daemon, ServeRequest(d) \/ StoreBlob(d)
      PROVE  TokensAgree'
  <2>1. UNCHANGED <<at, given, token, tokenFile, rivals>>
    BY <1>3 DEF ServeRequest, StoreBlob, diskVars, history
  <2>2. QED
    BY <2>1, QuietToken
<1>4. ASSUME NEW d \in Daemon,
             \/ LookForRoot(d) \/ LookForTrunks(d) \/ Rename(d)
             \/ Migrate(d) \/ OpenDatabase(d) \/ MakeBackend(d) \/ Bind(d)
      PROVE  TokensAgree'
  <2>1. UNCHANGED <<given, token, tokenFile, rivals>>
    BY <1>4 DEF LookForRoot, LookForTrunks, Rename, Migrate, OpenDatabase, MakeBackend, Bind,
                diskVars, history
  <2>2. \A e \in Daemon : \/ at'[e] = at[e]
                           \/ /\ at'[e] \notin {"create", "write", "bind"}
                              /\ at'[e] = "serve" => at[e] = "bind"
    <3>1. CASE Migrate(d)
      BY <3>1 DEF Migrate
    <3>2. CASE LookForRoot(d) \/ LookForTrunks(d)
      BY <3>2 DEF LookForRoot, LookForTrunks
    <3>3. CASE Rename(d) \/ OpenDatabase(d)
      BY <3>3 DEF Rename, OpenDatabase
    <3>4. CASE MakeBackend(d) \/ Bind(d)
      BY <3>4 DEF MakeBackend, Bind
    <3>5. QED
      BY <1>4, <3>1, <3>2, <3>3, <3>4
  <2>3. QED
    BY <2>1, <2>2, QuietToken
<1>5. CASE UNCHANGED startVars
  BY <1>5, QuietToken DEF startVars, diskVars, history
<1>6. QED
  BY <1>1, <1>2, <1>3, <1>4, <1>5 DEF StartNext, StartStep

-----------------------------------------------------------------------------
(* The settings *)

LEMMA OverAt ==
  ASSUME NEW upper, NEW lower, NEW s
  PROVE  /\ s \in DOMAIN Over(upper, lower) <=> s \in DOMAIN upper \/ s \in DOMAIN lower
         /\ s \in DOMAIN upper => Over(upper, lower)[s] = upper[s]
         /\ s \in DOMAIN lower \ DOMAIN upper => Over(upper, lower)[s] = lower[s]
BY DEF Over

\* The lists agree: a setting is in the four of its section, wherever the section is.
LEMMA ListsAgree ==
  ASSUME NEW s \in Setting
  PROVE  \E c \in Section : s \in CliListed[c] /\ s \in CliFields[c]
                            /\ s \in EnvListed[c] /\ s \in EnvFields[c]
<1> DEFINE InAll(c) == s \in CliListed[c] /\ s \in CliFields[c]
                        /\ s \in EnvListed[c] /\ s \in EnvFields[c]
<1>1. CASE s \in StorageSettings
  <2>1. InAll("storage")
    BY <1>1 DEF StorageSettings, CliListed, CliFields, EnvListed, EnvFields, StorageListed
  <2>2. QED
    BY <2>1 DEF Section
<1>2. CASE s \in DatabaseSettings
  <2>1. InAll("database")
    BY <1>2 DEF DatabaseSettings, CliListed, CliFields, EnvListed, EnvFields
  <2>2. QED
    BY <2>1 DEF Section
<1>3. CASE s \in ServerSettings
  <2>1. InAll("server")
    BY <1>3 DEF ServerSettings, CliListed, CliFields, EnvListed, EnvFields, ServerListed
  <2>2. QED
    BY <2>1 DEF Section
<1>4. CASE s \in AdminSettings
  <2>1. InAll("admin")
    BY <1>4 DEF AdminSettings, CliListed, CliFields, EnvListed, EnvFields, AdminListed
  <2>2. QED
    BY <2>1 DEF Section
<1>5. CASE s \in HfSettings
  <2>1. InAll("huggingface")
    BY <1>5 DEF HfSettings, CliListed, CliFields, EnvListed, EnvFields, HfListed
  <2>2. QED
    BY <2>1 DEF Section
<1>6. CASE s \in MsSettings
  <2>1. InAll("modelscope")
    BY <1>6 DEF MsSettings, CliListed, CliFields, EnvListed, EnvFields, MsListed
  <2>2. QED
    BY <2>1 DEF Section
<1>7. QED
  BY <1>1, <1>2, <1>3, <1>4, <1>5, <1>6 DEF Setting

\* No setting is lost on its way through the lists.
LEMMA CliPatchAt ==
  ASSUME NEW layer, NEW s \in Setting
  PROVE  /\ s \in DOMAIN CliPatch(layer) <=> s \in DOMAIN layer
         /\ s \in DOMAIN layer => CliPatch(layer)[s] = layer[s]
<1> DEFINE named == {c \in Section : CliListed[c] \cap DOMAIN layer # {}}
<1>1. s \in DOMAIN layer => s \in UNION {CliFields[c] : c \in named}
  <2> SUFFICES ASSUME s \in DOMAIN layer
               PROVE  s \in UNION {CliFields[c] : c \in named}
    OBVIOUS
  <2>1. PICK c \in Section : s \in CliListed[c] /\ s \in CliFields[c]
    BY ListsAgree
  <2>2. c \in named
    BY <2>1
  <2>3. QED
    BY <2>1, <2>2
<1>2. CliPatch(layer) = Restricted(layer, UNION {CliFields[c] : c \in named})
  BY DEF CliPatch
<1> HIDE DEF named
<1>3. QED
  BY <1>1, <1>2 DEF Restricted

LEMMA EnvPatchAt ==
  ASSUME NEW layer, NEW s \in Setting
  PROVE  /\ s \in DOMAIN EnvPatch(layer) <=> s \in DOMAIN layer
         /\ s \in DOMAIN layer => EnvPatch(layer)[s] = layer[s]
<1> DEFINE filled == {c \in Section : EnvListed[c] \cap EnvFields[c] \cap DOMAIN layer # {}}
<1>1. s \in DOMAIN layer => s \in UNION {EnvFields[c] : c \in filled}
  <2> SUFFICES ASSUME s \in DOMAIN layer
               PROVE  s \in UNION {EnvFields[c] : c \in filled}
    OBVIOUS
  <2>1. PICK c \in Section : s \in EnvListed[c] /\ s \in EnvFields[c]
    BY ListsAgree
  <2>2. c \in filled
    BY <2>1
  <2>3. QED
    BY <2>1, <2>2
<1>2. EnvPatch(layer) = Restricted(layer, UNION {EnvFields[c] : c \in filled})
  BY DEF EnvPatch
<1> HIDE DEF filled
<1>3. QED
  BY <1>1, <1>2 DEF Restricted

\* Where the value of a setting comes from.
LEMMA ConfigAt ==
  ASSUME NEW d \in Daemon, NEW s \in Setting
  PROVE  LET g == given[d]
             file == FirstFile(g.files) IN
         /\ s \in DOMAIN g.cli => Config(d, s) = g.cli[s]
         /\ s \in DOMAIN g.env \ DOMAIN g.cli => Config(d, s) = g.env[s]
         /\ s \in DOMAIN g.dotenv \ (DOMAIN g.cli \cup DOMAIN g.env)
              => Config(d, s) = g.dotenv[s]
         /\ s \in DOMAIN file \ (DOMAIN g.cli \cup DOMAIN g.env \cup DOMAIN g.dotenv)
              => Config(d, s) = file[s]
         /\ s \notin DOMAIN g.cli \cup DOMAIN g.env \cup DOMAIN g.dotenv \cup DOMAIN file
              => Config(d, s) = ValueOf(Default, s)
<1> DEFINE g == given[d]
           file == FirstFile(g.files)
           base == Over(file, Default)
           middle == Over(EnvPatch(Environment(g)), base)
<1>1. Config(d, s) = ValueOf(Over(CliPatch(g.cli), middle), s)
  BY DEF Config, Load
<1>2. /\ s \in DOMAIN base <=> s \in DOMAIN file \/ s \in DOMAIN Default
      /\ s \in DOMAIN file => base[s] = file[s]
      /\ s \in DOMAIN Default \ DOMAIN file => base[s] = Default[s]
  BY OverAt
<1>3. /\ s \in DOMAIN Environment(g) <=> s \in DOMAIN g.env \/ s \in DOMAIN g.dotenv
      /\ s \in DOMAIN g.env => Environment(g)[s] = g.env[s]
      /\ s \in DOMAIN g.dotenv \ DOMAIN g.env => Environment(g)[s] = g.dotenv[s]
  BY OverAt DEF Environment
<1>4. /\ s \in DOMAIN EnvPatch(Environment(g)) <=> s \in DOMAIN Environment(g)
      /\ s \in DOMAIN Environment(g) => EnvPatch(Environment(g))[s] = Environment(g)[s]
      /\ s \in DOMAIN CliPatch(g.cli) <=> s \in DOMAIN g.cli
      /\ s \in DOMAIN g.cli => CliPatch(g.cli)[s] = g.cli[s]
  BY CliPatchAt, EnvPatchAt
<1> HIDE DEF base
<1>5. /\ s \in DOMAIN middle <=> s \in DOMAIN Environment(g) \/ s \in DOMAIN base
      /\ s \in DOMAIN Environment(g) => middle[s] = Environment(g)[s]
      /\ s \in DOMAIN base \ DOMAIN Environment(g) => middle[s] = base[s]
  BY <1>4, OverAt
<1> HIDE DEF middle
<1> DEFINE all == Over(CliPatch(g.cli), middle)
<1>6. /\ s \in DOMAIN all <=> s \in DOMAIN g.cli \/ s \in DOMAIN middle
      /\ s \in DOMAIN g.cli => all[s] = g.cli[s]
      /\ s \in DOMAIN middle \ DOMAIN g.cli => all[s] = middle[s]
  BY <1>4, OverAt
<1>7. Config(d, s) = IF s \in DOMAIN all THEN all[s] ELSE "none"
  BY <1>1 DEF ValueOf
<1> HIDE DEF all, g, file
<1>8. /\ s \in DOMAIN g.cli => Config(d, s) = g.cli[s]
      /\ s \in DOMAIN g.env \ DOMAIN g.cli => Config(d, s) = g.env[s]
      /\ s \in DOMAIN g.dotenv \ (DOMAIN g.cli \cup DOMAIN g.env) => Config(d, s) = g.dotenv[s]
  BY <1>3, <1>5, <1>6, <1>7
<1>9. /\ s \in DOMAIN file \ (DOMAIN g.cli \cup DOMAIN g.env \cup DOMAIN g.dotenv)
           => Config(d, s) = file[s]
      /\ s \notin DOMAIN g.cli \cup DOMAIN g.env \cup DOMAIN g.dotenv \cup DOMAIN file
           => Config(d, s) = IF s \in DOMAIN Default THEN Default[s] ELSE "none"
  BY <1>2, <1>3, <1>5, <1>6, <1>7
<1>10. QED
  BY <1>8, <1>9 DEF g, file, ValueOf

-----------------------------------------------------------------------------
(* The theorems *)

LEMMA StartInvariant == StartSpec => []StartInv
<1>1. StartInv /\ [StartNext]_startVars => StartInv'
  BY StartTypeStep, SchemaStep, RootStep, TokenStep DEF StartInv
<1>2. QED
  BY <1>1, InitStartInv, PTL DEF StartSpec

\* Daemons, their tokens, the token files and the blob directory are well typed; no
\* daemon takes an empty token file for a token.
THEOREM StartTypesCorrect == StartSpec => []StartTypeOK
<1>1. StartInv => StartTypeOK
  BY DEF StartInv
<1>2. QED
  BY <1>1, StartInvariant, PTL

\* A daemon whose backend is local never serves beside the blobs of an older version,
\* unless a start under another name made the root before.
THEOREM OldBlobsAreServed == StartSpec => []OldBlobsServed
<1>1. StartInv => OldBlobsServed
  BY DEF StartInv, RootIsRight, OldBlobsServed, Opened
<1>2. QED
  BY <1>1, StartInvariant, PTL

\* Each setting has the value of the highest layer that names it: no list it goes
\* through misses it, whatever else is given.
THEOREM SettingsAreLayered == StartSpec => []SettingsLayered
<1>1. SettingsLayered
  <2> SUFFICES ASSUME NEW d \in Daemon, NEW s \in Setting
               PROVE  LET g == given[d]
                          layers == <<g.cli, g.env, g.dotenv, FirstFile(g.files), Default>>
                          naming == {i \in DOMAIN layers : s \in DOMAIN layers[i]} IN
                      Config(d, s) =
                        IF naming = {} THEN "none"
                        ELSE layers[CHOOSE i \in naming : \A j \in naming : i <= j][s]
    BY DEF SettingsLayered, Config
  <2> DEFINE g == given[d]
             layers == <<g.cli, g.env, g.dotenv, FirstFile(g.files), Default>>
             naming == {i \in DOMAIN layers : s \in DOMAIN layers[i]}
             first == CHOOSE i \in naming : \A j \in naming : i <= j
  <2> SUFFICES Config(d, s) = IF naming = {} THEN "none" ELSE layers[first][s]
    OBVIOUS
  <2>1. naming \subseteq 1 .. 5
    OBVIOUS
  <2>2. /\ 1 \in naming <=> s \in DOMAIN g.cli
        /\ 2 \in naming <=> s \in DOMAIN g.env
        /\ 3 \in naming <=> s \in DOMAIN g.dotenv
        /\ 4 \in naming <=> s \in DOMAIN FirstFile(g.files)
        /\ 5 \in naming <=> s \in DOMAIN Default
    OBVIOUS
  <2>3. ASSUME NEW i \in naming, \A j \in 1 .. i - 1 : j \notin naming
        PROVE  first = i
    <3>1. \A j \in naming : i <= j
      BY <2>1, <2>3
    <3>2. \A k \in naming : (\A j \in naming : k <= j) => k = i
      BY <2>1, <3>1
    <3>3. QED
      BY <3>1, <3>2
  <2>4. CASE 1 \in naming
    <3>1. first = 1
      <4>1. \A j \in 1 .. 1 - 1 : j \notin naming
        BY <2>4
      <4>2. QED
        BY <2>3, <2>4, <4>1
    <3>2. Config(d, s) = g.cli[s]
      BY <2>2, <2>4, ConfigAt
    <3>3. layers[1] = g.cli
      OBVIOUS
    <3>4. naming # {}
      BY <2>4
    <3> HIDE DEF naming, layers, first
    <3>5. QED
      BY <3>1, <3>2, <3>3, <3>4
  <2>5. CASE 1 \notin naming /\ 2 \in naming
    <3>1. first = 2
      <4>1. \A j \in 1 .. 2 - 1 : j \notin naming
        BY <2>5
      <4>2. QED
        BY <2>3, <2>5, <4>1
    <3>2. Config(d, s) = g.env[s]
      BY <2>2, <2>5, ConfigAt
    <3>3. layers[2] = g.env
      OBVIOUS
    <3>4. naming # {}
      BY <2>5
    <3> HIDE DEF naming, layers, first
    <3>5. QED
      BY <3>1, <3>2, <3>3, <3>4
  <2>6. CASE 1 \notin naming /\ 2 \notin naming /\ 3 \in naming
    <3>1. first = 3
      <4>1. \A j \in 1 .. 3 - 1 : j \notin naming
        BY <2>6
      <4>2. QED
        BY <2>3, <2>6, <4>1
    <3>2. Config(d, s) = g.dotenv[s]
      BY <2>2, <2>6, ConfigAt
    <3>3. layers[3] = g.dotenv
      OBVIOUS
    <3>4. naming # {}
      BY <2>6
    <3> HIDE DEF naming, layers, first
    <3>5. QED
      BY <3>1, <3>2, <3>3, <3>4
  <2>7. CASE 1 \notin naming /\ 2 \notin naming /\ 3 \notin naming /\ 4 \in naming
    <3>1. first = 4
      <4>1. \A j \in 1 .. 4 - 1 : j \notin naming
        BY <2>7
      <4>2. QED
        BY <2>3, <2>7, <4>1
    <3>2. Config(d, s) = FirstFile(g.files)[s]
      BY <2>2, <2>7, ConfigAt
    <3>3. layers[4] = FirstFile(g.files)
      OBVIOUS
    <3>4. naming # {}
      BY <2>7
    <3> HIDE DEF naming, layers, first
    <3>5. QED
      BY <3>1, <3>2, <3>3, <3>4
  <2>8. CASE /\ 1 \notin naming /\ 2 \notin naming /\ 3 \notin naming /\ 4 \notin naming
             /\ 5 \in naming
    <3>1. first = 5
      <4>1. \A j \in 1 .. 5 - 1 : j \notin naming
        BY <2>8
      <4>2. QED
        BY <2>3, <2>8, <4>1
    <3>2. Config(d, s) = Default[s]
      BY <2>2, <2>8, ConfigAt DEF ValueOf
    <3>3. layers[5] = Default
      OBVIOUS
    <3>4. naming # {}
      BY <2>8
    <3> HIDE DEF naming, layers, first
    <3>5. QED
      BY <3>1, <3>2, <3>3, <3>4
  <2>9. CASE naming = {}
    BY <2>2, <2>9, ConfigAt DEF ValueOf
  <2>10. naming = {} \/ 1 \in naming \/ 2 \in naming \/ 3 \in naming \/ 4 \in naming \/ 5 \in naming
    BY <2>1
  <2> HIDE DEF naming
  <2>11. QED
    BY <2>4, <2>5, <2>6, <2>7, <2>8, <2>9, <2>10, Zenon
<1>2. QED
  BY <1>1, PTL

\* hugrsctl in a serving daemon's environment has its token, for any number of
\* daemons, starts and stops, unless two starts made the file at a time.
THEOREM ControlAlwaysFinds == StartSpec => []ControlFindsToken
<1>1. StartInv => ControlFindsToken
  <2> SUFFICES ASSUME StartInv, NEW d \in Daemon, at[d] = "serve",
                      LET g == given[d] IN
                      (DOMAIN g.cli \cup DOMAIN g.dotenv \cup DOMAIN FirstFile(g.files))
                        \cap AdminSettings = {},
                      FileOf(d) \notin rivals
               PROVE  ControlToken(given[d].env) = token[d]
    BY DEF ControlFindsToken
  <2> DEFINE env == given[d].env
  <2>1. "admin_token" \in AdminSettings /\ "admin_token_file" \in AdminSettings
    BY DEF AdminSettings
  <2>2. "admin_token" \in Setting /\ "admin_token_file" \in Setting
    BY <2>1 DEF Setting
  <2>3. Config(d, "admin_token") =
          IF "admin_token" \in DOMAIN env THEN env["admin_token"] ELSE "none"
    <3>1. ValueOf(Default, "admin_token") = "none"
      BY DEF ValueOf, Default
    <3>2. QED
      BY <2>1, <2>2, <3>1, ConfigAt
  <2>4. FileOf(d) = IF "admin_token_file" \in DOMAIN env THEN env["admin_token_file"]
                    ELSE Default["admin_token_file"]
    <3>1. ValueOf(Default, "admin_token_file") = Default["admin_token_file"]
      BY DEF ValueOf, Default
    <3>2. QED
      BY <2>1, <2>2, <3>1, ConfigAt DEF FileOf
  <2>5. "admin_token" \in DOMAIN env => env["admin_token"] # "none"
    BY StartAssumption DEF StartInv, StartTypeOK
  <2>6. CASE "admin_token" \in DOMAIN env
    BY <2>3, <2>5, <2>6 DEF StartInv, TokensAgree, ControlToken
  <2>7. CASE "admin_token" \notin DOMAIN env
    BY <2>3, <2>4, <2>7 DEF StartInv, TokensAgree, ControlToken
  <2>8. QED
    BY <2>6, <2>7
<1>2. QED
  BY <1>1, StartInvariant, PTL
=============================================================================
