-------------------------- MODULE SchemaMigration --------------------------
(***************************************************************************)
(* A database written by a version before orphan marks existed, brought    *)
(* up to date at startup and then served and repaired.  Migration 005      *)
(* removes the files cached without headers, and takes one reference from  *)
(* every chunk they held however often they held it: the counts it leaves  *)
(* may be too high.  Migration 006 adds orphaned_at.  The repair endpoint  *)
(* (reconcile_chunk_refs) is what brings the counts back.                  *)
(***************************************************************************)
EXTENDS MetadataStore

VARIABLES
  headers,    \* which of etag and content_type a file row of schema 4 has
  schema,     \* the last migration applied; 007 only adds an index
  repaired    \* history: the repair ran since the migration

legacyVars == <<metaVars, headers, schema, repaired>>

Headers == {"none", "one", "both"}

\* A consistent database of schema 4; chunks of deleted files had no mark then.
LegacyInit ==
  /\ files \in [FileId -> Name \cup {NoName}]
  /\ \A f, g \in Live : files[f] = files[g] => f = g
  /\ nextId \in 1 .. MaxFileId + 1
  /\ \A f \in Live : f < nextId
  /\ fileChunks \in [Slot -> Sha \cup {NoSha}]
  /\ chunks \in SUBSET Sha
  /\ LinksResolve
  /\ refCount = [s \in Sha |-> Cardinality(Refs(s))]
  /\ orphanedAt = [s \in Sha |-> FALSE]
  /\ headers \in [FileId -> Headers]
  /\ schema = 4
  /\ repaired = FALSE

\* Mutant: OR for the AND of the UPDATE's WHERE, with the DELETEs as they are.
MissingSomeHeader == {f \in Live : headers[f] # "both"}

\* The join of the UPDATE of migration 005.
HeaderlessInUpdate == {f \in Live : headers[f] = "none"}

HeaderlessInDelete == {f \in Live : headers[f] = "none"}

\* Migration 005: one decrement a chunk, whatever the number of its rows.
CleanupHeaderlessFiles ==
  /\ schema = 4
  /\ schema' = 5
  /\ refCount' = [s \in Sha |->
                    IF RefsLost(HeaderlessInUpdate, s) > 0 THEN refCount[s] - 1
                    ELSE refCount[s]]
  /\ fileChunks' = [k \in Slot |-> IF k[1] \in HeaderlessInDelete THEN NoSha
                                   ELSE fileChunks[k]]
  /\ files' = [f \in FileId |-> IF f \in HeaderlessInDelete THEN NoName
                                ELSE files[f]]
  /\ UNCHANGED <<nextId, chunks, orphanedAt, headers, repaired>>

\* Mutant: the mark reaches chunks with a reference left.
LastReference(s) == refCount[s] <= 1

\* The WHERE of migration 006.
Unreferenced(s) == refCount[s] = 0

\* Migration 006
AddChunkOrphanedAt ==
  /\ schema = 5
  /\ schema' = 6
  /\ orphanedAt' = [s \in Sha |-> s \in chunks /\ Unreferenced(s)]
  /\ UNCHANGED <<files, nextId, fileChunks, chunks, refCount, headers, repaired>>

\* The server runs only on the latest schema.
Serve == /\ schema = 6
         /\ MetaOp
         /\ UNCHANGED <<headers, schema, repaired>>

Repair == /\ schema = 6
          /\ ReconcileChunkRefs
          /\ repaired' = TRUE
          /\ UNCHANGED <<headers, schema>>

LegacyNext == CleanupHeaderlessFiles \/ AddChunkOrphanedAt \/ Serve \/ Repair

LegacySpec == LegacyInit /\ [][LegacyNext]_legacyVars

-----------------------------------------------------------------------------
(* Properties: RefCountNeverLow and OrphanUnreferenced of MetadataStore, and *)

\* Once the repair has run, no later operation brings the drift back (the
\* design calls the endpoint the one repair of historical drift).
RepairedIsExact == repaired => RefCountExact
=============================================================================
