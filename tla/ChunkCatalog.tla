---------------------------- MODULE ChunkCatalog ----------------------------
(***************************************************************************)
(* What the metadata database of hugrs promises to the rest of the server, *)
(* without reference counts, orphan marks or file rows: which chunk each   *)
(* slot (a file id and a chunk index) holds, and which chunks are still    *)
(* known.  A chunk may be collected only while no slot holds it.           *)
(***************************************************************************)
EXTENDS FiniteSets

CONSTANTS
  Slot,     \* (file id, chunk index) pairs
  Sha       \* content hashes of chunks

VARIABLES
  links,    \* the (slot, sha) pairs in force; a slot holds one chunk at most
  known     \* the chunks with a row

catalogVars == <<links, known>>

Held == {l[2] : l \in links}

CatalogInit ==
  /\ links = {}
  /\ known = {}

\* A stored chunk takes a slot, in place of the chunk that held it.
Record(k, s) ==
  /\ links' = {l \in links : l[1] # k} \cup {<<k, s>>}
  /\ known' = known \cup {s}

\* The slots of deleted files are emptied; their chunks stay known.
Forget(K) ==
  /\ links' = {l \in links : l[1] \notin K}
  /\ UNCHANGED known

\* Garbage collection of chunks that no slot holds.
Collect(S) ==
  /\ S \subseteq known \ Held
  /\ known' = known \ S
  /\ UNCHANGED links

CatalogNext ==
  \/ \E k \in Slot, s \in Sha : Record(k, s)
  \/ \E K \in SUBSET Slot : Forget(K)
  \/ \E S \in SUBSET Sha : Collect(S)

CatalogSpec == CatalogInit /\ [][CatalogNext]_catalogVars
=============================================================================
