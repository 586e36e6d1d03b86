------------------------- MODULE MCChunkLifecycle --------------------------
(* A small instance of ChunkLifecycle for TLC. *)
EXTENDS ChunkLifecycle, TLC

CONSTANTS n1, n2, r1, r2

\* Two repositories of one file each.
MCRepoOf == n1 :> r1 @@ n2 :> r2
=============================================================================
