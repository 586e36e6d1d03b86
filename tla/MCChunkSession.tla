--------------------------- MODULE MCChunkSession ---------------------------
(* A small instance of ChunkSession for TLC. *)
EXTENDS ChunkSession, TLC

CONSTANTS d1, p1, d2, m1, m2

\* Two actors ask for chunk 1, and a prefetch of the first for chunk 2.
MCMapOf == d1 :> m1 @@ p1 :> m1 @@ d2 :> m2
MCChunkOf == d1 :> 1 @@ p1 :> 2 @@ d2 :> 1
\* Chunk 1 is compressed, the rest is not.
MCPacked == {Whole(1)}
=============================================================================
