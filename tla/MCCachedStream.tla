--------------------------- MODULE MCCachedStream ---------------------------
(* A small instance of CachedStream for TLC. *)
EXTENDS CachedStream, TLC

CONSTANTS s1, s2

\* The file, a part that begins and ends inside chunks, one byte, and two
\* ranges that are cut or refused.
MCAsked == {<<0, 8>>, <<1, 6>>, <<5, 5>>, <<6, 12>>, <<9, 12>>}

\* The first and the third chunk have the same content.
MCShaOf == [i \in Chunk |-> IF i \in {0, 2} THEN s1 ELSE s2]
=============================================================================
