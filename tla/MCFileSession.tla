--------------------------- MODULE MCFileSession ---------------------------
(* Small instances of FileSession for TLC. *)
EXTENDS FileSession, TLC

\* Of five bytes in chunks of two, that is two chunks and a half: all but the first byte,
\* which begins inside a chunk, and the last half chunk.
MCRanges == {<<1, 4>>, <<4, 4>>}
=============================================================================
