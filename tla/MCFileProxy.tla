---------------------------- MODULE MCFileProxy ----------------------------
(* A small instance of FileProxy for TLC. *)
EXTENDS FileProxy, TLC

CONSTANTS file, a, b

MCKeyOf == [r \in Request |-> file]

\* A new content, then no etag.
MCEtagOf == <<a, b, NoEtag>>
MCNormal == a :> a @@ b :> b
=============================================================================
