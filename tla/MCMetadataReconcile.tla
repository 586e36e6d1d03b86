------------------------ MODULE MCMetadataReconcile ------------------------
(* A small instance of MetadataReconcile for TLC. *)
EXTENDS MetadataReconcile, TLC

CONSTANTS r1, r2, r3, file, a, weakA, b

MCKeyOf == [r \in Request |-> file]

\* The same content under a weak etag, a new content, no etag.
MCEtagOf == <<a, weakA, b, NoEtag>>
MCNormal == a :> a @@ weakA :> a @@ b :> b
=============================================================================
