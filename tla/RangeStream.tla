---------------------------- MODULE RangeStream ----------------------------
(***************************************************************************)
(* What the body of an answer promises its client (the ByteStream of       *)
(* src/session.rs and src/service.rs): the bytes of the range, in order    *)
(* and without a gap, then the end; or, after some of them, an error.      *)
(***************************************************************************)
EXTENDS Naturals

CONSTANT TotalSize   \* bytes of the file

VARIABLES
  status,   \* none, open, complete, failed, or left by the client
  range,    \* the first and the last byte asked for
  next      \* the first byte not sent yet

streamVars == <<status, range, next>>

Byte == 0 .. TotalSize - 1

StreamInit == status = "none" /\ range = <<0, 0>> /\ next = 0

Open ==
  /\ status = "none"
  /\ status' = "open"
  /\ range' \in {g \in Byte \X Byte : g[1] <= g[2]}
  /\ next' = range'[1]

\* More of the range, which may be all that was left.
Deliver ==
  /\ status = "open"
  /\ next' \in next + 1 .. range[2] + 1
  /\ \/ status' = "open"
     \/ status' = "complete" /\ next' = range[2] + 1
  /\ UNCHANGED range

\* An error instead of the rest, or nobody there to have it.
Close ==
  /\ status = "open"
  /\ status' \in {"failed", "left"}
  /\ UNCHANGED <<range, next>>

StreamNext == Open \/ Deliver \/ Close

StreamSpec == StreamInit /\ [][StreamNext]_streamVars
=============================================================================
