---------------------------- MODULE CachedStream ----------------------------
(***************************************************************************)
(* stream_cached_file (src/service.rs): a task of its own reads the chunks *)
(* of a complete file from the blob store and sends the bytes of the range *)
(* to the client, while up to prefetch_depth tasks read ahead.  Blobs are  *)
(* verified (verify_sha256, on by default), and bad ones deleted.          *)
(*                                                                         *)
(* The store is shared: a blob may go bad, be collected, or be stored      *)
(* again between any two steps.                                            *)
(***************************************************************************)
EXTENDS Integers, Sequences, FiniteSets

CONSTANTS
  ChunkSize,    \* CHUNK_SIZE
  TotalSize,    \* total_size of the row
  Asked,        \* the ranges <<range_start, range_end>> a request may name
  Depth,        \* prefetch_depth
  Capacity,     \* slots of the client's channel (32)
  Sha,          \* the hashes
  ShaOf         \* the hash each chunk of the file is linked to

ChunkCount == (TotalSize + ChunkSize - 1) \div ChunkSize
Chunk == 0 .. ChunkCount - 1

ASSUME CachedAssumption ==
  /\ ChunkSize \in Nat \ {0} /\ TotalSize \in Nat \ {0}
  /\ Asked \subseteq Nat \X Nat
  /\ Depth \in Nat /\ Capacity \in Nat \ {0}
  /\ ShaOf \in [Chunk -> Sha]

VARIABLES
  blobs,    \* what the store has under each hash
  pc,       \* where the streaming task is
  range,    \* start and end, once the range is found valid
  pos,      \* the chunk whose turn it is
  queue,    \* prefetches: the chunks of the tasks in it
  reader,   \* each chunk's read, by a prefetch task or by the streaming task
  hand,     \* the chunk whose read the streaming task awaits or holds
  unread,   \* messages in the channel
  client,   \* whether the client reads, has seen the end, or has left
  sent,     \* history: the byte ranges sent
  failed    \* history: an error was sent

storeVars == <<blobs>>
taskVars == <<pc, range, pos, queue, reader, hand>>
clientVars == <<unread, client, sent, failed>>
cachedVars == <<storeVars, taskVars, clientVars>>

FirstChunk == range[1] \div ChunkSize
LastChunk == range[2] \div ChunkSize
ChunkStart(i) == i * ChunkSize
Least(a, b) == IF a <= b THEN a ELSE b
Greatest(a, b) == IF a >= b THEN a ELSE b
ChunkEnd(i) == Least(ChunkStart(i) + ChunkSize, TotalSize) - 1

CachedInit ==
  /\ blobs \in [Sha -> {"absent", "sound", "bad"}]
  /\ pc = "idle"
  /\ range = <<0, 0>>
  /\ pos = 0
  /\ queue = <<>>
  /\ reader = [i \in Chunk |-> "none"]
  /\ hand = 0
  /\ unread = 0
  /\ client = "none"
  /\ sent = <<>>
  /\ failed = FALSE

-----------------------------------------------------------------------------
(* The request *)

\* Mutant: the last byte is not cut to the file's.
EndAsAsked(e) == e

End(e) == Least(e, TotalSize - 1)

\* A range that begins after it ends, or past the file, is refused.
Request ==
  /\ pc = "idle"
  /\ \E g \in Asked :
       LET r == <<g[1], End(g[2])>> IN
       IF r[1] > r[2]
       THEN pc' = "refused" /\ UNCHANGED <<range, pos, client>>
       ELSE /\ pc' = "take"
            /\ range' = r
            /\ pos' = r[1] \div ChunkSize
            /\ client' = "reading"
  /\ UNCHANGED <<storeVars, queue, reader, hand, unread, sent, failed>>

Receive ==
  /\ client = "reading" /\ unread > 0
  /\ unread' = unread - 1
  /\ UNCHANGED <<storeVars, taskVars, client, sent, failed>>

\* The channel is empty and its sender gone.
EndOfStream ==
  /\ client = "reading" /\ unread = 0 /\ pc = "done"
  /\ client' = "ended"
  /\ UNCHANGED <<storeVars, taskVars, unread, sent, failed>>

HangUp ==
  /\ client = "reading"
  /\ client' = "left"
  /\ unread' = 0
  /\ UNCHANGED <<storeVars, taskVars, sent, failed>>

-----------------------------------------------------------------------------
(* A read, by the streaming task or a prefetch task *)

\* backend.get, and the hash of what it returned.
Get(i) ==
  /\ reader[i] = "get"
  /\ reader' = [reader EXCEPT ![i] =
       CASE blobs[ShaOf[i]] = "absent" -> "failed"
         [] blobs[ShaOf[i]] = "sound"  -> "good"
         [] blobs[ShaOf[i]] = "bad"    -> "purge"]
  /\ UNCHANGED <<storeVars, clientVars, pc, range, pos, queue, hand>>

\* backend.get fails.
GetFails(i) ==
  /\ reader[i] = "get"
  /\ reader' = [reader EXCEPT ![i] = "failed"]
  /\ UNCHANGED <<storeVars, clientVars, pc, range, pos, queue, hand>>

\* backend.delete of a blob found bad, by its hash; an error is ignored.
Purge(i) ==
  /\ reader[i] = "purge"
  /\ reader' = [reader EXCEPT ![i] = "failed"]
  /\ \/ blobs' = [blobs EXCEPT ![ShaOf[i]] = "absent"]
     \/ blobs' = blobs
  /\ UNCHANGED <<clientVars, pc, range, pos, queue, hand>>

-----------------------------------------------------------------------------
(* The streaming task *)

\* The next prefetch, or a read of its own.
Take ==
  /\ pc = "take"
  /\ pc' = "await"
  /\ IF queue # <<>>
     THEN /\ hand' = Head(queue)
          /\ queue' = Tail(queue)
          /\ UNCHANGED reader
     ELSE /\ hand' = pos
          /\ reader' = [reader EXCEPT ![pos] = "get"]
          /\ UNCHANGED queue
  /\ UNCHANGED <<storeVars, clientVars, range, pos>>

\* Mutant: a failed prefetch is left out of the match.
AwaitGood ==
  /\ pc = "await"
  /\ reader[hand] = "good" /\ pc' = "ahead"
  /\ UNCHANGED <<storeVars, clientVars, range, pos, queue, reader, hand>>

\* The read in hand has ended.
Await ==
  /\ pc = "await"
  /\ \/ reader[hand] = "good" /\ pc' = "ahead"
     \/ reader[hand] = "failed" /\ pc' = "error"
  /\ UNCHANGED <<storeVars, clientVars, range, pos, queue, reader, hand>>

\* Mutant: <= for the < of the loop.
RoomForOneMore(n) == Greatest(0, Least(Depth + 1, LastChunk - pos) - n)

\* How many chunks the loop adds to a queue of n.
Room(n) == Greatest(0, Least(Depth, LastChunk - pos) - n)

\* Mutant: the tasks in the queue are not counted in.
NextAlways(n) == pos + 1

\* next_i, with n prefetches queued.
NextPrefetch(n) == pos + n + 1

\* The while loop that fills the queue.
ReadAhead ==
  LET n == Len(queue)
      m == Room(n) IN
  /\ pc = "ahead"
  /\ pc' = "send"
  /\ queue' = queue \o [k \in 1 .. m |-> NextPrefetch(n + k - 1)]
  /\ reader' = [i \in Chunk |->
       IF \E k \in 1 .. m : i = NextPrefetch(n + k - 1) THEN "get" ELSE reader[i]]
  /\ UNCHANGED <<storeVars, clientVars, range, pos, hand>>

\* The sender waits for a slot; a client that left makes it fail at once.
HasRoom == unread < Capacity \/ client = "left"

\* Mutant: the last byte of the range is left out.
SliceShort(i) ==
  <<Greatest(range[1], ChunkStart(i)), Least(range[2] - 1, ChunkEnd(i))>>

\* data[sl_start..sl_end], as bytes of the file: byte_offset is the start of the
\* chunk whose turn it is, the data are those of the chunk in hand.
Slice(i) ==
  LET shift == ChunkStart(i) - ChunkStart(pos) IN
  <<Greatest(range[1], ChunkStart(pos)) + shift, Least(range[2], ChunkEnd(pos)) + shift>>

Send ==
  /\ pc = "send" /\ HasRoom
  /\ IF client = "left"
     THEN pc' = "done" /\ UNCHANGED <<pos, unread, sent>>
     ELSE /\ sent' = Append(sent, Slice(hand))
          /\ unread' = unread + 1
          /\ pos' = pos + 1
          /\ pc' = IF pos = LastChunk THEN "done" ELSE "take"
  /\ UNCHANGED <<storeVars, range, queue, reader, hand, client, failed>>

\* The error goes to the client, and the task returns; its prefetches run on.
SendError ==
  /\ pc = "error" /\ HasRoom
  /\ pc' = "done"
  /\ failed' = (client # "left")
  /\ unread' = IF client = "left" THEN unread ELSE unread + 1
  /\ UNCHANGED <<storeVars, range, pos, queue, reader, hand, client, sent>>

-----------------------------------------------------------------------------
(* The store, as others use it *)

\* A blob goes bad, is collected, or is downloaded again.
Elsewhere(s) ==
  /\ \/ blobs[s] = "sound" /\ blobs' = [blobs EXCEPT ![s] = "bad"]
     \/ blobs[s] # "absent" /\ blobs' = [blobs EXCEPT ![s] = "absent"]
     \/ blobs[s] = "absent" /\ blobs' = [blobs EXCEPT ![s] = "sound"]
  /\ UNCHANGED <<taskVars, clientVars>>

TaskStep == Take \/ Await \/ ReadAhead \/ Send \/ SendError
ReadStep(i) == Get(i) \/ GetFails(i) \/ Purge(i)
ClientStep == Receive \/ EndOfStream

CachedNext ==
  \/ Request \/ ClientStep \/ HangUp \/ TaskStep
  \/ \E i \in Chunk : ReadStep(i)
  \/ \E s \in Sha : Elsewhere(s)

CachedSpec == CachedInit /\ [][CachedNext]_cachedVars

\* Tasks are polled, calls of the backend return, clients read or hang up.
CachedFairness ==
  /\ WF_cachedVars(TaskStep)
  /\ \A i \in Chunk : WF_cachedVars(ReadStep(i))
  /\ WF_cachedVars(ClientStep)
FairCachedSpec == CachedSpec /\ CachedFairness
-----------------------------------------------------------------------------
(* Properties *)

CachedTypeOK ==
  /\ blobs \in [Sha -> {"absent", "sound", "bad"}]
  /\ pc \in {"idle", "refused", "take", "await", "ahead", "send", "error", "done"}
  /\ range \in {g \in (0 .. TotalSize - 1) \X (0 .. TotalSize - 1) : g[1] <= g[2]}
  /\ pos \in 0 .. ChunkCount
  /\ queue \in Seq(Chunk)
  /\ reader \in [Chunk -> {"none", "get", "purge", "good", "failed"}]
  /\ hand \in Chunk
  /\ unread \in 0 .. Capacity
  /\ client \in {"none", "reading", "ended", "left"}
  /\ failed \in BOOLEAN

Reading == {i \in Chunk : reader[i] \in {"get", "purge"}}

\* However the reads are distributed over tasks, at most prefetch_depth of them
\* are ahead of the chunk whose turn it is, and none is made twice or beyond the
\* range: the queue is what comes next, in order (the VecDeque's indices are
\* not looked at when it is popped).
QueueInOrder ==
  LET ahead == IF pc = "take" THEN 0 ELSE 1 IN
  pc \in {"take", "await", "ahead", "send"} =>
    /\ pc # "take" => hand = pos
    /\ Len(queue) <= Least(Depth, LastChunk - pos + 1 - ahead)
    /\ \A k \in DOMAIN queue : queue[k] = pos + k - 1 + ahead

\* A stream has at most prefetch_depth reads under way at a time, or its own:
\* those that a failed stream leaves behind included.
ReadsBounded == Cardinality(Reading) <= Greatest(Depth, 1)

\* What RangeStream sees of it: the byte after those sent, or the start of the
\* range; and whether the task, when it returned early, found the client gone.
NextByte == IF sent = <<>> THEN range[1] ELSE sent[Len(sent)][2] + 1

Status ==
  CASE pc \in {"idle", "refused"} -> "none"
    [] pc = "done" -> IF failed THEN "failed"
                      ELSE IF client = "left" /\ NextByte <= range[2] THEN "left"
                      ELSE "complete"
    [] OTHER -> "open"

Promise == INSTANCE RangeStream WITH status <- Status, next <- NextByte

\* A client of a cached file gets its range in order and whole, or a part of it
\* and an error: bad blobs, missing ones and reads that overtake one another make
\* it shorter, never wrong.
ImplementsRangeStream == Promise!StreamSpec

\* A stream comes to an end whatever happens to the blobs, or its client leaves.
StreamEnds == client = "reading" ~> client # "reading"
=============================================================================
