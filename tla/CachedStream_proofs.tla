------------------------ MODULE CachedStream_proofs ------------------------
(***************************************************************************)
(* Proofs about CachedStream: for any file, ranges, prefetch depth and     *)
(* channel, and whatever happens to the blobs, a client has its range in   *)
(* order and whole or a part of it and an error, and the reads of a stream *)
(* stay bounded, those included that it leaves behind.                     *)
(***************************************************************************)
EXTENDS CachedStream, FiniteSetTheorems, TLAPS

Streaming == {"take", "await", "ahead", "send", "error"}

\* What is sent ends where the chunk whose turn it is begins; a stream that
\* ended without an error, its client there, is whole.
Progress ==
  /\ sent \in Seq(Int \X Int)
  /\ pc \in {"idle", "refused"} => sent = <<>> /\ range = <<0, 0>>
  /\ pc \in Streaming =>
       /\ pos \in FirstChunk .. LastChunk
       /\ NextByte = Greatest(range[1], ChunkStart(pos))
  /\ pc = "done" /\ ~failed /\ client # "left" => NextByte = range[2] + 1
  /\ failed => pc = "done"

\* Reads are those of the queue and of the chunk in hand: they fit in a window.
Window == Greatest(Depth, 1)

ReadsInWindow ==
  /\ pc \in {"await", "ahead"} => Len(queue) + 1 <= Window
  /\ pc \in {"idle", "refused"} => queue = <<>> /\ Reading = {}
  /\ pc = "take" => Reading \subseteq pos .. pos + Len(queue) - 1
  /\ pc = "await" => Reading \subseteq pos .. pos + Len(queue)
  /\ pc \in {"ahead", "send"} => Reading \subseteq pos + 1 .. pos + Len(queue)
  /\ pc \in {"error", "done"} => \E a \in Nat : Reading \subseteq a .. a + Window - 1

CachedInv == CachedTypeOK /\ QueueInOrder /\ Progress /\ ReadsInWindow

-----------------------------------------------------------------------------
(* The chunks of a range *)

LEMMA Products ==
  ASSUME NEW i \in Nat, NEW j \in Nat, NEW c \in Nat, i <= j
  PROVE  i * c \in Nat /\ j * c \in Nat /\ i * c <= j * c
<1>1. PICK e \in Nat : j = i + e
  BY j - i \in Nat, j = i + (j - i)
<1>2. j * c = i * c + e * c
  BY <1>1
<1>3. e * c \in Nat /\ i * c \in Nat
  BY <1>1
<1>4. QED
  BY <1>2, <1>3

LEMMA StartsGrow ==
  ASSUME NEW i \in Nat, NEW j \in Nat, i <= j
  PROVE  /\ ChunkStart(i) \in Nat /\ ChunkStart(j) \in Nat
         /\ ChunkStart(i) <= ChunkStart(j)
         /\ ChunkStart(i + 1) = ChunkStart(i) + ChunkSize
<1>1. ChunkSize \in Nat
  BY CachedAssumption
<1>2. (i + 1) * ChunkSize = i * ChunkSize + ChunkSize
  BY <1>1
<1>3. QED
  BY <1>1, <1>2, Products DEF ChunkStart

LEMMA ChunkOfByte ==
  ASSUME NEW b \in 0 .. TotalSize - 1
  PROVE  /\ b \div ChunkSize \in Chunk
         /\ ChunkStart(b \div ChunkSize) <= b
         /\ b < ChunkStart(b \div ChunkSize) + ChunkSize
<1> DEFINE q == b \div ChunkSize
<1>1. ChunkSize \in Nat \ {0} /\ TotalSize \in Nat \ {0} /\ b \in Nat /\ b <= TotalSize - 1
  BY CachedAssumption
<1>2. q \in Nat /\ q * ChunkSize <= b /\ b < q * ChunkSize + ChunkSize
  BY <1>1
<1>3. ChunkCount \in Nat /\ TotalSize <= ChunkCount * ChunkSize
  <2> DEFINE t == TotalSize + ChunkSize - 1
  <2>1. t \in Nat
    BY <1>1
  <2>2. t \div ChunkSize \in Nat /\ t < (t \div ChunkSize) * ChunkSize + ChunkSize
    <3> HIDE DEF t
    <3> QED BY <1>1, <2>1
  <2>3. ChunkCount = t \div ChunkSize
    BY DEF ChunkCount
  <2>4. ChunkCount * ChunkSize \in Nat
    BY <1>1, <2>2, <2>3
  <2>5. t < ChunkCount * ChunkSize + ChunkSize
    BY <2>2, <2>3
  <2>6. QED
    BY <1>1, <2>2, <2>3, <2>4, <2>5
<1>4. q < ChunkCount
  <2> HIDE DEF q
  <2> SUFFICES ASSUME ChunkCount <= q PROVE FALSE
    BY <1>2, <1>3
  <2>1. ChunkCount * ChunkSize <= q * ChunkSize /\ q * ChunkSize \in Nat /\ ChunkCount * ChunkSize \in Nat
    BY <1>1, <1>2, <1>3, Products
  <2>2. QED
    BY <1>1, <1>2, <1>3, <2>1
<1>5. QED
  BY <1>2, <1>3, <1>4 DEF Chunk, ChunkStart

\* The first and the last chunk of a range, and the bytes they hold.
LEMMA RangeChunks ==
  ASSUME CachedTypeOK
  PROVE  /\ range[1] \in 0 .. range[2] /\ range[2] \in 0 .. TotalSize - 1
         /\ FirstChunk \in Nat /\ LastChunk \in Chunk /\ LastChunk \in Nat
         /\ FirstChunk <= LastChunk
         /\ range[1] < ChunkStart(FirstChunk) + ChunkSize
         /\ ChunkStart(FirstChunk) <= range[1]
         /\ ChunkStart(LastChunk) <= range[2]
         /\ range[2] < ChunkStart(LastChunk) + ChunkSize
<1>1. range[1] \in 0 .. TotalSize - 1 /\ range[2] \in 0 .. TotalSize - 1 /\ range[1] <= range[2]
  BY DEF CachedTypeOK
<1>2. FirstChunk \in Chunk /\ LastChunk \in Chunk
  BY <1>1, ChunkOfByte DEF FirstChunk, LastChunk
<1>3. FirstChunk \in Nat /\ LastChunk \in Nat
  BY <1>2 DEF Chunk
<1>4. /\ range[1] < ChunkStart(FirstChunk) + ChunkSize
      /\ ChunkStart(FirstChunk) <= range[1]
      /\ ChunkStart(LastChunk) <= range[2]
      /\ range[2] < ChunkStart(LastChunk) + ChunkSize
  BY <1>1, ChunkOfByte DEF FirstChunk, LastChunk
<1>5. FirstChunk <= LastChunk
  <2> SUFFICES ASSUME LastChunk + 1 <= FirstChunk PROVE FALSE
    BY <1>3
  <2>1. ChunkStart(LastChunk + 1) <= ChunkStart(FirstChunk)
    BY <1>3, StartsGrow
  <2>2. ChunkStart(LastChunk + 1) = ChunkStart(LastChunk) + ChunkSize
    BY <1>3, StartsGrow
  <2>3. ChunkStart(LastChunk) \in Nat /\ ChunkStart(FirstChunk) \in Nat
    BY <1>3, StartsGrow
  <2>4. QED
    BY <1>1, <1>4, <2>1, <2>2, <2>3, CachedAssumption
<1>6. QED
  BY <1>1, <1>2, <1>3, <1>4, <1>5, CachedAssumption

LEMMA RangeBegins ==
  CachedTypeOK =>
    /\ FirstChunk \in Nat /\ LastChunk \in Nat /\ FirstChunk <= LastChunk
    /\ ChunkStart(FirstChunk) <= range[1] /\ range[1] \in Nat
BY RangeChunks

\* The task is always somewhere before the end of its range.
LEMMA NextWithin ==
  ASSUME CachedTypeOK, Progress, pc \in Streaming
  PROVE  /\ pos \in Nat /\ pos <= LastChunk /\ FirstChunk <= pos
         /\ ChunkStart(pos) \in Nat
         /\ NextByte \in range[1] .. range[2]
<1>1. pos \in FirstChunk .. LastChunk /\ NextByte = Greatest(range[1], ChunkStart(pos))
  BY DEF Progress
<1>2. pos \in Nat /\ pos <= LastChunk /\ FirstChunk <= pos
  BY <1>1, RangeChunks
<1>3. ChunkStart(pos) \in Nat /\ ChunkStart(pos) <= ChunkStart(LastChunk)
  BY <1>2, RangeChunks, StartsGrow
<1>4. ChunkStart(LastChunk) <= range[2] /\ range[1] \in Nat /\ range[2] \in Nat /\ range[1] <= range[2]
  BY RangeChunks
<1>5. ChunkStart(LastChunk) \in Nat
  BY RangeChunks, StartsGrow
<1>6. NextByte = IF range[1] >= ChunkStart(pos) THEN range[1] ELSE ChunkStart(pos)
  BY <1>1 DEF Greatest
<1>7. QED
  BY <1>2, <1>3, <1>4, <1>5, <1>6

\* What is sent next begins at the next byte, and ends where the range does or the
\* next chunk begins.
LEMMA NextSlice ==
  ASSUME CachedTypeOK, Progress, pc = "send", hand = pos
  PROVE  /\ pos = LastChunk => Slice(hand) = <<NextByte, range[2]>>
         /\ pos # LastChunk =>
              /\ Slice(hand) = <<NextByte, ChunkStart(pos + 1) - 1>>
              /\ NextByte < ChunkStart(pos + 1)
              /\ ChunkStart(pos + 1) <= range[2]
              /\ Greatest(range[1], ChunkStart(pos + 1)) = ChunkStart(pos + 1)
<1>1. pc \in Streaming
  BY DEF Streaming
<1>2. /\ pos \in Nat /\ pos <= LastChunk /\ FirstChunk <= pos
      /\ ChunkStart(pos) \in Nat /\ NextByte \in range[1] .. range[2]
  BY <1>1, NextWithin
<1>3. NextByte = Greatest(range[1], ChunkStart(pos))
  BY <1>1 DEF Progress
<1>4. ChunkStart(pos + 1) = ChunkStart(pos) + ChunkSize
  BY <1>2, StartsGrow
<1>5. ChunkSize \in Nat \ {0} /\ TotalSize \in Nat \ {0}
  BY CachedAssumption
<1>6. range[1] \in Nat /\ range[2] \in Nat /\ range[2] <= TotalSize - 1
  BY <1>5, RangeChunks
<1>7. range[1] < ChunkStart(pos + 1)
  <2>1. range[1] < ChunkStart(FirstChunk) + ChunkSize /\ FirstChunk \in Nat
    BY RangeChunks
  <2>2. ChunkStart(FirstChunk) <= ChunkStart(pos) /\ ChunkStart(FirstChunk) \in Nat
    BY <1>2, <2>1, StartsGrow
  <2>3. QED
    BY <1>2, <1>4, <1>5, <1>6, <2>1, <2>2
<1>8. Slice(hand) = <<NextByte, Least(range[2], ChunkEnd(pos))>>
  <2> DEFINE e == Least(range[2], ChunkEnd(pos))
  <2>1. ChunkEnd(pos) \in Int
    BY <1>2, <1>5 DEF ChunkEnd, Least
  <2>2. e \in Int
    BY <1>6, <2>1 DEF Least
  <2>3. Slice(hand) = <<NextByte + (ChunkStart(pos) - ChunkStart(pos)), e + (ChunkStart(pos) - ChunkStart(pos))>>
    BY <1>3 DEF Slice
  <2>4. NextByte + (ChunkStart(pos) - ChunkStart(pos)) = NextByte
    BY <1>2, <1>6
  <2>5. e + (ChunkStart(pos) - ChunkStart(pos)) = e
    <3> HIDE DEF e
    <3> QED BY <1>2, <2>2
  <2>6. QED
    BY <2>3, <2>4, <2>5
<1>9. CASE pos = LastChunk
  <2>1. range[2] < ChunkStart(pos) + ChunkSize
    BY <1>9, RangeChunks
  <2>2. Least(range[2], ChunkEnd(pos)) = range[2]
    BY <1>2, <1>5, <1>6, <2>1 DEF ChunkEnd, Least
  <2>3. QED
    BY <1>8, <1>9, <2>2
<1>10. CASE pos # LastChunk
  <2>1. LastChunk \in Nat /\ ChunkStart(LastChunk) <= range[2]
    BY RangeChunks
  <2>2. pos + 1 <= LastChunk /\ pos + 1 \in Nat
    BY <1>2, <1>10, <2>1
  <2>3. ChunkStart(pos + 1) <= ChunkStart(LastChunk) /\ ChunkStart(pos + 1) \in Nat /\ ChunkStart(LastChunk) \in Nat
    BY <2>1, <2>2, StartsGrow
  <2>4. ChunkStart(pos + 1) <= range[2]
    BY <1>6, <2>1, <2>3
  <2>5. ChunkEnd(pos) = ChunkStart(pos + 1) - 1
    BY <1>2, <1>4, <1>5, <1>6, <2>4 DEF ChunkEnd, Least
  <2>6. Least(range[2], ChunkEnd(pos)) = ChunkStart(pos + 1) - 1
    BY <1>6, <2>3, <2>4, <2>5 DEF Least
  <2>7. NextByte < ChunkStart(pos + 1)
    BY <1>2, <1>3, <1>4, <1>5, <1>6, <1>7 DEF Greatest
  <2>8. Greatest(range[1], ChunkStart(pos + 1)) = ChunkStart(pos + 1)
    BY <1>6, <1>7, <2>3 DEF Greatest
  <2>9. QED
    BY <1>8, <1>10, <2>4, <2>6, <2>7, <2>8
<1>11. QED
  BY <1>9, <1>10

-----------------------------------------------------------------------------
(* Reading ahead *)

LEMMA Joined ==
  ASSUME NEW S, NEW s \in Seq(S), NEW t \in Seq(S)
  PROVE  /\ s \o t \in Seq(S) /\ Len(s \o t) = Len(s) + Len(t)
         /\ \A k \in 1 .. Len(s) : (s \o t)[k] = s[k]
         /\ \A k \in 1 .. Len(t) : (s \o t)[Len(s) + k] = t[k]
<1>1. s \o t \in Seq(S)
  OBVIOUS
<1>2. Len(s \o t) = Len(s) + Len(t)
  OBVIOUS
<1>3. \A k \in 1 .. Len(s) : (s \o t)[k] = s[k]
  OBVIOUS
<1>4. \A k \in 1 .. Len(t) : (s \o t)[Len(s) + k] = t[k]
  OBVIOUS
<1>5. QED
  BY <1>1, <1>2, <1>3, <1>4

LEMMA Extended ==
  ASSUME NEW S, NEW s \in Seq(S), NEW x \in S
  PROVE  /\ Append(s, x) \in Seq(S) /\ Append(s, x) # <<>>
         /\ Append(s, x)[Len(Append(s, x))] = x
<1>1. Append(s, x) \in Seq(S) /\ Len(Append(s, x)) = Len(s) + 1 /\ Len(s) \in Nat
  OBVIOUS
<1>2. Append(s, x)[Len(s) + 1] = x
  OBVIOUS
<1>3. Append(s, x) # <<>>
  BY <1>1
<1>4. QED
  BY <1>1, <1>2, <1>3

\* The loop keeps the chunks of the queue in order, within the range and the depth.
LEMMA QueueAfterLoop ==
  ASSUME CachedInv, ReadAhead
  PROVE  /\ queue' \in Seq(Chunk)
         /\ reader' \in [Chunk -> {"none", "get", "purge", "good", "failed"}]
         /\ Len(queue') <= Least(Depth, LastChunk - pos)
         /\ \A k \in DOMAIN queue' : queue'[k] = pos + k
         /\ Reading' \subseteq pos + 1 .. pos + Len(queue')
<1> DEFINE n == Len(queue)
           m == Room(n)
           added == [k \in 1 .. m |-> NextPrefetch(n + k - 1)]
<1>1. /\ pos \in Nat /\ pos <= LastChunk /\ LastChunk \in Nat /\ Depth \in Nat
      /\ \A i \in Nat : i <= LastChunk => i \in Chunk
  <2>1. pc \in Streaming /\ CachedTypeOK /\ Progress
    BY DEF ReadAhead, Streaming, CachedInv
  <2>2. LastChunk \in Chunk
    BY <2>1, RangeChunks
  <2>3. ChunkCount \in Int
    BY CachedAssumption DEF ChunkCount
  <2>4. pos \in Nat /\ pos <= LastChunk /\ LastChunk \in Nat
    BY <2>1, NextWithin, RangeChunks
  <2>5. \A i \in Nat : i <= LastChunk => i \in Chunk
    BY <2>2, <2>3, <2>4 DEF Chunk
  <2>6. QED
    BY <2>4, <2>5, CachedAssumption
<1>2. queue \in Seq(Chunk) /\ n \in Nat /\ DOMAIN queue = 1 .. n
  BY DEF CachedInv, CachedTypeOK
<1>3. n <= Least(Depth, LastChunk - pos) /\ \A k \in 1 .. n : queue[k] = pos + k
  <2>1. /\ n <= Least(Depth, LastChunk - pos + 1 - 1)
        /\ \A k \in DOMAIN queue : queue[k] = pos + k - 1 + 1
    BY DEF CachedInv, QueueInOrder, ReadAhead
  <2>2. LastChunk - pos + 1 - 1 = LastChunk - pos
    BY <1>1
  <2>3. \A k \in 1 .. n : pos + k - 1 + 1 = pos + k
    BY <1>1
  <2>4. QED
    BY <1>2, <2>1, <2>2, <2>3
<1>4. m \in Nat /\ m + n = Least(Depth, LastChunk - pos) /\ pos + n + m <= LastChunk
  <2> DEFINE l == Least(Depth, LastChunk - pos)
  <2>1. l \in Nat /\ l <= LastChunk - pos
    BY <1>1 DEF Least
  <2>2. n <= l /\ m = IF 0 >= l - n THEN 0 ELSE l - n
    BY <1>3 DEF Room, Greatest
  <2> HIDE DEF l, m, n
  <2>3. m \in Nat /\ m + n = l
    BY <1>2, <2>1, <2>2
  <2>4. QED
    BY <1>1, <1>2, <2>1, <2>3 DEF l
<1>5. queue' = queue \o added
  BY DEF ReadAhead
<1> HIDE DEF m
<1>6. added \in Seq(Chunk) /\ Len(added) = m /\ \A k \in 1 .. m : added[k] = pos + n + k
  <2>1. \A k \in 1 .. m : NextPrefetch(n + k - 1) = pos + n + k /\ pos + n + k \in Chunk
    BY <1>1, <1>2, <1>4 DEF NextPrefetch
  <2> HIDE DEF n
  <2>2. added \in [1 .. m -> Chunk]
    BY <2>1
  <2>3. added \in Seq(Chunk) /\ DOMAIN added = 1 .. m
    BY <1>4, <2>2
  <2>4. Len(added) = m
    BY <1>4, <2>3
  <2>5. \A k \in 1 .. m : added[k] = pos + n + k
    BY <2>1
  <2>6. QED
    BY <2>3, <2>4, <2>5
<1> HIDE DEF added, n
<1>7. queue' \in Seq(Chunk) /\ Len(queue') = n + m
  <2>1. queue \o added \in Seq(Chunk) /\ Len(queue \o added) = Len(queue) + Len(added)
    BY <1>2, <1>6, Joined
  <2>2. n = Len(queue)
    BY DEF n
  <2>3. QED
    BY <1>5, <1>6, <2>1, <2>2, Zenon
<1>8. \A k \in DOMAIN queue' : queue'[k] = pos + k
  <2> SUFFICES ASSUME NEW k \in 1 .. n + m PROVE queue'[k] = pos + k
    <3>1. DOMAIN queue' = 1 .. n + m
      BY <1>7
    <3>2. QED
      BY <3>1
  <2>0. n = Len(queue) /\ m = Len(added)
    BY <1>6 DEF n
  <2>1. CASE k <= n
    <3>1. k \in 1 .. n
      BY <1>2, <2>1
    <3>2. queue'[k] = queue[k]
      BY <1>2, <1>5, <1>6, <2>0, <3>1, Joined
    <3>3. QED
      BY <1>3, <3>1, <3>2
  <2>2. CASE k > n
    <3>1. k - n \in 1 .. m /\ k = n + (k - n)
      BY <1>2, <1>4, <2>2
    <3>2. queue'[n + (k - n)] = added[k - n]
      BY <1>2, <1>5, <1>6, <2>0, <3>1, Joined
    <3>3. queue'[k] = pos + n + (k - n)
      BY <1>6, <3>1, <3>2
    <3>4. QED
      BY <1>1, <1>2, <3>3
  <2>3. QED
    BY <1>2, <2>1, <2>2
<1>9. reader' = [i \in Chunk |->
        IF \E k \in 1 .. m : i = NextPrefetch(n + k - 1) THEN "get" ELSE reader[i]]
  BY DEF ReadAhead, m, n
<1>10. reader' \in [Chunk -> {"none", "get", "purge", "good", "failed"}]
  BY <1>9 DEF CachedInv, CachedTypeOK
<1>11. Reading' \subseteq pos + 1 .. pos + Len(queue')
  <2> SUFFICES ASSUME NEW i \in Chunk, reader'[i] \in {"get", "purge"}
               PROVE  i \in pos + 1 .. pos + n + m
    BY <1>1, <1>2, <1>4, <1>7 DEF Reading
  <2>1. CASE \E k \in 1 .. m : i = NextPrefetch(n + k - 1)
    BY <1>1, <1>2, <1>4, <2>1 DEF NextPrefetch
  <2>2. CASE reader[i] \in {"get", "purge"}
    <3>1. Reading \subseteq pos + 1 .. pos + n
      BY DEF CachedInv, ReadsInWindow, ReadAhead, n
    <3>2. QED
      BY <1>1, <1>2, <1>4, <2>2, <3>1 DEF Reading
  <2>3. QED
    BY <1>9, <2>1, <2>2
<1>12. QED
  BY <1>4, <1>7, <1>8, <1>10, <1>11, <1>1, <1>2

-----------------------------------------------------------------------------
(* Types *)

LEMMA TypeInit == CachedInit => CachedTypeOK
<1> SUFFICES ASSUME CachedInit PROVE CachedTypeOK
  OBVIOUS
<1>1. 0 \in 0 .. TotalSize - 1 /\ 0 \in 0 .. Capacity
  BY CachedAssumption
<1>2. 0 \in Chunk /\ ChunkCount \in Nat
  <2>1. ChunkCount \in Int
    BY CachedAssumption DEF ChunkCount
  <2>2. 0 \div ChunkSize \in Chunk
    BY <1>1, ChunkOfByte
  <2>3. 0 \div ChunkSize \in 0 .. ChunkCount - 1
    BY <2>2 DEF Chunk
  <2>4. QED
    BY <2>1, <2>3 DEF Chunk
<1>3. <<0, 0>> \in {g \in (0 .. TotalSize - 1) \X (0 .. TotalSize - 1) : g[1] <= g[2]}
  BY <1>1
<1>4. QED
  BY <1>1, <1>2, <1>3 DEF CachedInit, CachedTypeOK

LEMMA TypeStep == CachedInv /\ [CachedNext]_cachedVars => CachedTypeOK'
<1> SUFFICES ASSUME CachedInv, [CachedNext]_cachedVars PROVE CachedTypeOK'
  OBVIOUS
<1> USE DEF CachedInv, CachedTypeOK
<1>1. Capacity \in Nat \ {0} /\ ChunkCount \in Nat /\ \A i \in Chunk : i \in 0 .. ChunkCount
  BY CachedAssumption DEF ChunkCount, Chunk
<1>2. CASE Request
  <2>1. PICK g \in Asked :
          LET r == <<g[1], End(g[2])>> IN
          IF r[1] > r[2]
          THEN pc' = "refused" /\ UNCHANGED <<range, pos, client>>
          ELSE /\ pc' = "take" /\ range' = r
               /\ pos' = r[1] \div ChunkSize /\ client' = "reading"
    BY <1>2 DEF Request
  <2>2. g[1] \in Nat /\ g[2] \in Nat /\ End(g[2]) \in 0 .. TotalSize - 1
    BY CachedAssumption DEF End, Least
  <2>3. CASE g[1] > End(g[2])
    <3>1. pc' = "refused" /\ UNCHANGED <<range, pos, client>>
      BY <2>1, <2>2, <2>3
    <3>2. UNCHANGED <<blobs, queue, reader, hand, unread, failed>>
      BY <1>2 DEF Request, storeVars
    <3>3. QED
      BY <3>1, <3>2
  <2>4. CASE g[1] <= End(g[2])
    <3>1. g[1] \in 0 .. TotalSize - 1
      BY <2>2, <2>4, CachedAssumption
    <3>2. g[1] \div ChunkSize \in 0 .. ChunkCount
      BY <1>1, <3>1, ChunkOfByte
    <3>3. range' = <<g[1], End(g[2])>> /\ pc' = "take" /\ pos' = g[1] \div ChunkSize /\ client' = "reading"
      BY <2>1, <2>2, <2>4
    <3>4. range' \in {h \in (0 .. TotalSize - 1) \X (0 .. TotalSize - 1) : h[1] <= h[2]}
      BY <2>2, <2>4, <3>1, <3>3
    <3>5. UNCHANGED <<blobs, queue, reader, hand, unread, failed>>
      BY <1>2 DEF Request, storeVars
    <3>6. pos' \in 0 .. ChunkCount
      BY <3>2, <3>3
    <3>7. QED
      BY <3>3, <3>4, <3>5, <3>6
  <2>5. g[1] > End(g[2]) \/ g[1] <= End(g[2])
    BY <2>2
  <2>6. QED
    BY <2>3, <2>4, <2>5, Zenon
<1>3. CASE Receive
  BY <1>3, <1>1 DEF Receive, storeVars, taskVars
<1>4. CASE EndOfStream
  BY <1>4 DEF EndOfStream, storeVars, taskVars
<1>5. CASE HangUp
  BY <1>5, <1>1 DEF HangUp, storeVars, taskVars
<1>6. CASE Take
  <2>1. pos \in Chunk
    <3>1. pc \in Streaming
      BY <1>6 DEF Take, Streaming
    <3>2. pos \in Nat /\ pos <= LastChunk /\ LastChunk \in Chunk
      BY <3>1, NextWithin, RangeChunks
    <3>3. QED
      BY <3>2, <1>1 DEF Chunk
  <2>2. pc' = "await" /\ UNCHANGED <<blobs, range, pos, unread, client, failed>>
    BY <1>6 DEF Take, storeVars, clientVars
  <2>3. CASE queue # <<>>
    <3>1. hand' = Head(queue) /\ queue' = Tail(queue) /\ UNCHANGED reader
      BY <1>6, <2>3 DEF Take
    <3>2. queue \in Seq(Chunk)
      OBVIOUS
    <3>3. hand' \in Chunk /\ queue' \in Seq(Chunk)
      BY <2>3, <3>1, <3>2
    <3>4. QED
      BY <2>2, <3>1, <3>3
  <2>4. CASE queue = <<>>
    <3>1. /\ hand' = pos /\ UNCHANGED queue
          /\ reader' = [reader EXCEPT ![pos] = "get"]
      BY <1>6, <2>4 DEF Take
    <3>2. reader' \in [Chunk -> {"none", "get", "purge", "good", "failed"}]
      BY <3>1
    <3>3. QED
      BY <2>1, <2>2, <3>1, <3>2
  <2>5. QED
    BY <2>3, <2>4
<1>7. CASE Await
  BY <1>7 DEF Await, storeVars, clientVars
<1>8. CASE ReadAhead
  <2>1. /\ queue' \in Seq(Chunk)
        /\ reader' \in [Chunk -> {"none", "get", "purge", "good", "failed"}]
    BY <1>8, QueueAfterLoop
  <2>2. pc' = "send" /\ UNCHANGED <<blobs, range, pos, hand, unread, client, failed>>
    BY <1>8 DEF ReadAhead, storeVars, clientVars
  <2>3. QED
    BY <2>1, <2>2
<1>9. CASE Send
  <2>1. client # "left" => pos + 1 \in 0 .. ChunkCount /\ unread + 1 \in 0 .. Capacity
    <3>1. pc \in Streaming
      BY <1>9 DEF Send, Streaming
    <3>2. pos \in Nat /\ pos <= LastChunk /\ LastChunk \in Chunk
      BY <3>1, NextWithin, RangeChunks
    <3>3. QED
      BY <1>1, <1>9, <3>2 DEF Chunk, Send, HasRoom
  <2>2. QED
    BY <1>9, <2>1 DEF Send, storeVars
<1>10. CASE SendError
  BY <1>1, <1>10 DEF SendError, HasRoom, storeVars
<1>11. ASSUME NEW i \in Chunk, ReadStep(i) PROVE CachedTypeOK'
  <2>1. UNCHANGED <<pc, range, pos, queue, hand, unread, client, failed>>
    BY <1>11 DEF ReadStep, Get, GetFails, Purge, clientVars
  <2>2. \E r \in {"purge", "good", "failed"} : reader' = [reader EXCEPT ![i] = r]
    <3>1. \/ blobs[ShaOf[i]] = "absent"
          \/ blobs[ShaOf[i]] = "sound"
          \/ blobs[ShaOf[i]] = "bad"
      BY CachedAssumption
    <3>2. QED
      BY <1>11, <3>1 DEF ReadStep, Get, GetFails, Purge
  <2>3. blobs' = blobs \/ blobs' = [blobs EXCEPT ![ShaOf[i]] = "absent"]
    BY <1>11 DEF ReadStep, Get, GetFails, Purge, storeVars
  <2>4. reader' \in [Chunk -> {"none", "get", "purge", "good", "failed"}]
    BY <2>2
  <2>5. blobs' \in [Sha -> {"absent", "sound", "bad"}]
    BY <2>3
  <2>6. QED
    BY <2>1, <2>4, <2>5
<1>12. ASSUME NEW s \in Sha, Elsewhere(s) PROVE CachedTypeOK'
  BY <1>12 DEF Elsewhere, taskVars, clientVars
<1>13. CASE UNCHANGED cachedVars
  BY <1>13 DEF cachedVars, storeVars, taskVars, clientVars
<1>14. QED
  BY <1>2, <1>3, <1>4, <1>5, <1>6, <1>7, <1>8, <1>9, <1>10, <1>11, <1>12, <1>13
     DEF CachedNext, TaskStep, ClientStep

-----------------------------------------------------------------------------
(* The queue *)

LEMMA QueueStep == CachedInv /\ [CachedNext]_cachedVars => QueueInOrder'
<1> SUFFICES ASSUME CachedInv, [CachedNext]_cachedVars PROVE QueueInOrder'
  OBVIOUS
<1>1. /\ pos \in 0 .. ChunkCount /\ pos \in Int /\ LastChunk \in Nat /\ Depth \in Nat
      /\ queue \in Seq(Chunk)
  BY RangeChunks, CachedAssumption DEF CachedInv, CachedTypeOK, ChunkCount
<1>2. CASE Request
  <2>1. CASE pc' = "refused"
    BY <2>1 DEF QueueInOrder
  <2>2. CASE pc' # "refused"
    <3>1. queue' = <<>> /\ pc' = "take"
      BY <1>2, <2>2 DEF Request, CachedInv, ReadsInWindow
    <3>2. pos' = FirstChunk' /\ CachedTypeOK'
      BY <1>2, <2>2, TypeStep DEF Request, FirstChunk, CachedNext
    <3>3. pos' <= LastChunk' /\ pos' \in Nat /\ LastChunk' \in Nat
      <4>1. (CachedTypeOK =>
              /\ FirstChunk \in Nat /\ LastChunk \in Nat /\ FirstChunk <= LastChunk
              /\ ChunkStart(FirstChunk) <= range[1] /\ range[1] \in Nat)'
        BY RangeBegins, PTL
      <4>2. QED
        BY <3>2, <4>1
    <3>4. 0 <= Least(Depth, LastChunk' - pos' + 1 - 0)
      <4>1. \A a \in Nat, b \in Nat : a <= b => 0 <= Least(Depth, b - a + 1 - 0)
        BY <1>1 DEF Least
      <4>2. QED
        BY <3>3, <4>1
    <3>5. QED
      BY <3>1, <3>4 DEF QueueInOrder
  <2>3. QED
    BY <2>1, <2>2
<1>3. CASE Take
  <2>1. /\ pc = "take" /\ pc' = "await" /\ pos' = pos /\ range' = range /\ LastChunk' = LastChunk
        /\ pos <= LastChunk
    BY <1>3, NextWithin DEF Take, LastChunk, CachedInv, Streaming
  <2>2. /\ Len(queue) <= Least(Depth, LastChunk - pos + 1 - 0)
        /\ \A k \in DOMAIN queue : queue[k] = pos + k - 1 + 0
    BY <2>1 DEF CachedInv, QueueInOrder
  <2>3. CASE queue = <<>>
    <3>1. queue' = <<>> /\ hand' = pos'
      BY <1>3, <2>3, <2>1 DEF Take
    <3>2. 0 <= Least(Depth, LastChunk - pos + 1 - 1)
      BY <1>1, <2>1 DEF Least
    <3>3. QED
      BY <2>1, <3>1, <3>2 DEF QueueInOrder
  <2>4. CASE queue # <<>>
    <3>1. queue' = Tail(queue) /\ hand' = Head(queue)
      BY <1>3, <2>4 DEF Take
    <3>2. Len(queue) \in Nat \ {0} /\ Len(queue') = Len(queue) - 1 /\ queue' \in Seq(Chunk)
      BY <1>1, <2>4, <3>1
    <3>3. hand' = pos
      <4>1. Head(queue) = queue[1] /\ 1 \in DOMAIN queue
        BY <1>1, <2>4, <3>2
      <4>2. QED
        BY <1>1, <2>2, <3>1, <4>1
    <3>4. Len(queue') <= Least(Depth, LastChunk - pos + 1 - 1)
      BY <1>1, <2>1, <2>2, <3>2 DEF Least
    <3>5. \A k \in DOMAIN queue' : queue'[k] = pos + k - 1 + 1
      <4> SUFFICES ASSUME NEW k \in DOMAIN queue' PROVE queue'[k] = pos + k - 1 + 1
        OBVIOUS
      <4>1. k \in 1 .. Len(queue) - 1
        BY <3>2
      <4>2. queue'[k] = queue[k + 1] /\ k + 1 \in DOMAIN queue
        BY <1>1, <3>1, <3>2, <4>1
      <4>3. queue[k + 1] = pos + (k + 1) - 1 + 0
        BY <2>2, <4>2
      <4>4. QED
        BY <1>1, <4>1, <4>2, <4>3
    <3>6. QED
      BY <2>1, <3>3, <3>4, <3>5 DEF QueueInOrder
  <2>5. QED
    BY <2>3, <2>4
<1>4. CASE Await
  BY <1>4 DEF Await, CachedInv, QueueInOrder, LastChunk
<1>5. CASE ReadAhead
  <2>1. /\ pc = "ahead" /\ pc' = "send" /\ pos' = pos /\ hand' = hand /\ LastChunk' = LastChunk
        /\ hand = pos
    BY <1>5 DEF ReadAhead, CachedInv, QueueInOrder, LastChunk
  <2>2. Len(queue') <= Least(Depth, LastChunk - pos + 1 - 1)
    <3>1. LastChunk - pos + 1 - 1 = LastChunk - pos
      BY <1>1
    <3>2. QED
      BY <1>5, <3>1, QueueAfterLoop
  <2>3. \A k \in DOMAIN queue' : queue'[k] = pos + k - 1 + 1
    <3>1. queue' \in Seq(Chunk) /\ \A k \in DOMAIN queue' : queue'[k] = pos + k
      BY <1>5, QueueAfterLoop
    <3>2. \A k \in DOMAIN queue' : k \in Nat
      BY <3>1
    <3>3. QED
      BY <1>1, <3>1, <3>2
  <2>4. QED
    BY <2>1, <2>2, <2>3 DEF QueueInOrder
<1>6. CASE Send
  <2>1. CASE pc' = "done"
    BY <2>1 DEF QueueInOrder
  <2>2. CASE pc' # "done"
    <3>1. /\ pc = "send" /\ pc' = "take" /\ pos' = pos + 1 /\ queue' = queue /\ LastChunk' = LastChunk
          /\ pos # LastChunk
      BY <1>6, <2>2 DEF Send, LastChunk
    <3>2. /\ Len(queue) <= Least(Depth, LastChunk - pos + 1 - 1)
          /\ \A k \in DOMAIN queue : queue[k] = pos + k - 1 + 1
      BY <3>1 DEF CachedInv, QueueInOrder
    <3>3. LastChunk - pos + 1 - 1 = LastChunk - (pos + 1) + 1 - 0
      BY <1>1
    <3>4. \A k \in DOMAIN queue : k \in Nat
      BY <1>1
    <3>5. \A k \in DOMAIN queue : pos + k - 1 + 1 = (pos + 1) + k - 1 + 0
      BY <1>1, <3>4
    <3>6. QED
      BY <3>1, <3>2, <3>3, <3>5 DEF QueueInOrder
  <2>3. QED
    BY <2>1, <2>2
<1>7. CASE SendError
  BY <1>7 DEF SendError, QueueInOrder
<1>8. CASE Receive \/ EndOfStream \/ HangUp
  BY <1>8 DEF Receive, EndOfStream, HangUp, taskVars, CachedInv, QueueInOrder, LastChunk
<1>9. ASSUME NEW i \in Chunk, ReadStep(i) PROVE QueueInOrder'
  BY <1>9 DEF ReadStep, Get, GetFails, Purge, CachedInv, QueueInOrder, LastChunk
<1>10. ASSUME NEW s \in Sha, Elsewhere(s) PROVE QueueInOrder'
  BY <1>10 DEF Elsewhere, taskVars, CachedInv, QueueInOrder, LastChunk
<1>11. CASE UNCHANGED cachedVars
  BY <1>11 DEF cachedVars, taskVars, CachedInv, QueueInOrder, LastChunk
<1>12. QED
  BY <1>2, <1>3, <1>4, <1>5, <1>6, <1>7, <1>8, <1>9, <1>10, <1>11
     DEF CachedNext, TaskStep, ClientStep

-----------------------------------------------------------------------------
(* What has been sent *)

LEMMA ProgressStep == CachedInv /\ [CachedNext]_cachedVars => Progress'
<1> SUFFICES ASSUME CachedInv, [CachedNext]_cachedVars PROVE Progress'
  OBVIOUS
<1> USE DEF CachedInv
<1>1. CASE Request
  <2>1. sent = <<>> /\ sent' = <<>> /\ ~failed /\ ~failed' /\ range = <<0, 0>>
    BY <1>1 DEF Request, Progress
  <2>2. CASE pc' = "refused"
    BY <1>1, <2>1, <2>2 DEF Request, Progress, Streaming
  <2>3. CASE pc' # "refused"
    <3>1. pc' = "take" /\ pos' = FirstChunk' /\ CachedTypeOK'
      BY <1>1, <2>3, TypeStep DEF Request, FirstChunk, CachedNext
    <3>2. /\ pos' \in Nat /\ pos' \in FirstChunk' .. LastChunk'
          /\ ChunkStart(pos') <= range'[1] /\ range'[1] \in Nat
      <4>1. (CachedTypeOK =>
              /\ FirstChunk \in Nat /\ LastChunk \in Nat /\ FirstChunk <= LastChunk
              /\ ChunkStart(FirstChunk) <= range[1] /\ range[1] \in Nat)'
        BY RangeBegins, PTL
      <4>2. QED
        BY <3>1, <4>1 DEF ChunkStart
    <3>3. NextByte' = range'[1] /\ Greatest(range'[1], ChunkStart(pos')) = range'[1]
      <4>1. ChunkStart(pos') \in Nat
        BY <3>2, StartsGrow
      <4>2. QED
        BY <2>1, <3>2, <4>1 DEF NextByte, Greatest
    <3>4. QED
      BY <2>1, <3>1, <3>2, <3>3 DEF Progress, Streaming, ChunkStart
  <2>4. QED
    BY <2>2, <2>3
<1>2. CASE Take
  BY <1>2 DEF Take, Progress, Streaming, NextByte, FirstChunk, LastChunk, clientVars
<1>3. CASE Await
  BY <1>3 DEF Await, Progress, Streaming, NextByte, FirstChunk, LastChunk, clientVars
<1>4. CASE ReadAhead
  BY <1>4 DEF ReadAhead, Progress, Streaming, NextByte, FirstChunk, LastChunk, clientVars
<1>5. CASE Send
  <2>1. /\ pc = "send" /\ pc \in Streaming /\ hand = pos /\ ~failed /\ ~failed'
        /\ range' = range /\ FirstChunk' = FirstChunk /\ LastChunk' = LastChunk
    BY <1>5 DEF Send, Streaming, QueueInOrder, Progress, FirstChunk, LastChunk
  <2>2. pos \in Nat /\ pos <= LastChunk /\ FirstChunk <= pos /\ NextByte \in range[1] .. range[2]
    BY <2>1, NextWithin
  <2>3. FirstChunk \in Nat /\ LastChunk \in Nat /\ range[1] \in Nat /\ range[2] \in Nat
    BY RangeChunks
  <2>4. CASE client = "left"
    BY <1>5, <2>1, <2>4 DEF Send, Progress, Streaming
  <2>5. CASE client # "left"
    <3>1. sent' = Append(sent, Slice(hand)) /\ pos' = pos + 1 /\ client' = client
      BY <1>5, <2>5 DEF Send
    <3> DEFINE e == IF pos = LastChunk THEN range[2] ELSE ChunkStart(pos + 1) - 1
    <3>2. Slice(hand) = <<NextByte, e>> /\ e \in Int /\ NextByte \in Int
      <4>1. ChunkStart(pos + 1) \in Nat
        BY <2>2, StartsGrow
      <4>2. Slice(hand) = <<NextByte, e>>
        BY <2>1, NextSlice DEF Progress
      <4>3. QED
        BY <2>2, <2>3, <4>1, <4>2
    <3>3. sent \in Seq(Int \X Int)
      BY DEF Progress
    <3> HIDE DEF e
    <3>4. sent' \in Seq(Int \X Int) /\ sent' # <<>> /\ sent'[Len(sent')] = <<NextByte, e>>
      <4>1. <<NextByte, e>> \in Int \X Int /\ sent' = Append(sent, <<NextByte, e>>)
        BY <3>1, <3>2
      <4>2. QED
        BY <3>3, <4>1, Extended
    <3>5. NextByte' = e + 1
      BY <3>4 DEF NextByte
    <3>6. CASE pos = LastChunk
      <4>1. pc' = "done" /\ NextByte' = range'[2] + 1
        BY <1>5, <2>1, <2>5, <3>5, <3>6 DEF Send, e
      <4>2. QED
        BY <2>1, <3>4, <4>1 DEF Progress, Streaming
    <3>7. CASE pos # LastChunk
      <4>1. pc' = "take"
        BY <1>5, <2>5, <3>7 DEF Send
      <4>2. NextByte' = Greatest(range[1], ChunkStart(pos + 1))
        <5>1. ChunkStart(pos + 1) \in Nat
          BY <2>2, StartsGrow
        <5>2. Greatest(range[1], ChunkStart(pos + 1)) = ChunkStart(pos + 1)
          BY <2>1, <3>7, NextSlice
        <5>3. QED
          BY <3>5, <3>7, <5>1, <5>2 DEF e
      <4>3. pos' \in FirstChunk' .. LastChunk'
        BY <2>1, <2>2, <2>3, <3>1, <3>7
      <4>4. QED
        BY <2>1, <3>1, <3>4, <4>1, <4>2, <4>3 DEF Progress, Streaming, ChunkStart
    <3>8. QED
      BY <3>6, <3>7
  <2>6. QED
    BY <2>4, <2>5
<1>6. CASE SendError
  BY <1>6 DEF SendError, Progress, Streaming
<1>7. CASE Receive \/ EndOfStream \/ HangUp
  BY <1>7 DEF Receive, EndOfStream, HangUp, taskVars, Progress, NextByte, FirstChunk, LastChunk
<1>8. ASSUME NEW i \in Chunk, ReadStep(i) PROVE Progress'
  BY <1>8 DEF ReadStep, Get, GetFails, Purge, clientVars, Progress, NextByte, FirstChunk, LastChunk
<1>9. ASSUME NEW s \in Sha, Elsewhere(s) PROVE Progress'
  BY <1>9 DEF Elsewhere, taskVars, clientVars, Progress, NextByte, FirstChunk, LastChunk
<1>10. CASE UNCHANGED cachedVars
  BY <1>10 DEF cachedVars, taskVars, clientVars, Progress, NextByte, FirstChunk, LastChunk
<1>11. QED
  BY <1>1, <1>2, <1>3, <1>4, <1>5, <1>6, <1>7, <1>8, <1>9, <1>10
     DEF CachedNext, TaskStep, ClientStep

-----------------------------------------------------------------------------
(* Reads under way *)

LEMMA WindowStep == CachedInv /\ [CachedNext]_cachedVars => ReadsInWindow'
<1> SUFFICES ASSUME CachedInv, [CachedNext]_cachedVars PROVE ReadsInWindow'
  OBVIOUS
<1> USE DEF CachedInv
<1>1. /\ pos \in Nat /\ Depth \in Nat /\ Window \in Nat /\ Depth <= Window /\ 1 <= Window
      /\ queue \in Seq(Chunk) /\ Len(queue) \in Nat
  <2>1. ChunkCount \in Int /\ pos \in 0 .. ChunkCount /\ queue \in Seq(Chunk)
    BY CachedAssumption DEF CachedTypeOK, ChunkCount
  <2>2. QED
    BY <2>1, CachedAssumption DEF Window, Greatest
<1>2. pc \in {"take", "await", "ahead", "send"} =>
        /\ pc # "take" => hand = pos
        /\ Len(queue) <= Depth
  <2>1. LastChunk \in Nat
    BY RangeChunks
  <2>2. QED
    BY <1>1, <2>1 DEF QueueInOrder, Least
<1> HIDE DEF Window
<1>3. CASE Request
  <2>1. queue' = <<>> /\ Reading' = {} /\ pc' \in {"refused", "take"}
    BY <1>3 DEF Request, ReadsInWindow, Reading
  <2>2. QED
    BY <2>1 DEF ReadsInWindow
<1>4. CASE Take
  <2>1. pc = "take" /\ pc' = "await" /\ pos' = pos
    BY <1>4 DEF Take
  <2>2. Reading \subseteq pos .. pos + Len(queue) - 1
    BY <2>1 DEF ReadsInWindow
  <2>3. CASE queue # <<>>
    <3>1. Reading' = Reading /\ Len(queue') = Len(queue) - 1
      BY <1>1, <1>4, <2>3 DEF Take, Reading
    <3>2. Reading' \subseteq pos .. pos + Len(queue')
      BY <1>1, <2>2, <3>1
    <3>3. Len(queue') + 1 <= Window
      BY <1>1, <1>2, <2>1, <3>1
    <3>4. QED
      BY <2>1, <3>2, <3>3 DEF ReadsInWindow
  <2>4. CASE queue = <<>>
    <3>1. queue' = <<>> /\ reader' = [reader EXCEPT ![pos] = "get"]
      BY <1>4, <2>4 DEF Take
    <3>2. Reading = {}
      BY <1>1, <2>2, <2>4
    <3>3. Reading' \subseteq {pos}
      BY <3>1, <3>2 DEF Reading, CachedTypeOK
    <3>4. {pos} \subseteq pos .. pos + 0
      BY <1>1
    <3>5. QED
      BY <1>1, <2>1, <3>1, <3>3, <3>4 DEF ReadsInWindow
  <2>5. QED
    BY <2>3, <2>4
<1>5. CASE Await
  <2>1. /\ pc = "await" /\ pos' = pos /\ queue' = queue /\ Reading' = Reading /\ hand = pos
        /\ reader[pos] \notin {"get", "purge"}
        /\ pc' \in {"ahead", "error"}
    BY <1>2, <1>5 DEF Await, Reading
  <2>2. Reading \subseteq pos .. pos + Len(queue) /\ pos \notin Reading /\ Len(queue) + 1 <= Window
    BY <2>1 DEF ReadsInWindow, Reading
  <2>3. Reading \subseteq pos + 1 .. pos + Len(queue)
    BY <1>1, <2>2
  <2>4. Reading \subseteq pos .. pos + Window - 1
    BY <1>1, <2>2
  <2>5. QED
    BY <1>1, <2>1, <2>2, <2>3, <2>4 DEF ReadsInWindow
<1>6. CASE ReadAhead
  BY <1>6, QueueAfterLoop DEF ReadAhead, ReadsInWindow
<1>7. CASE Send
  <2>1. /\ Reading \subseteq pos + 1 .. pos + Len(queue) /\ Reading' = Reading /\ queue' = queue
        /\ Len(queue) <= Depth
    BY <1>2, <1>7 DEF Send, ReadsInWindow, Reading
  <2>2. Reading \subseteq pos + 1 .. (pos + 1) + Window - 1
    BY <1>1, <2>1
  <2>3. CASE pc' = "done"
    <3>1. pos + 1 \in Nat
      BY <1>1
    <3>2. QED
      BY <2>1, <2>2, <2>3, <3>1 DEF ReadsInWindow
  <2>4. CASE pc' # "done"
    <3>1. pc' = "take" /\ pos' = pos + 1
      BY <1>7, <2>4 DEF Send
    <3>2. Reading \subseteq pos + 1 .. (pos + 1) + Len(queue) - 1
      BY <1>1, <2>1
    <3>3. QED
      BY <2>1, <3>1, <3>2 DEF ReadsInWindow
  <2>5. QED
    BY <2>3, <2>4
<1>8. CASE SendError
  BY <1>8 DEF SendError, ReadsInWindow, Reading
<1>9. CASE Receive \/ EndOfStream \/ HangUp
  BY <1>9 DEF Receive, EndOfStream, HangUp, taskVars, ReadsInWindow, Reading
<1>10. ASSUME NEW i \in Chunk, ReadStep(i) PROVE ReadsInWindow'
  <2>1. UNCHANGED <<pc, pos, queue>>
    BY <1>10 DEF ReadStep, Get, GetFails, Purge
  <2>2. Reading' \subseteq Reading
    BY <1>10 DEF ReadStep, Get, GetFails, Purge, Reading, CachedTypeOK
  <2>3. QED
    BY <2>1, <2>2 DEF ReadsInWindow
<1>11. ASSUME NEW s \in Sha, Elsewhere(s) PROVE ReadsInWindow'
  BY <1>11 DEF Elsewhere, taskVars, ReadsInWindow, Reading
<1>12. CASE UNCHANGED cachedVars
  BY <1>12 DEF cachedVars, taskVars, ReadsInWindow, Reading
<1>13. QED
  BY <1>3, <1>4, <1>5, <1>6, <1>7, <1>8, <1>9, <1>10, <1>11, <1>12
     DEF CachedNext, TaskStep, ClientStep

-----------------------------------------------------------------------------
(* The theorems *)

LEMMA CachedInvInit == CachedInit => CachedInv
<1> SUFFICES ASSUME CachedInit PROVE CachedInv
  OBVIOUS
<1>1. CachedTypeOK
  BY TypeInit
<1>2. QueueInOrder /\ Progress /\ ReadsInWindow
  BY DEF CachedInit, QueueInOrder, Progress, Streaming, ReadsInWindow, Reading
<1>3. QED
  BY <1>1, <1>2 DEF CachedInv

LEMMA CachedInvariant == CachedSpec => []CachedInv
<1>1. CachedInv /\ [CachedNext]_cachedVars => CachedInv'
  BY TypeStep, QueueStep, ProgressStep, WindowStep DEF CachedInv
<1>2. QED
  BY <1>1, CachedInvInit, PTL DEF CachedSpec

\* The streaming task, its queue, the reads and the channel stay well typed.
THEOREM CachedTypesCorrect == CachedSpec => []CachedTypeOK
<1>1. CachedInv => CachedTypeOK
  BY DEF CachedInv
<1>2. QED
  BY <1>1, CachedInvariant, PTL

\* The queue of stream_cached_file holds the chunks that come next, in order, at
\* most prefetch_depth of them and none beyond the range: the index that pop_front
\* returns need not be looked at.
THEOREM QueuesAreInOrder == CachedSpec => []QueueInOrder
<1>1. CachedInv => QueueInOrder
  BY DEF CachedInv
<1>2. QED
  BY <1>1, CachedInvariant, PTL

\* The prefetches of stream_cached_file and its own read are together at most
\* prefetch_depth (or the one read) at a time, after it has returned as before.
THEOREM ReadsAreBounded == CachedSpec => []ReadsBounded
<1>1. CachedInv => ReadsBounded
  <2> SUFFICES ASSUME CachedInv PROVE ReadsBounded
    OBVIOUS
  <2>1. Window \in Nat /\ Depth \in Nat /\ Depth <= Window /\ Window = Greatest(Depth, 1)
    BY CachedAssumption DEF Window, Greatest
  <2>2. \E a \in Nat : Reading \subseteq a .. a + Window - 1
    <3>1. ChunkCount \in Int /\ pos \in Nat /\ Len(queue) \in Nat /\ LastChunk \in Nat
      <4>1. ChunkCount \in Int
        BY CachedAssumption DEF ChunkCount
      <4>2. QED
        BY <4>1, RangeChunks DEF CachedInv, CachedTypeOK
    <3>2. CASE pc \in {"idle", "refused"}
      BY <3>2 DEF CachedInv, ReadsInWindow
    <3>3. CASE pc \in {"error", "done"}
      BY <3>3 DEF CachedInv, ReadsInWindow
    <3>4. CASE pc = "take"
      <4>1. Len(queue) <= Window /\ Reading \subseteq pos .. pos + Len(queue) - 1
        BY <2>1, <3>1, <3>4 DEF CachedInv, ReadsInWindow, QueueInOrder, Least
      <4>2. QED
        <5> HIDE DEF Window
        <5>1. Reading \subseteq pos .. pos + Window - 1
          BY <2>1, <3>1, <4>1
        <5>2. QED
          BY <3>1, <5>1
    <3>5. CASE pc \in {"await", "ahead", "send"}
      <4>1. \/ pc = "await" /\ Len(queue) + 1 <= Window /\ Reading \subseteq pos .. pos + Len(queue)
            \/ Len(queue) <= Window /\ Reading \subseteq pos + 1 .. pos + Len(queue)
        BY <2>1, <3>1, <3>5 DEF CachedInv, ReadsInWindow, QueueInOrder, Least
      <4>2. QED
        <5> HIDE DEF Window
        <5>1. pos + 1 \in Nat
          BY <3>1
        <5>2. \/ Reading \subseteq pos .. pos + Window - 1
              \/ Reading \subseteq pos + 1 .. (pos + 1) + Window - 1
          BY <2>1, <3>1, <4>1
        <5>3. QED
          BY <3>1, <5>1, <5>2
    <3>6. QED
      BY <3>2, <3>3, <3>4, <3>5 DEF CachedInv, CachedTypeOK
  <2>3. PICK a \in Nat : Reading \subseteq a .. a + Window - 1
    BY <2>2
  <2> HIDE DEF Window
  <2>4. IsFiniteSet(a .. a + Window - 1) /\ Cardinality(a .. a + Window - 1) = Window
    <3>1. PICK b \in Int : b = a + Window - 1
      BY <2>1
    <3>2. /\ IsFiniteSet(a .. b)
          /\ Cardinality(a .. b) = IF a > b THEN 0 ELSE b - a + 1
      <4>1. a \in Int
        OBVIOUS
      <4>2. QED
        BY <4>1, FS_Interval
    <3>3. (IF a > b THEN 0 ELSE b - a + 1) = Window
      BY <2>1, <3>1
    <3>4. QED
      BY <3>1, <3>2, <3>3
  <2>5. IsFiniteSet(Reading) /\ Cardinality(Reading) <= Window
    BY <2>3, <2>4, FS_Subset
  <2>6. QED
    BY <2>1, <2>5 DEF ReadsBounded
<1>2. QED
  BY <1>1, CachedInvariant, PTL

\* stream_cached_file gives its client the range in order and without a gap, and
\* then the end; or a part of it and an error.
THEOREM CachedStreamIsRangeStream == CachedSpec => ImplementsRangeStream
<1>1. CachedInit => Promise!StreamInit
  BY DEF CachedInit, Promise!StreamInit, Status, NextByte
<1>2. CachedInv /\ CachedInv' /\ [CachedNext]_cachedVars => [Promise!StreamNext]_(Promise!streamVars)
  <2> SUFFICES ASSUME CachedInv, CachedInv', [CachedNext]_cachedVars
               PROVE  Promise!StreamNext \/ UNCHANGED Promise!streamVars
    OBVIOUS
  <2> USE DEF CachedInv
  <2>1. CASE Request
    <3>1. sent = <<>> /\ sent' = <<>> /\ ~failed /\ Status = "none" /\ range = <<0, 0>>
      BY <2>1 DEF Request, Progress, Status
    <3>2. CASE pc' = "refused"
      BY <2>1, <3>1, <3>2 DEF Request, Status, NextByte, Promise!streamVars
    <3>3. CASE pc' # "refused"
      <4>1. pc' = "take"
        BY <2>1, <3>3 DEF Request
      <4>2. Status' = "open" /\ NextByte' = range'[1]
        BY <3>1, <4>1 DEF Status, NextByte
      <4>3. range' \in {g \in (0 .. TotalSize - 1) \X (0 .. TotalSize - 1) : g[1] <= g[2]}
        BY DEF CachedTypeOK
      <4>4. QED
        BY <3>1, <4>2, <4>3 DEF Promise!StreamNext, Promise!Open, Promise!Byte
    <3>4. QED
      BY <3>2, <3>3
  <2>2. CASE Take \/ Await \/ ReadAhead
    <3>1. UNCHANGED <<range, sent, failed, client>> /\ pc # "done" /\ pc' # "done"
      BY <2>2 DEF Take, Await, ReadAhead, clientVars
    <3>2. Status = "open" /\ Status' = "open"
      BY <2>2, <3>1 DEF Take, Await, ReadAhead, Status
    <3>3. QED
      BY <3>1, <3>2 DEF NextByte, Promise!streamVars
  <2>3. CASE Send
    <3>1. /\ pc = "send" /\ pc \in Streaming /\ hand = pos /\ ~failed /\ ~failed' /\ range' = range
          /\ client' = client /\ Status = "open"
      BY <2>3 DEF Send, Streaming, QueueInOrder, Progress, Status
    <3>2. NextByte \in range[1] .. range[2] /\ range[1] \in Nat /\ range[2] \in Nat /\ pos \in Nat
      BY <3>1, NextWithin, RangeChunks
    <3>3. CASE client = "left"
      <4>1. pc' = "done" /\ NextByte' = NextByte
        BY <2>3, <3>1, <3>3 DEF Send, NextByte
      <4>2. Status' = "left"
        BY <3>1, <3>2, <3>3, <4>1 DEF Status
      <4>3. QED
        BY <3>1, <4>1, <4>2 DEF Promise!StreamNext, Promise!Close
    <3>4. CASE client # "left"
      <4> DEFINE e == IF pos = LastChunk THEN range[2] ELSE ChunkStart(pos + 1) - 1
      <4>1. Slice(hand) = <<NextByte, e>> /\ e \in NextByte .. range[2] /\ (pos = LastChunk => e = range[2])
        <5>1. ChunkStart(pos + 1) \in Nat
          BY <3>2, StartsGrow
        <5>2. CASE pos = LastChunk
          BY <3>1, <3>2, <5>2, NextSlice
        <5>3. CASE pos # LastChunk
          BY <3>1, <3>2, <5>1, <5>3, NextSlice
        <5>4. QED
          BY <5>2, <5>3
      <4> HIDE DEF e
      <4>2. sent' = Append(sent, Slice(hand)) /\ sent \in Seq(Int \X Int)
        BY <2>3, <3>4 DEF Send, Progress
      <4>3. NextByte' = e + 1
        <5>1. Slice(hand) \in Int \X Int
          BY <3>2, <4>1
        <5>2. sent' # <<>> /\ sent'[Len(sent')] = <<NextByte, e>>
          BY <4>1, <4>2, <5>1
        <5>3. QED
          BY <5>2 DEF NextByte
      <4>4. NextByte' \in NextByte + 1 .. range[2] + 1
        BY <3>2, <4>1, <4>3
      <4>5. CASE pos = LastChunk
        <5>1. pc' = "done" /\ Status' = "complete" /\ NextByte' = range[2] + 1
          BY <2>3, <3>1, <3>4, <4>1, <4>3, <4>5 DEF Send, Status
        <5>2. QED
          BY <3>1, <4>4, <5>1 DEF Promise!StreamNext, Promise!Deliver
      <4>6. CASE pos # LastChunk
        <5>1. Status' = "open"
          BY <2>3, <3>4, <4>6 DEF Send, Status
        <5>2. QED
          BY <3>1, <4>4, <5>1 DEF Promise!StreamNext, Promise!Deliver
      <4>7. QED
        BY <4>5, <4>6
    <3>5. QED
      BY <3>3, <3>4
  <2>4. CASE SendError
    <3>1. /\ pc = "error" /\ pc' = "done" /\ pc \in Streaming /\ UNCHANGED <<range, sent, client>>
          /\ failed' = (client # "left") /\ Status = "open"
      BY <2>4 DEF SendError, Streaming, Status
    <3>2. NextByte \in range[1] .. range[2] /\ NextByte' = NextByte
      BY <3>1, NextWithin DEF NextByte
    <3>3. Status' \in {"failed", "left"}
      <4>1. CASE client = "left"
        BY <3>1, <3>2, <4>1, RangeChunks DEF Status
      <4>2. CASE client # "left"
        BY <3>1, <4>2 DEF Status
      <4>3. QED
        BY <4>1, <4>2
    <3>4. QED
      BY <3>1, <3>2, <3>3 DEF Promise!StreamNext, Promise!Close
  <2>5. CASE Receive \/ EndOfStream
    <3>1. UNCHANGED <<pc, range, sent, failed>> /\ client # "left" /\ client' # "left"
      BY <2>5 DEF Receive, EndOfStream, taskVars
    <3>2. QED
      BY <3>1 DEF Status, NextByte, Promise!streamVars
  <2>6. CASE HangUp
    <3>1. UNCHANGED <<pc, range, sent, failed>> /\ client # "left" /\ client' = "left"
      BY <2>6 DEF HangUp, taskVars
    <3>2. pc = "done" /\ ~failed => ~(NextByte <= range[2])
      BY <3>1, RangeChunks DEF Progress
    <3>3. QED
      BY <3>1, <3>2 DEF Status, NextByte, Promise!streamVars
  <2>7. ASSUME NEW i \in Chunk, ReadStep(i) PROVE UNCHANGED Promise!streamVars
    BY <2>7 DEF ReadStep, Get, GetFails, Purge, clientVars, Status, NextByte, Promise!streamVars
  <2>8. ASSUME NEW s \in Sha, Elsewhere(s) PROVE UNCHANGED Promise!streamVars
    BY <2>8 DEF Elsewhere, taskVars, clientVars, Status, NextByte, Promise!streamVars
  <2>9. CASE UNCHANGED cachedVars
    BY <2>9 DEF cachedVars, taskVars, clientVars, Status, NextByte, Promise!streamVars
  <2>10. QED
    BY <2>1, <2>2, <2>3, <2>4, <2>5, <2>6, <2>7, <2>8, <2>9 DEF CachedNext, TaskStep, ClientStep
<1>3. QED
  BY <1>1, <1>2, CachedInvariant, PTL DEF CachedSpec, ImplementsRangeStream, Promise!StreamSpec
=============================================================================
