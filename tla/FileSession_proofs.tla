------------------------- MODULE FileSession_proofs -------------------------
(***************************************************************************)
(* Proofs about FileSession: for any clients, ranges, channels and actors, *)
(* no byte is sent to a client twice, and a client that has its actor for  *)
(* itself gets its range in order and, of what came, whole, or an error.   *)
(***************************************************************************)
EXTENDS FileSession, SequenceTheorems, WellFoundedInduction, TLAPS

\* c is in the list s; c is a subscriber of actor a.
Lists(s, c) == \E n \in DOMAIN s : s[n] = c

Subscribed(a, c) == \E n \in DOMAIN subscribers[a] : subscribers[a][n] = c

\* SessionTypeOK, and what it leaves out.
Typed ==
  /\ entry \in 0 .. spawned /\ spawned \in 0 .. MaxActor
  /\ phase \in [Actor -> {"none", "drain", "select", "download", "forward", "error", "stopped"}]
  /\ \A a \in Actor : phase[a] = "none" <=> a > spawned
  /\ mailbox \in [Actor -> Seq(Client)]
  /\ subscribers \in [Actor -> Seq(Client)]
  /\ completed \in [Actor -> SUBSET Chunk]
  /\ prefetching \in [Actor -> SUBSET Chunk]
  /\ cached \in [Actor -> SUBSET Chunk]
  /\ current \in [Actor -> Chunk]
  /\ turn \in [Actor -> Nat \ {0}]
  /\ at \in [Client -> {"idle", "create", "subscribe", "refused", "stream", "ended", "left"}]
  /\ range \in [Client -> Ranges \cup {<<0, 0>>}]
  /\ owner \in [Client -> 0 .. spawned]
  /\ unread \in [Client -> 0 .. Capacity]
  /\ sent \in [Client -> Seq(Int \X Int)]
  /\ failed \in [Client -> BOOLEAN]
  /\ joined \in [Actor -> SUBSET Client]

\* What an actor holds of a chunk while it forwards it; the chunk came short if that
\* is not all.
Held ==
  /\ stuck \subseteq Chunk
  /\ data \in [Actor -> Nat] /\ cut \in [Actor -> SUBSET Chunk]
  /\ \A a \in Actor :
       /\ data[a] \in 0 .. Size(current[a])
       /\ phase[a] # "forward" => data[a] = 0
       /\ phase[a] = "forward" /\ data[a] # Size(current[a]) => current[a] \in cut[a]

\* A client is in one place of one actor at most, the one whose handle it got; it has
\* been sent nothing before it is a subscriber.
Places ==
  /\ \A a \in Actor : \A n \in DOMAIN mailbox[a] :
       /\ owner[mailbox[a][n]] = a /\ at[mailbox[a][n]] \in {"stream", "left"}
       /\ sent[mailbox[a][n]] = <<>>
       /\ \A m \in DOMAIN mailbox[a] : mailbox[a][m] = mailbox[a][n] => m = n
       /\ ~ Subscribed(a, mailbox[a][n])
  /\ \A a \in Actor : \A n \in DOMAIN subscribers[a] :
       /\ owner[subscribers[a][n]] = a /\ at[subscribers[a][n]] \in {"stream", "left"}
       /\ \A m \in DOMAIN subscribers[a] : subscribers[a][m] = subscribers[a][n] => m = n
  /\ \A a \in Actor :
       phase[a] \in {"none", "stopped"} => mailbox[a] = <<>> /\ subscribers[a] = <<>>
  /\ \A c \in Client :
       /\ at[c] \in {"idle", "create", "subscribe", "refused"} => sent[c] = <<>>
       /\ at[c] \notin {"idle", "create"} => owner[c] \in Actor
       /\ at[c] \in {"idle", "create"} => owner[c] = 0

\* Chunk i has been forwarded to c, if c was there for it.
Given(c, i) ==
  LET a == owner[c] IN
  /\ a \in Actor
  /\ \/ i \in completed[a]
     \/ /\ phase[a] = "forward" /\ i = current[a]
        /\ \A n \in DOMAIN subscribers[a] : subscribers[a][n] = c => n < turn[a]

\* x holds bytes of chunk i and of the range of c only.
PartOf(c, i, x) ==
  /\ Lo(c) <= x[1] /\ ChunkStart(i) <= x[1]
  /\ x[2] <= Hi(c) /\ x[2] <= ChunkEnd(i)

\* What was sent is of chunks that will not be forwarded again.
Sound ==
  /\ NoByteTwice
  /\ \A c \in Client : \A n \in DOMAIN sent[c] :
       \E i \in Chunk : Given(c, i) /\ PartOf(c, i, sent[c][n])
  /\ \A a \in Actor : phase[a] \in {"download", "forward"} => current[a] \notin completed[a]

\* The first byte of c's range in chunk k, or after it, once the ones before are sent.
Begin(c, k) ==
  IF k <= FirstChunk(c) THEN Lo(c) ELSE IF k > LastChunk(c) THEN Hi(c) + 1 ELSE ChunkStart(k)

\* An actor alone with c has done the chunks of its range before chunk k, those in
\* short as far as they came.
StandsAt(c, k, done, where, now, next, short) ==
  /\ done = FirstChunk(c) .. k - 1
  /\ where \in {"download", "forward", "error"} => k <= LastChunk(c) /\ now = k
  /\ Gap(short, NextByte(c), Begin(c, IF where = "forward" /\ next > 1 THEN k + 1 ELSE k))

Steady(c) ==
  LET a == owner[c] IN
  \E k \in FirstChunk(c) .. LastChunk(c) + 1 :
    StandsAt(c, k, completed[a], phase[a], current[a], turn[a], cut[a])

\* Nothing more of its range is to come for c.
Finished(c, short) == Gap(short, NextByte(c), Hi(c) + 1)

\* The one subscriber an actor has taken on is served in order, and to the end.
ServedAlone(c) ==
  owner[c] \in Actor /\ joined[owner[c]] = {c} =>
    /\ Contiguous(c)
    /\ at[c] = "stream" /\ Subscribed(owner[c], c) => Steady(c)
    /\ at[c] \in {"stream", "ended"} /\ ~ Subscribed(owner[c], c) /\ ~ failed[c]
         => Finished(c, cut[owner[c]])

\* An actor has not begun before it has taken somebody on, sends nothing to others,
\* and gives up on those it has told.
Begun(a) ==
  /\ \A n \in DOMAIN subscribers[a] : subscribers[a][n] \in joined[a]
  /\ \A n \in DOMAIN mailbox[a] : mailbox[a][n] \notin joined[a]
  /\ \A c \in joined[a] : at[c] \in {"stream", "ended", "left"}
  /\ \A c \in Client : owner[c] = a /\ sent[c] # <<>> => c \in joined[a]
  /\ joined[a] = {} =>
       completed[a] = {} /\ phase[a] \notin {"download", "forward", "error"}
  /\ phase[a] = "error" =>
       \A n \in DOMAIN subscribers[a] : n < turn[a] => failed[subscribers[a][n]]

AlonesServed == (\A a \in Actor : Begun(a)) /\ (\A c \in Client : ServedAlone(c))

SessionInv == Typed /\ Held /\ Places /\ Sound /\ AlonesServed

-----------------------------------------------------------------------------
(* Chunks and the bytes they hold *)

LEMMA LeastOfTwo ==
  ASSUME NEW x \in Int, NEW y \in Int
  PROVE  Min({x, y}) = IF x <= y THEN x ELSE y
<1> DEFINE m == IF x <= y THEN x ELSE y
<1>1. m \in {x, y} /\ \A z \in {x, y} : m <= z
  OBVIOUS
<1>2. \A z \in {x, y} : (\A u \in {x, y} : z <= u) => z = m
  OBVIOUS
<1>3. QED
  BY <1>1, <1>2 DEF Min

LEMMA GreatestOfTwo ==
  ASSUME NEW x \in Int, NEW y \in Int
  PROVE  Max({x, y}) = IF x >= y THEN x ELSE y
<1> DEFINE m == IF x >= y THEN x ELSE y
<1>1. m \in {x, y} /\ \A z \in {x, y} : m >= z
  OBVIOUS
<1>2. \A z \in {x, y} : (\A u \in {x, y} : z >= u) => z = m
  OBVIOUS
<1>3. QED
  BY <1>1, <1>2 DEF Max

LEMMA Monotone ==
  ASSUME NEW i \in Nat, NEW j \in Nat, NEW k \in Nat, i <= j
  PROVE  i * k \in Nat /\ j * k \in Nat /\ i * k <= j * k
<1>1. PICK e \in Nat : j = i + e
  BY j - i \in Nat, j = i + (j - i)
<1>2. j * k = i * k + e * k
  BY <1>1
<1>3. e * k \in Nat /\ i * k \in Nat
  BY <1>1
<1>4. QED
  BY <1>2, <1>3

LEMMA StartsAscend ==
  ASSUME NEW i \in Nat, NEW j \in Nat, i <= j
  PROVE  /\ ChunkStart(i) \in Nat /\ ChunkStart(j) \in Nat
         /\ ChunkStart(i) <= ChunkStart(j)
         /\ ChunkStart(i + 1) = ChunkStart(i) + ChunkSize
<1>1. ChunkSize \in Nat
  BY SessionAssumption
<1>2. (i + 1) * ChunkSize = i * ChunkSize + ChunkSize
  BY <1>1
<1>3. QED
  BY <1>1, <1>2, Monotone DEF ChunkStart

\* ChunkCount rounds up.
LEMMA CountCovers ==
  /\ ChunkCount \in Nat \ {0} /\ TotalSize <= ChunkStart(ChunkCount)
  /\ ChunkStart(ChunkCount) < TotalSize + ChunkSize
<1> DEFINE t == TotalSize + ChunkSize - 1
<1>1. ChunkSize \in Nat \ {0} /\ TotalSize \in Nat \ {0} /\ t \in Nat /\ t >= ChunkSize
  BY SessionAssumption
<1>2. /\ t \div ChunkSize \in Nat
      /\ t < (t \div ChunkSize) * ChunkSize + ChunkSize
      /\ (t \div ChunkSize) * ChunkSize <= t
  <2> HIDE DEF t
  <2> QED BY <1>1
<1>3. ChunkCount = t \div ChunkSize
  BY DEF ChunkCount
<1>4. ChunkStart(ChunkCount) = ChunkCount * ChunkSize /\ ChunkCount * ChunkSize \in Nat
  BY <1>1, <1>2, <1>3 DEF ChunkStart
<1>5. ChunkCount # 0
  <2>1. 0 * ChunkSize = 0
    BY <1>1
  <2>2. QED
    BY <1>1, <1>2, <1>3, <2>1
<1>6. QED
  BY <1>1, <1>2, <1>3, <1>4, <1>5

LEMMA ChunkBytes ==
  ASSUME NEW i \in Chunk
  PROVE  /\ i \in Nat /\ ChunkStart(i) \in Nat
         /\ ChunkEnd(i) \in ChunkStart(i) .. TotalSize - 1
         /\ ChunkEnd(i) < ChunkStart(i) + ChunkSize
         /\ ChunkEnd(i) = TotalSize - 1 \/ ChunkEnd(i) = ChunkStart(i) + ChunkSize - 1
<1>1. ChunkSize \in Nat \ {0} /\ TotalSize \in Nat \ {0} /\ ChunkCount \in Nat
  BY SessionAssumption, CountCovers
<1>2. i \in Nat /\ i + 1 \in Nat /\ i + 1 <= ChunkCount
  BY <1>1 DEF Chunk
<1>3. /\ ChunkStart(i) \in Nat /\ ChunkStart(i + 1) = ChunkStart(i) + ChunkSize
      /\ ChunkStart(i + 1) <= ChunkStart(ChunkCount) /\ ChunkStart(ChunkCount) \in Nat
  BY <1>1, <1>2, StartsAscend
<1>4. ChunkStart(i) < TotalSize
  BY <1>1, <1>3, CountCovers
<1>5. ChunkEnd(i) = (IF ChunkStart(i) + ChunkSize <= TotalSize
                     THEN ChunkStart(i) + ChunkSize ELSE TotalSize) - 1
  BY <1>1, <1>3, LeastOfTwo DEF ChunkEnd
<1>6. QED
  BY <1>1, <1>2, <1>3, <1>4, <1>5

LEMMA ChunksApart ==
  ASSUME NEW i \in Chunk, NEW j \in Chunk, i < j
  PROVE  ChunkEnd(i) < ChunkStart(j)
<1>1. i \in Nat /\ j \in Nat /\ i + 1 \in Nat /\ i + 1 <= j
  BY ChunkBytes
<1>2. ChunkStart(i + 1) = ChunkStart(i) + ChunkSize /\ ChunkStart(i + 1) <= ChunkStart(j)
  BY <1>1, StartsAscend
<1>3. QED
  BY <1>1, <1>2, ChunkBytes, SessionAssumption

LEMMA ChunkOfByte ==
  ASSUME NEW b \in 0 .. TotalSize - 1
  PROVE  /\ b \div ChunkSize \in Chunk
         /\ ChunkStart(b \div ChunkSize) <= b
         /\ b < ChunkStart(b \div ChunkSize) + ChunkSize
<1> DEFINE q == b \div ChunkSize
<1>1. ChunkSize \in Nat \ {0} /\ TotalSize \in Nat \ {0} /\ b \in Nat /\ b <= TotalSize - 1
  BY SessionAssumption
<1>2. q \in Nat /\ q * ChunkSize <= b /\ b < q * ChunkSize + ChunkSize
  BY <1>1
<1> HIDE DEF q
<1>3. ChunkStart(q) <= b /\ b < ChunkStart(q) + ChunkSize /\ ChunkStart(q) \in Nat
  BY <1>1, <1>2 DEF ChunkStart
<1>4. q < ChunkCount
  <2> SUFFICES ASSUME ChunkCount <= q PROVE FALSE
    BY <1>2, CountCovers
  <2>1. ChunkStart(ChunkCount) <= ChunkStart(q) /\ ChunkStart(ChunkCount) \in Nat
    BY <1>2, CountCovers, StartsAscend
  <2>2. QED
    BY <1>1, <1>3, <2>1, CountCovers
<1>5. q \in Chunk
  BY <1>2, <1>4, CountCovers DEF Chunk
<1>6. QED
  BY <1>3, <1>5 DEF q

\* The range of a client, its first chunk and its last.
LEMMA RangeChunks ==
  ASSUME Typed, NEW c \in Client
  PROVE  /\ Lo(c) \in 0 .. Hi(c) /\ Hi(c) \in 0 .. TotalSize - 1
         /\ FirstChunk(c) \in Chunk /\ LastChunk(c) \in Chunk
         /\ FirstChunk(c) \in Nat /\ LastChunk(c) \in Nat
         /\ FirstChunk(c) <= LastChunk(c)
         /\ ChunkStart(FirstChunk(c)) <= Lo(c) /\ Lo(c) < ChunkStart(FirstChunk(c)) + ChunkSize
         /\ ChunkStart(LastChunk(c)) <= Hi(c) /\ Hi(c) < ChunkStart(LastChunk(c)) + ChunkSize
<1>1. Lo(c) \in 0 .. Hi(c) /\ Hi(c) \in 0 .. TotalSize - 1
  <2>1. range[c] \in Ranges \/ range[c] = <<0, 0>>
    BY DEF Typed
  <2>2. QED
    BY <2>1, SessionAssumption DEF Lo, Hi
<1>2. Lo(c) \in 0 .. TotalSize - 1
  BY <1>1, SessionAssumption
<1>3. /\ FirstChunk(c) \in Chunk /\ LastChunk(c) \in Chunk
      /\ ChunkStart(FirstChunk(c)) <= Lo(c) /\ Lo(c) < ChunkStart(FirstChunk(c)) + ChunkSize
      /\ ChunkStart(LastChunk(c)) <= Hi(c) /\ Hi(c) < ChunkStart(LastChunk(c)) + ChunkSize
  BY <1>1, <1>2, ChunkOfByte DEF FirstChunk, LastChunk
<1>4. FirstChunk(c) \in Nat /\ LastChunk(c) \in Nat
  BY <1>3, ChunkBytes
<1>5. FirstChunk(c) <= LastChunk(c)
  <2> SUFFICES ASSUME LastChunk(c) + 1 <= FirstChunk(c) PROVE FALSE
    BY <1>4
  <2>1. /\ ChunkStart(LastChunk(c) + 1) <= ChunkStart(FirstChunk(c))
        /\ ChunkStart(LastChunk(c) + 1) = ChunkStart(LastChunk(c)) + ChunkSize
        /\ ChunkStart(LastChunk(c)) \in Nat /\ ChunkStart(FirstChunk(c)) \in Nat
    BY <1>4, StartsAscend
  <2>2. QED
    BY <1>1, <1>3, <2>1, SessionAssumption
<1>6. QED
  BY <1>1, <1>3, <1>4, <1>5

LEMMA ChunkSizes ==
  ASSUME NEW i \in Chunk, NEW n \in 0 .. Size(i)
  PROVE  /\ Size(i) \in Nat \ {0} /\ n \in Nat
         /\ DataEnd(i, n) \in ChunkStart(i) - 1 .. ChunkEnd(i)
         /\ DataEnd(i, n) = ChunkStart(i) + n - 1
         /\ n = Size(i) <=> DataEnd(i, n) = ChunkEnd(i)
<1>1. /\ ChunkStart(i) \in Nat /\ ChunkEnd(i) \in Int /\ ChunkStart(i) <= ChunkEnd(i)
  BY ChunkBytes, SessionAssumption
<1>2. Size(i) = ChunkEnd(i) - ChunkStart(i) + 1
  BY DEF Size
<1>3. DataEnd(i, n) = ChunkStart(i) + n - 1
  BY DEF DataEnd
<1>4. QED
  BY <1>1, <1>2, <1>3

\* What a client is sent of a chunk of which n bytes came.
LEMMA SliceBytes ==
  ASSUME Typed, NEW c \in Client, NEW i \in Chunk, NEW n \in 0 .. Size(i)
  PROVE  /\ Slice(c, i, n) \in Int \X Int
         /\ PartOf(c, i, Slice(c, i, n))
         /\ Slice(c, i, n) = <<IF Lo(c) >= ChunkStart(i) THEN Lo(c) ELSE ChunkStart(i),
                               IF Hi(c) <= DataEnd(i, n) THEN Hi(c) ELSE DataEnd(i, n)>>
<1>1. /\ Lo(c) \in Int /\ Hi(c) \in Int
      /\ ChunkStart(i) \in Int /\ ChunkEnd(i) \in Int
      /\ DataEnd(i, n) \in Int /\ DataEnd(i, n) <= ChunkEnd(i)
  BY RangeChunks, ChunkBytes, ChunkSizes
<1>2. Slice(c, i, n) = <<IF Lo(c) >= ChunkStart(i) THEN Lo(c) ELSE ChunkStart(i),
                         IF Hi(c) <= DataEnd(i, n) THEN Hi(c) ELSE DataEnd(i, n)>>
  BY <1>1, LeastOfTwo, GreatestOfTwo DEF Slice
<1>3. QED
  BY <1>1, <1>2 DEF PartOf

-----------------------------------------------------------------------------
(* Gaps that short chunks leave *)

LEMMA GapSelf ==
  ASSUME NEW S, NEW x \in Int
  PROVE  Gap(S, x, x)
BY DEF Gap

LEMMA GapNone ==
  ASSUME NEW x \in Int, NEW y \in Int, Gap({}, x, y)
  PROVE  x = y
<1>1. x <= y /\ ~ \E b \in x .. y - 1 : TRUE
  BY DEF Gap
<1>2. x < y => x \in x .. y - 1
  OBVIOUS
<1>3. QED
  BY <1>1, <1>2

LEMMA GapGrows ==
  ASSUME NEW S, NEW T, S \subseteq T, NEW x, NEW y, Gap(S, x, y)
  PROVE  Gap(T, x, y)
BY DEF Gap

LEMMA GapsJoin ==
  ASSUME NEW S, NEW x \in Int, NEW y \in Int, NEW z \in Int, Gap(S, x, y), Gap(S, y, z)
  PROVE  Gap(S, x, z)
<1>1. x <= z /\ \A b \in x .. z - 1 : b \in x .. y - 1 \/ b \in y .. z - 1
  BY DEF Gap
<1>2. QED
  BY <1>1 DEF Gap

\* What is missing of one chunk.
LEMMA GapInChunk ==
  ASSUME NEW S, NEW i \in S, NEW x \in Int, NEW y \in Int,
         ChunkStart(i) \in Int, ChunkEnd(i) \in Int,
         x <= y, ChunkStart(i) <= x, y <= ChunkEnd(i) + 1
  PROVE  Gap(S, x, y)
<1>1. \A b \in x .. y - 1 : b \in ChunkStart(i) .. ChunkEnd(i)
  OBVIOUS
<1>2. QED
  BY <1>1 DEF Gap

LEMMA NextByteInt ==
  ASSUME Typed, NEW c \in Client
  PROVE  NextByte(c) \in Int
<1>1. sent[c] \in Seq(Int \X Int) /\ Lo(c) \in Int
  BY RangeChunks DEF Typed
<1>2. Len(sent[c]) # 0 => sent[c][Len(sent[c])] \in Int \X Int
  BY <1>1
<1>3. QED
  BY <1>1, <1>2 DEF NextByte, ByteAfter

\* A chunk of its range, of which n bytes came, takes c from where it begins to where
\* the next one does, but for what it should have held.
LEMMA PieceJoins ==
  ASSUME Typed, NEW c \in Client, NEW i \in FirstChunk(c) .. LastChunk(c),
         NEW n \in 0 .. Size(i), NEW S, n # Size(i) => i \in S
  PROVE  /\ i \in Chunk /\ Begin(c, i) \in Int /\ Begin(c, i + 1) \in Int
         /\ Overlaps(c, i, n) => /\ Slice(c, i, n)[1] = Begin(c, i)
                                 /\ Slice(c, i, n)[2] \in Begin(c, i) - 1 .. Hi(c)
                                 /\ Gap(S, Slice(c, i, n)[2] + 1, Begin(c, i + 1))
         /\ ~ Overlaps(c, i, n) => Gap(S, Begin(c, i), Begin(c, i + 1))
<1>1. /\ Lo(c) \in Nat /\ Hi(c) \in Nat /\ Hi(c) <= TotalSize - 1
      /\ FirstChunk(c) \in Nat /\ LastChunk(c) \in Nat /\ FirstChunk(c) <= LastChunk(c)
      /\ ChunkStart(FirstChunk(c)) <= Lo(c) /\ Lo(c) < ChunkStart(FirstChunk(c)) + ChunkSize
      /\ ChunkStart(LastChunk(c)) <= Hi(c) /\ Hi(c) < ChunkStart(LastChunk(c)) + ChunkSize
      /\ TotalSize \in Nat /\ ChunkSize \in Nat \ {0} /\ Lo(c) <= Hi(c)
  BY RangeChunks, SessionAssumption
<1>2. i \in Chunk /\ i \in Nat
  BY <1>1, RangeChunks, CountCovers DEF Chunk
<1>3. /\ ChunkStart(i) \in Nat /\ ChunkStart(i + 1) = ChunkStart(i) + ChunkSize
      /\ ChunkStart(FirstChunk(c)) <= ChunkStart(i) /\ ChunkStart(i) <= ChunkStart(LastChunk(c))
      /\ ChunkStart(FirstChunk(c)) \in Nat /\ ChunkStart(LastChunk(c)) \in Nat
  BY <1>1, <1>2, StartsAscend
<1>4. i < LastChunk(c) => ChunkStart(i) + ChunkSize <= ChunkStart(LastChunk(c))
  <2> SUFFICES ASSUME i + 1 <= LastChunk(c)
               PROVE  ChunkStart(i) + ChunkSize <= ChunkStart(LastChunk(c))
    BY <1>1, <1>2
  <2>1. i + 1 \in Nat
    BY <1>2
  <2>2. QED
    BY <1>1, <1>3, <2>1, StartsAscend
<1>5. i > FirstChunk(c) => ChunkStart(FirstChunk(c)) + ChunkSize <= ChunkStart(i)
  <2> SUFFICES ASSUME FirstChunk(c) + 1 <= i
               PROVE  ChunkStart(FirstChunk(c)) + ChunkSize <= ChunkStart(i)
    BY <1>1, <1>2
  <2>1. FirstChunk(c) + 1 \in Nat
    BY <1>1
  <2>2. ChunkStart(FirstChunk(c) + 1) = ChunkStart(FirstChunk(c)) + ChunkSize
    BY <1>1, StartsAscend
  <2>3. QED
    BY <1>2, <2>1, <2>2, StartsAscend
<1>6. ChunkEnd(i) \in Int /\ (ChunkEnd(i) = TotalSize - 1 \/ ChunkEnd(i) = ChunkStart(i) + ChunkSize - 1)
      /\ ChunkStart(i) <= ChunkEnd(i) /\ ChunkEnd(i) <= TotalSize - 1
      /\ ChunkEnd(i) < ChunkStart(i) + ChunkSize
  BY <1>1, <1>2, ChunkBytes
<1>7. /\ DataEnd(i, n) \in ChunkStart(i) - 1 .. ChunkEnd(i)
      /\ n = Size(i) <=> DataEnd(i, n) = ChunkEnd(i)
  BY <1>2, ChunkSizes
<1>8. Slice(c, i, n) = <<IF Lo(c) >= ChunkStart(i) THEN Lo(c) ELSE ChunkStart(i),
                         IF Hi(c) <= DataEnd(i, n) THEN Hi(c) ELSE DataEnd(i, n)>>
  BY <1>2, SliceBytes
<1>9. Begin(c, i) = IF Lo(c) >= ChunkStart(i) THEN Lo(c) ELSE ChunkStart(i)
  BY <1>1, <1>2, <1>3, <1>5 DEF Begin
<1>10. Begin(c, i + 1) = 1 + IF Hi(c) <= ChunkEnd(i) THEN Hi(c) ELSE ChunkEnd(i)
  BY <1>1, <1>2, <1>3, <1>4, <1>5, <1>6 DEF Begin
<1>11. /\ Begin(c, i) \in Int /\ Begin(c, i + 1) \in Int
       /\ ChunkStart(i) <= Begin(c, i) /\ Begin(c, i + 1) <= ChunkEnd(i) + 1
       /\ Begin(c, i + 1) <= Hi(c) + 1
       /\ Begin(c, i) < Begin(c, i + 1)
  BY <1>1, <1>3, <1>4, <1>5, <1>6, <1>9, <1>10
<1>12. ASSUME Overlaps(c, i, n)
       PROVE  /\ Slice(c, i, n)[1] = Begin(c, i)
              /\ Slice(c, i, n)[2] \in Begin(c, i) - 1 .. Hi(c)
              /\ Gap(S, Slice(c, i, n)[2] + 1, Begin(c, i + 1))
  <2> DEFINE e == Slice(c, i, n)[2]
  <2>1. Slice(c, i, n)[1] = Begin(c, i)
    BY <1>8, <1>9
  <2>2. e = IF Hi(c) <= DataEnd(i, n) THEN Hi(c) ELSE DataEnd(i, n)
    BY <1>8
  <2>3. Lo(c) <= DataEnd(i, n)
    BY <1>1, <1>7, <1>12 DEF Overlaps
  <2> HIDE DEF e
  <2>4. e \in Begin(c, i) - 1 .. Hi(c)
    BY <1>1, <1>3, <1>7, <1>9, <1>11, <2>2, <2>3
  <2>5. e + 1 \in Int /\ ChunkStart(i) <= e + 1 /\ e + 1 <= Begin(c, i + 1)
    BY <1>1, <1>3, <1>6, <1>7, <1>9, <1>10, <1>11, <2>2, <2>4
  <2>6. Gap(S, e + 1, Begin(c, i + 1))
    <3>1. CASE n = Size(i)
      <4>1. e + 1 = Begin(c, i + 1)
        BY <1>1, <1>6, <1>7, <1>10, <2>2, <3>1
      <4>2. QED
        BY <1>11, <4>1, GapSelf
    <3>2. CASE n # Size(i)
      BY <1>3, <1>6, <1>11, <2>5, <3>2, GapInChunk
    <3>3. QED
      BY <3>1, <3>2
  <2>7. QED
    BY <2>1, <2>4, <2>6 DEF e
<1>13. ASSUME ~ Overlaps(c, i, n)
       PROVE  Gap(S, Begin(c, i), Begin(c, i + 1))
  <2>1. DataEnd(i, n) < Lo(c)
    BY <1>1, <1>3, <1>4, <1>7, <1>13 DEF Overlaps
  <2>2. Lo(c) <= ChunkEnd(i)
    BY <1>1, <1>3, <1>5, <1>6
  <2>3. n # Size(i)
    BY <1>1, <1>6, <1>7, <2>1, <2>2
  <2>4. QED
    BY <1>3, <1>6, <1>11, <2>3, GapInChunk
<1>14. QED
  BY <1>2, <1>11, <1>12, <1>13

-----------------------------------------------------------------------------
(* clean_subscribers *)

LEMMA LeastExists ==
  ASSUME NEW T \in SUBSET Nat, T # {}
  PROVE  \E t \in T : \A u \in T : t <= u
<1> DEFINE R == OpToRel(<, Nat)
<1>1. \A x, y \in Nat : <<x, y>> \in R <=> x < y
  BY DEF OpToRel
<1>2. IsWellFoundedOn(R, Nat)
  BY NatLessThanWellFounded
<1> HIDE DEF R
<1>3. PICK t \in T : \A u \in T : ~ (<<u, t>> \in R)
  BY <1>2, WFMin
<1>4. \A u \in T : u \in Nat /\ t \in Nat /\ ~ (u < t)
  BY <1>1, <1>3
<1>5. QED
  BY <1>4

\* The function in Retain, and what defines it.
KeptStep(s, f, n) ==
  IF n = 0 THEN <<>> ELSE IF Closed(s[n]) THEN f[n - 1] ELSE Append(f[n - 1], s[n])

IsKept(s, f, n) == f = [m \in 0 .. n |-> KeptStep(s, f, m)]

LEMMA KeptGrows ==
  ASSUME NEW s, NEW n \in Nat, NEW f, IsKept(s, f, n)
  PROVE  \E g : IsKept(s, g, n + 1)
<1> DEFINE g == [m \in 0 .. n + 1 |-> IF m <= n THEN f[m] ELSE KeptStep(s, f, n + 1)]
<1>1. \A m \in 0 .. n : f[m] = KeptStep(s, f, m)
  BY DEF IsKept
<1>2. \A m \in 0 .. n : g[m] = f[m]
  OBVIOUS
<1>3. g[n + 1] = KeptStep(s, f, n + 1)
  OBVIOUS
<1>4. g = [m \in 0 .. n + 1 |-> g[m]]
  OBVIOUS
<1> HIDE DEF g
<1>5. \A m \in 0 .. n + 1 : KeptStep(s, g, m) = KeptStep(s, f, m)
  <2> SUFFICES ASSUME NEW m \in 0 .. n + 1, m # 0 PROVE g[m - 1] = f[m - 1]
    BY DEF KeptStep
  <2> QED
    BY <1>2
<1>6. \A m \in 0 .. n + 1 : g[m] = KeptStep(s, g, m)
  <2> SUFFICES ASSUME NEW m \in 0 .. n + 1 PROVE g[m] = KeptStep(s, g, m)
    OBVIOUS
  <2>1. CASE m = n + 1
    BY <1>3, <1>5, <2>1
  <2>2. CASE m # n + 1
    <3>1. m \in 0 .. n
      BY <2>2
    <3>2. QED
      BY <1>1, <1>2, <1>5, <3>1
  <2>3. QED
    BY <2>1, <2>2
<1>7. g = [m \in 0 .. n + 1 |-> KeptStep(s, g, m)]
  BY <1>4, <1>6
<1>8. QED
  BY <1>7 DEF IsKept

LEMMA KeptExists ==
  ASSUME NEW s, NEW n \in Nat
  PROVE  \E f : IsKept(s, f, n)
<1> DEFINE T == {m \in Nat : ~ \E f : IsKept(s, f, m)}
<1>1. 0 \notin T
  <2> DEFINE f == [m \in 0 .. 0 |-> <<>>]
  <2>1. f = [m \in 0 .. 0 |-> KeptStep(s, f, m)]
    BY DEF KeptStep
  <2>2. QED
    BY <2>1 DEF IsKept
<1>2. ASSUME NEW t \in T, \A u \in T : t <= u
      PROVE  FALSE
  <2>1. t \in Nat /\ t # 0 /\ t - 1 \in Nat /\ t - 1 \notin T
    BY <1>1, <1>2
  <2>2. \E f : IsKept(s, f, t - 1)
    BY <2>1
  <2>3. \E g : IsKept(s, g, t - 1 + 1)
    BY <2>1, <2>2, KeptGrows
  <2>4. t - 1 + 1 = t
    BY <2>1
  <2>5. QED
    BY <1>2, <2>3, <2>4
<1>3. T = {}
  <2> HIDE DEF T
  <2>1. T \in SUBSET Nat
    BY DEF T
  <2>2. QED
    BY <1>2, <2>1, LeastExists
<1>4. QED
  BY <1>3

\* What r has of the first n places of s.
Keeps(s, r, n) ==
  /\ r \in Seq(Client) /\ Len(r) <= n
  /\ \A j \in 1 .. Len(r) : ~ Closed(r[j]) /\ \E i \in 1 .. n : r[j] = s[i]
  /\ \A j, k \in 1 .. Len(r) : r[j] = r[k] => j = k
  /\ \A i \in 1 .. n : ~ Closed(s[i]) => \E j \in 1 .. Len(r) : r[j] = s[i]

\* One turn of the loop of clean_subscribers.
LEMMA KeepsOneMore ==
  ASSUME NEW s \in Seq(Client), \A i, k \in 1 .. Len(s) : s[i] = s[k] => i = k,
         NEW n \in Nat, n < Len(s), NEW r, Keeps(s, r, n)
  PROVE  Keeps(s, IF Closed(s[n + 1]) THEN r ELSE Append(r, s[n + 1]), n + 1)
<1>1. /\ Len(s) \in Nat /\ n + 1 \in 1 .. Len(s) /\ s[n + 1] \in Client
      /\ \A i \in 1 .. n + 1 : i \in 1 .. n \/ i = n + 1
      /\ \A i \in 1 .. n : i \in 1 .. n + 1 /\ i \in 1 .. Len(s)
  OBVIOUS
<1>2. r \in Seq(Client) /\ Len(r) \in Nat /\ Len(r) <= n
  BY DEF Keeps
<1>3. CASE Closed(s[n + 1])
  BY <1>1, <1>2, <1>3 DEF Keeps
<1>4. CASE ~ Closed(s[n + 1])
  <2> DEFINE q == Append(r, s[n + 1])
             m == Len(r) + 1
  <2>1. /\ q \in Seq(Client) /\ Len(q) = m /\ q[m] = s[n + 1] /\ m \in Nat /\ m \in 1 .. m
        /\ \A j \in 1 .. Len(r) : q[j] = r[j]
        /\ \A j \in 1 .. m : j \in 1 .. Len(r) \/ j = m
        /\ \A j \in 1 .. Len(r) : j \in 1 .. m
    BY <1>1, <1>2
  <2> HIDE DEF q, m
  <2>2. \A j \in 1 .. m : ~ Closed(q[j]) /\ \E i \in 1 .. n + 1 : q[j] = s[i]
    <3>1. \A j \in 1 .. Len(r) : ~ Closed(q[j]) /\ \E i \in 1 .. n + 1 : q[j] = s[i]
      BY <1>1, <2>1 DEF Keeps
    <3>2. n + 1 \in 1 .. n + 1
      BY <1>1
    <3>3. QED
      BY <1>4, <2>1, <3>1, <3>2
  <2>3. \A j \in 1 .. Len(r) : q[j] # q[m]
    <3> SUFFICES ASSUME NEW j \in 1 .. Len(r), q[j] = q[m] PROVE FALSE
      OBVIOUS
    <3>1. PICK i \in 1 .. n : r[j] = s[i]
      BY DEF Keeps
    <3>2. s[i] = s[n + 1]
      BY <2>1, <3>1
    <3>3. i = n + 1
      BY <1>1, <3>1, <3>2
    <3>4. QED
      BY <3>1, <3>3
  <2>4. \A j, k \in 1 .. m : q[j] = q[k] => j = k
    <3> SUFFICES ASSUME NEW j \in 1 .. m, NEW k \in 1 .. m, q[j] = q[k] PROVE j = k
      OBVIOUS
    <3>1. CASE j \in 1 .. Len(r) /\ k \in 1 .. Len(r)
      BY <2>1, <3>1 DEF Keeps
    <3>2. QED
      BY <2>1, <2>3, <3>1
  <2>5. \A i \in 1 .. n + 1 : ~ Closed(s[i]) => \E j \in 1 .. m : q[j] = s[i]
    <3>1. \A i \in 1 .. n : ~ Closed(s[i]) => \E j \in 1 .. m : q[j] = s[i]
      BY <2>1 DEF Keeps
    <3>2. QED
      BY <1>1, <2>1, <3>1
  <2>6. m <= n + 1
    BY <1>2, <2>1 DEF m
  <2>7. Keeps(s, q, n + 1)
    BY <2>1, <2>2, <2>4, <2>5, <2>6 DEF Keeps
  <2>8. QED
    BY <1>4, <2>7 DEF q
<1>5. QED
  BY <1>3, <1>4

\* clean_subscribers keeps those that are there, once each.
LEMMA RetainKeeps ==
  ASSUME NEW s \in Seq(Client), \A i, k \in 1 .. Len(s) : s[i] = s[k] => i = k
  PROVE  Keeps(s, Retain(s), Len(s))
<1> DEFINE f == CHOOSE g : IsKept(s, g, Len(s))
<1>1. Len(s) \in Nat
  OBVIOUS
<1>2. IsKept(s, f, Len(s))
  BY <1>1, KeptExists
<1>3. Retain(s) = f[Len(s)]
  BY DEF Retain, IsKept, KeptStep
<1> HIDE DEF f
<1>4. \A m \in 0 .. Len(s) : f[m] = KeptStep(s, f, m)
  BY <1>2 DEF IsKept
<1> DEFINE T == {m \in 0 .. Len(s) : ~ Keeps(s, f[m], m)}
<1>5. 0 \notin T
  <2>1. f[0] = <<>>
    BY <1>1, <1>4 DEF KeptStep
  <2>2. Keeps(s, <<>>, 0)
    BY DEF Keeps
  <2>3. QED
    BY <2>1, <2>2
<1>6. ASSUME NEW t \in T, \A u \in T : t <= u
      PROVE  FALSE
  <2>1. t \in 0 .. Len(s) /\ t # 0 /\ t - 1 \in Nat /\ t - 1 < Len(s) /\ t - 1 + 1 = t
        /\ ~ Keeps(s, f[t], t)
    BY <1>1, <1>5
  <2>2. t - 1 \in 0 .. Len(s) /\ ~ (t <= t - 1)
    BY <2>1
  <2>3. Keeps(s, f[t - 1], t - 1)
    BY <1>6, <2>2
  <2>4. f[t] = IF Closed(s[t]) THEN f[t - 1] ELSE Append(f[t - 1], s[t])
    BY <1>4, <2>1 DEF KeptStep
  <2> DEFINE n == t - 1
  <2>5. n \in Nat /\ n < Len(s) /\ n + 1 = t /\ Keeps(s, f[n], n)
    BY <2>1, <2>3
  <2> HIDE DEF n
  <2>6. Keeps(s, IF Closed(s[n + 1]) THEN f[n] ELSE Append(f[n], s[n + 1]), n + 1)
    BY <2>5, KeepsOneMore
  <2>7. QED
    BY <2>1, <2>4, <2>5, <2>6 DEF n
<1>7. T = {}
  <2> HIDE DEF T
  <2>1. T \in SUBSET Nat
    BY DEF T
  <2>2. QED
    BY <1>6, <2>1, LeastExists
<1>8. QED
  BY <1>1, <1>3, <1>7

-----------------------------------------------------------------------------
(* Types *)

\* What is selected is a chunk that somebody in s needs.
LEMMA SelectedNeeded ==
  ASSUME NEW a, NEW s, NEW i \in SelectNext(a, s)
  PROVE  \E n \in DOMAIN s :
           /\ i \in Chunk /\ i \notin completed[a]
           /\ i \in FirstChunk(s[n]) .. LastChunk(s[n])
<1>1. PICK p \in Candidates(a, s) : i = p[2]
  BY DEF SelectNext
<1>2. /\ p[1] \in DOMAIN s /\ p[2] \in Chunk
      /\ p[2] \in (FirstChunk(s[p[1]]) .. LastChunk(s[p[1]])) \ completed[a]
  BY DEF Candidates
<1>3. QED
  BY <1>1, <1>2

LEMMA SubscribersKept ==
  ASSUME Typed, Places, NEW a \in Actor
  PROVE  Keeps(subscribers[a], Retain(subscribers[a]), Len(subscribers[a]))
<1>1. subscribers[a] \in Seq(Client)
  BY DEF Typed
<1>2. \A n, m \in 1 .. Len(subscribers[a]) : subscribers[a][n] = subscribers[a][m] => n = m
  BY <1>1 DEF Places
<1>3. QED
  BY <1>1, <1>2, RetainKeeps

LEMMA TypedInit == SessionInit => Typed
<1> SUFFICES ASSUME SessionInit PROVE Typed
  OBVIOUS
<1>1. 0 \in Chunk /\ 0 \in 0 .. MaxActor /\ 0 \in 0 .. Capacity /\ MaxActor \in Nat
  BY CountCovers, SessionAssumption DEF Chunk
<1>2. \A a \in Actor : a > 0
  BY <1>1 DEF Actor
<1>3. QED
  BY <1>1, <1>2 DEF SessionInit, Typed

LEMMA ActorsCounted ==
  /\ MaxActor \in Nat /\ Capacity \in Nat \ {0}
  /\ \A a \in Actor : a \in Nat \ {0} /\ a <= MaxActor
BY SessionAssumption DEF Actor

LEMMA ClientTyped ==
  ASSUME Typed, Places, NEW c \in Client, ClientStep(c) \/ Leave(c)
  PROVE  Typed'
<1>1. CASE Find(c)
  <2>1. /\ UNCHANGED <<managerVars, actorVars, unread, sent, failed, joined>>
        /\ at' = [at EXCEPT ![c] = "subscribe"] \/ at' = [at EXCEPT ![c] = "create"]
        /\ owner' = [owner EXCEPT ![c] = entry] \/ owner' = owner
        /\ \E g \in Ranges : range' = [range EXCEPT ![c] = g]
    BY <1>1 DEF Find
  <2>2. /\ at' \in [Client -> {"idle", "create", "subscribe", "refused", "stream", "ended", "left"}]
        /\ range' \in [Client -> Ranges \cup {<<0, 0>>}]
    <3>1. at' \in [Client -> {"idle", "create", "subscribe", "refused", "stream", "ended", "left"}]
      BY <2>1 DEF Typed
    <3>2. PICK g \in Ranges : range' = [range EXCEPT ![c] = g]
      BY <2>1
    <3>3. range' \in [Client -> Ranges \cup {<<0, 0>>}]
      BY <3>2 DEF Typed
    <3>4. QED
      BY <3>1, <3>3
  <2>3. owner' \in [Client -> 0 .. spawned]
    BY <2>1 DEF Typed
  <2>4. QED
    BY <2>1, <2>2, <2>3 DEF Typed, managerVars, actorVars
<1>2. CASE Create(c)
  <2> DEFINE b == spawned + 1
  <2>1. /\ b \in Actor /\ entry' = b /\ spawned' = b
        /\ phase' = [phase EXCEPT ![b] = "drain"]
        /\ \E S \in {{}, UNION {cached[d] : d \in Actor}} : cached' = [cached EXCEPT ![b] = S]
        /\ at' = [at EXCEPT ![c] = "subscribe"]
        /\ owner' = [owner EXCEPT ![c] = b]
        /\ UNCHANGED <<mailbox, subscribers, completed, prefetching, current, turn,
                       range, unread, sent, failed, joined>>
    BY <1>2 DEF Create
  <2>2. b \in Nat /\ b <= MaxActor /\ spawned \in Nat /\ b = spawned + 1
    BY <2>1, ActorsCounted DEF Typed
  <2>3. entry' \in 0 .. spawned' /\ spawned' \in 0 .. MaxActor
    BY <2>1, <2>2, ActorsCounted
  <2> HIDE DEF b
  <2>4. cached' \in [Actor -> SUBSET Chunk]
    <3>1. cached \in [Actor -> SUBSET Chunk]
      BY DEF Typed
    <3>2. \A S \in {{}, UNION {cached[d] : d \in Actor}} : S \subseteq Chunk
      BY <3>1
    <3>3. QED
      BY <2>1, <3>1, <3>2
  <2>5. owner' \in [Client -> 0 .. spawned']
    <3>1. owner \in [Client -> 0 .. spawned]
      BY DEF Typed
    <3>2. \A o \in 0 .. spawned : o \in 0 .. b
      BY <2>2
    <3>3. QED
      BY <2>1, <2>2, <3>1, <3>2
  <2>6. \A a \in Actor : phase'[a] = "none" <=> a > spawned'
    <3> SUFFICES ASSUME NEW a \in Actor PROVE phase'[a] = "none" <=> a > b
      BY <2>1
    <3>1. /\ phase'[a] = IF a = b THEN "drain" ELSE phase[a]
          /\ phase[a] = "none" <=> a > spawned
      BY <2>1 DEF Typed
    <3>2. a \in Nat
      BY ActorsCounted
    <3>3. QED
      BY <2>2, <3>1, <3>2
  <2>7. /\ phase' \in [Actor -> {"none", "drain", "select", "download", "forward", "error", "stopped"}]
        /\ at' \in [Client -> {"idle", "create", "subscribe", "refused", "stream", "ended", "left"}]
    BY <2>1 DEF Typed
  <2>8. QED
    BY <2>1, <2>3, <2>4, <2>5, <2>6, <2>7 DEF Typed
<1>3. CASE Subscribe(c)
  <2>1. mailbox' \in [Actor -> Seq(Client)]
    <3>1. \/ mailbox' = mailbox
          \/ mailbox' = [mailbox EXCEPT ![owner[c]] = Append(mailbox[owner[c]], c)]
      BY <1>3 DEF Subscribe
    <3>2. owner[c] \in Actor
      BY <1>3 DEF Subscribe, Places
    <3>3. mailbox \in [Actor -> Seq(Client)]
      BY DEF Typed
    <3>4. Append(mailbox[owner[c]], c) \in Seq(Client)
      BY <3>2, <3>3
    <3>5. QED
      BY <3>1, <3>2, <3>3, <3>4
  <2>2. at' = [at EXCEPT ![c] = "refused"] \/ at' = [at EXCEPT ![c] = "stream"]
    BY <1>3 DEF Subscribe
  <2>3. at' \in [Client -> {"idle", "create", "subscribe", "refused", "stream", "ended", "left"}]
    BY <2>2 DEF Typed
  <2>4. UNCHANGED <<managerVars, phase, subscribers, completed, prefetching, cached,
                    current, turn, range, owner, unread, sent, failed, joined>>
    BY <1>3 DEF Subscribe
  <2>5. QED
    BY <2>1, <2>3, <2>4 DEF Typed, managerVars
<1>4. CASE Read(c) \/ EndOfStream(c) \/ Leave(c)
  <2>1. /\ UNCHANGED <<managerVars, actorVars, range, owner, sent, failed, joined>>
        /\ \/ unread' = unread
           \/ unread[c] > 0 /\ unread' = [unread EXCEPT ![c] = @ - 1]
           \/ unread' = [unread EXCEPT ![c] = 0]
        /\ \/ at' = at
           \/ at' = [at EXCEPT ![c] = "ended"]
           \/ at' = [at EXCEPT ![c] = "left"]
    BY <1>4 DEF Read, EndOfStream, Leave
  <2>2. unread' \in [Client -> 0 .. Capacity]
    <3>1. unread \in [Client -> 0 .. Capacity]
      BY DEF Typed
    <3>2. 0 \in 0 .. Capacity /\ (unread[c] > 0 => unread[c] - 1 \in 0 .. Capacity)
      BY <3>1, ActorsCounted
    <3>3. QED
      BY <2>1, <3>1, <3>2
  <2>3. at' \in [Client -> {"idle", "create", "subscribe", "refused", "stream", "ended", "left"}]
    BY <2>1 DEF Typed
  <2>4. QED
    BY <2>1, <2>2, <2>3 DEF Typed, managerVars, actorVars
<1>5. QED
  BY <1>1, <1>2, <1>3, <1>4 DEF ClientStep

\* An actor that is there goes on to another phase.
LEMMA PhaseTyped ==
  ASSUME Typed, NEW a \in Actor, phase[a] # "none", spawned' = spawned,
         NEW p \in {"drain", "select", "download", "forward", "error", "stopped"},
         phase' = [phase EXCEPT ![a] = p]
  PROVE  /\ phase' \in [Actor -> {"none", "drain", "select", "download", "forward", "error",
                                  "stopped"}]
         /\ \A b \in Actor : phase'[b] = "none" <=> b > spawned'
<1>1. phase \in [Actor -> {"none", "drain", "select", "download", "forward", "error", "stopped"}]
  BY DEF Typed
<1>2. \A b \in Actor : phase'[b] = IF b = a THEN p ELSE phase[b]
  BY <1>1
<1>3. \A b \in Actor : phase'[b] = "none" <=> phase[b] = "none"
  BY <1>2
<1>4. QED
  BY <1>1, <1>3 DEF Typed

\* The channel of the subscriber whose turn it is, when the message is sent.
LEMMA RoomForOne ==
  ASSUME Typed, NEW c \in Client, HasRoom(c)
  PROVE  [unread EXCEPT ![c] = @ + 1] \in [Client -> 0 .. Capacity]
<1>1. unread \in [Client -> 0 .. Capacity] /\ unread[c] < Capacity
  BY DEF Typed, HasRoom
<1>2. unread[c] + 1 \in 0 .. Capacity
  BY <1>1, ActorsCounted
<1>3. QED
  BY <1>1, <1>2

\* An actor stops.
LEMMA StopTyped ==
  ASSUME Typed, NEW a \in Actor, Stop(a), phase[a] # "none",
         prefetching' = [prefetching EXCEPT ![a] = {}],
         UNCHANGED <<managerVars, clientVars, completed, cached, current, turn, joined>>
  PROVE  Typed'
<1>1. /\ phase' \in [Actor -> {"none", "drain", "select", "download", "forward", "error", "stopped"}]
      /\ \A b \in Actor : phase'[b] = "none" <=> b > spawned'
  BY PhaseTyped DEF Stop, managerVars
<1>2. mailbox' \in [Actor -> Seq(Client)] /\ subscribers' \in [Actor -> Seq(Client)]
  <2>1. mailbox \in [Actor -> Seq(Client)] /\ subscribers \in [Actor -> Seq(Client)]
    BY DEF Typed
  <2>2. <<>> \in Seq(Client)
    OBVIOUS
  <2>3. QED
    BY <2>1, <2>2 DEF Stop
<1>3. prefetching' \in [Actor -> SUBSET Chunk]
  BY DEF Typed
<1>4. QED
  BY <1>1, <1>2, <1>3 DEF Typed, managerVars, clientVars

LEMMA ActorTyped ==
  ASSUME Typed, Held, Places, NEW a \in Actor, ActorStep(a) \/ PrefetchStored(a) \/ Hang(a)
  PROVE  Typed'
<1>1. /\ mailbox[a] \in Seq(Client) /\ subscribers[a] \in Seq(Client)
      /\ completed[a] \in SUBSET Chunk /\ prefetching[a] \in SUBSET Chunk
      /\ cached[a] \in SUBSET Chunk /\ current[a] \in Chunk
      /\ turn[a] \in Nat \ {0} /\ joined[a] \in SUBSET Client
  BY DEF Typed
<1>2. CASE Drain(a)
  <2>1. /\ phase[a] = "drain" /\ phase' = [phase EXCEPT ![a] = "select"]
        /\ subscribers' = [subscribers EXCEPT ![a] = subscribers[a] \o mailbox[a]]
        /\ mailbox' = [mailbox EXCEPT ![a] = <<>>]
        /\ joined' = [joined EXCEPT ![a] = joined[a] \cup Range(mailbox[a])]
        /\ UNCHANGED <<managerVars, clientVars, completed, prefetching, cached, current, turn>>
    BY <1>2 DEF Drain
  <2>2. /\ phase' \in [Actor -> {"none", "drain", "select", "download", "forward", "error", "stopped"}]
        /\ \A b \in Actor : phase'[b] = "none" <=> b > spawned'
    BY <2>1, PhaseTyped DEF managerVars
  <2>3. subscribers' \in [Actor -> Seq(Client)]
    <3>1. subscribers[a] \o mailbox[a] \in Seq(Client)
      BY <1>1
    <3>2. QED
      BY <2>1, <3>1 DEF Typed
  <2>4. mailbox' \in [Actor -> Seq(Client)]
    <3>1. <<>> \in Seq(Client)
      OBVIOUS
    <3>2. QED
      BY <2>1, <3>1 DEF Typed
  <2>5. joined' \in [Actor -> SUBSET Client]
    <3>1. Range(mailbox[a]) \subseteq Client
      <4>1. \A n \in DOMAIN mailbox[a] : mailbox[a][n] \in Client
        BY <1>1
      <4>2. QED
        BY <4>1 DEF Range
    <3>2. QED
      BY <1>1, <2>1, <3>1 DEF Typed
  <2>6. QED
    BY <2>1, <2>2, <2>3, <2>4, <2>5 DEF Typed, managerVars, clientVars
<1>3. CASE Select(a)
  <2>s. PICK s : s = Retain(subscribers[a])
    OBVIOUS
  <2>1. s \in Seq(Client)
    BY <2>s, SubscribersKept DEF Keeps
  <2>2. \A i \in SelectNext(a, s) : i \in Chunk
    BY SelectedNeeded
  <2>3. /\ UNCHANGED <<managerVars, clientVars, completed, cached, turn, joined>>
        /\ phase[a] = "select"
    BY <1>3 DEF Select
  <2>4. CASE Stop(a) /\ prefetching' = [prefetching EXCEPT ![a] = {}] /\ UNCHANGED current
    BY <2>3, <2>4, StopTyped
  <2>5. ASSUME NEW i \in SelectNext(a, s), phase' = [phase EXCEPT ![a] = "download"],
               subscribers' = [subscribers EXCEPT ![a] = s],
               current' = [current EXCEPT ![a] = i],
               prefetching' = [prefetching EXCEPT ![a] =
                                 ((prefetching[a] \ completed[a]) \ cached[a]) \ {i}],
               UNCHANGED mailbox
        PROVE  Typed'
    <3>1. /\ phase' \in [Actor -> {"none", "drain", "select", "download", "forward", "error", "stopped"}]
          /\ \A b \in Actor : phase'[b] = "none" <=> b > spawned'
      BY <2>3, <2>5, PhaseTyped DEF managerVars
    <3>2. subscribers' \in [Actor -> Seq(Client)]
      BY <2>1, <2>5 DEF Typed
    <3>3. current' \in [Actor -> Chunk]
      BY <2>2, <2>5 DEF Typed
    <3>4. prefetching' \in [Actor -> SUBSET Chunk]
      <4>1. ((prefetching[a] \ completed[a]) \ cached[a]) \ {i} \in SUBSET Chunk
        BY <1>1
      <4>2. QED
        BY <2>5, <4>1 DEF Typed
    <3>5. QED
      BY <2>3, <2>5, <3>1, <3>2, <3>3, <3>4 DEF Typed, managerVars, clientVars
  <2>6. QED
    BY <1>3, <2>s, <2>4, <2>5 DEF Select
<1>4. CASE Arrive(a) \/ Fail(a)
  <2>1. /\ phase[a] = "download"
        /\ \/ phase' = [phase EXCEPT ![a] = "forward"]
           \/ phase' = [phase EXCEPT ![a] = "error"]
        /\ turn' = [turn EXCEPT ![a] = 1]
        /\ \/ cached' = [cached EXCEPT ![a] = cached[a] \cup {current[a]}]
           \/ cached' = [cached EXCEPT ![a] = cached[a] \ {current[a]}]
        /\ UNCHANGED <<managerVars, clientVars, mailbox, subscribers, completed,
                       prefetching, current, joined>>
    BY <1>4 DEF Arrive, Fail
  <2>2. /\ phase' \in [Actor -> {"none", "drain", "select", "download", "forward", "error", "stopped"}]
        /\ \A b \in Actor : phase'[b] = "none" <=> b > spawned'
    BY <2>1, PhaseTyped DEF managerVars
  <2>3. cached' \in [Actor -> SUBSET Chunk]
    <3>1. cached \in [Actor -> SUBSET Chunk]
      BY DEF Typed
    <3>2. cached[a] \cup {current[a]} \in SUBSET Chunk /\ cached[a] \ {current[a]} \in SUBSET Chunk
      BY <1>1
    <3>3. PICK S \in SUBSET Chunk : cached' = [cached EXCEPT ![a] = S]
      BY <2>1, <3>2
    <3>4. QED
      BY <3>1, <3>3
  <2>4. turn' \in [Actor -> Nat \ {0}]
    <3>1. 1 \in Nat \ {0}
      OBVIOUS
    <3>2. QED
      BY <2>1, <3>1 DEF Typed
  <2>5. QED
    BY <2>1, <2>2, <2>3, <2>4 DEF Typed, managerVars, clientVars
<1>5. CASE Forward(a)
  <2>c. PICK c : c = subscribers[a][turn[a]]
    OBVIOUS
  <2>i. PICK i : i = current[a]
    OBVIOUS
  <2>1. /\ turn' = [turn EXCEPT ![a] = turn[a] + 1]
        /\ UNCHANGED <<managerVars, phase, mailbox, subscribers, completed, prefetching,
                       cached, current, at, range, owner, failed, joined>>
        /\ turn[a] <= Len(subscribers[a])
        /\ \/ /\ HasRoom(c) /\ unread' = [unread EXCEPT ![c] = @ + 1]
              /\ sent' = [sent EXCEPT ![c] = Append(@, Slice(c, i, data[a]))]
           \/ UNCHANGED <<sent, unread>>
    BY <1>5, <2>c, <2>i DEF Forward
  <2>2. c \in Client /\ i \in Chunk /\ turn[a] + 1 \in Nat \ {0}
    BY <1>1, <2>c, <2>i, <2>1
  <2>3. turn' \in [Actor -> Nat \ {0}]
    BY <2>1, <2>2 DEF Typed
  <2>4. unread' \in [Client -> 0 .. Capacity]
    <3>1. HasRoom(c) => [unread EXCEPT ![c] = @ + 1] \in [Client -> 0 .. Capacity]
      BY <2>2, RoomForOne
    <3>2. unread \in [Client -> 0 .. Capacity]
      BY DEF Typed
    <3>3. QED
      BY <2>1, <3>1, <3>2
  <2>5. sent' \in [Client -> Seq(Int \X Int)]
    <3>1. sent \in [Client -> Seq(Int \X Int)]
      BY DEF Typed
    <3>2. Append(sent[c], Slice(c, i, data[a])) \in Seq(Int \X Int)
      <4>1. Slice(c, i, data[a]) \in Int \X Int
        BY <2>2, <2>i, SliceBytes DEF Held
      <4>2. QED
        BY <2>2, <3>1, <4>1
    <3>3. QED
      BY <2>1, <3>1, <3>2
  <2>6. QED
    BY <2>1, <2>3, <2>4, <2>5 DEF Typed, managerVars
<1>6. CASE Advance(a)
  <2>1. /\ phase[a] = "forward" /\ phase' = [phase EXCEPT ![a] = "drain"]
        /\ completed' = [completed EXCEPT ![a] = Done(a)]
        /\ prefetching' = [prefetching EXCEPT ![a] = prefetching[a] \cup Prefetched(a, Done(a))]
        /\ UNCHANGED <<managerVars, clientVars, mailbox, subscribers, cached, current, turn, joined>>
    BY <1>6 DEF Advance
  <2>2. /\ phase' \in [Actor -> {"none", "drain", "select", "download", "forward", "error", "stopped"}]
        /\ \A b \in Actor : phase'[b] = "none" <=> b > spawned'
    BY <2>1, PhaseTyped DEF managerVars
  <2>3. completed' \in [Actor -> SUBSET Chunk]
    <3>1. Done(a) \in SUBSET Chunk
      BY <1>1 DEF Done
    <3>2. QED
      BY <2>1, <3>1 DEF Typed
  <2>4. prefetching' \in [Actor -> SUBSET Chunk]
    <3>1. prefetching[a] \cup Prefetched(a, Done(a)) \in SUBSET Chunk
      BY <1>1 DEF Prefetched
    <3>2. QED
      BY <2>1, <3>1 DEF Typed
  <2>5. QED
    BY <2>1, <2>2, <2>3, <2>4 DEF Typed, managerVars, clientVars
<1>7. CASE ForwardError(a)
  <2>c. PICK c : c = subscribers[a][turn[a]]
    OBVIOUS
  <2>1. /\ turn' = [turn EXCEPT ![a] = turn[a] + 1]
        /\ UNCHANGED <<managerVars, phase, mailbox, subscribers, completed, prefetching,
                       cached, current, at, range, owner, sent, joined>>
        /\ turn[a] <= Len(subscribers[a])
        /\ failed' = [failed EXCEPT ![c] = TRUE]
        /\ IF Closed(c) THEN unread' = unread
           ELSE HasRoom(c) /\ unread' = [unread EXCEPT ![c] = @ + 1]
    BY <1>7, <2>c DEF ForwardError
  <2>2. c \in Client /\ turn[a] + 1 \in Nat \ {0}
    BY <1>1, <2>c, <2>1
  <2>3. turn' \in [Actor -> Nat \ {0}] /\ failed' \in [Client -> BOOLEAN]
    BY <2>1, <2>2 DEF Typed
  <2>4. unread' \in [Client -> 0 .. Capacity]
    <3>1. CASE Closed(c)
      BY <2>1, <3>1 DEF Typed
    <3>2. CASE ~ Closed(c)
      BY <2>1, <2>2, <3>2, RoomForOne
    <3>3. QED
      BY <3>1, <3>2
  <2>5. QED
    BY <2>1, <2>3, <2>4 DEF Typed, managerVars
<1>8. CASE GiveUp(a)
  BY <1>8, StopTyped DEF GiveUp
<1>9. CASE PrefetchStored(a) \/ Hang(a)
  <2>1. /\ UNCHANGED <<entry, spawned, clientVars, phase, mailbox, subscribers, completed,
                       prefetching, current, turn, joined>>
        /\ \/ \E i \in prefetching[a] : cached' = [cached EXCEPT ![a] = @ \cup {i}]
           \/ \E i : cached' = [cached EXCEPT ![a] = @ \ {i}]
    BY <1>9 DEF PrefetchStored, Hang, managerVars
  <2>2. cached' \in [Actor -> SUBSET Chunk]
    <3>1. \A i \in prefetching[a] : cached[a] \cup {i} \in SUBSET Chunk
      BY <1>1
    <3>2. \A i : cached[a] \ {i} \in SUBSET Chunk
      BY <1>1
    <3>3. PICK S \in SUBSET Chunk : cached' = [cached EXCEPT ![a] = S]
      BY <2>1, <3>1, <3>2
    <3>4. QED
      BY <3>3 DEF Typed
  <2>3. QED
    BY <2>1, <2>2 DEF Typed, managerVars, clientVars
<1>10. QED
  BY <1>2, <1>3, <1>4, <1>5, <1>6, <1>7, <1>8, <1>9 DEF ActorStep

LEMMA TypedStep ==
  Typed /\ Held /\ Places /\ [SessionNext]_sessionVars => Typed'
<1> SUFFICES ASSUME Typed, Held, Places, [SessionNext]_sessionVars PROVE Typed'
  OBVIOUS
<1>1. CASE UNCHANGED sessionVars
  BY <1>1 DEF sessionVars, managerVars, actorVars, clientVars, Typed
<1>2. QED
  BY <1>1, ClientTyped, ActorTyped DEF SessionNext

-----------------------------------------------------------------------------
(* Pieces of chunks *)

LEMMA HeldInit == SessionInit => Held
<1> SUFFICES ASSUME SessionInit PROVE Held
  OBVIOUS
<1>1. 0 \in Chunk
  BY CountCovers DEF Chunk
<1>2. 0 \in Nat /\ 0 \in 0 .. Size(0)
  <2>1. ChunkEnd(0) \in Int /\ ChunkStart(0) \in Int /\ ChunkStart(0) <= ChunkEnd(0)
    BY <1>1, ChunkBytes, SessionAssumption
  <2>2. Size(0) \in Nat
    BY <2>1 DEF Size
  <2>3. QED
    BY <2>2
<1>3. QED
  BY <1>1, <1>2 DEF SessionInit, Held

\* No chunk comes, and the actor is not done with one.
LEMMA HeldOn ==
  ASSUME Typed, Typed', Held, stuck' \subseteq Chunk, UNCHANGED pieceVars, NEW a \in Actor,
         \A b \in Actor \ {a} : phase'[b] = phase[b] /\ current'[b] = current[b],
         phase[a] = "forward" <=> phase'[a] = "forward",
         phase[a] = "forward" => current'[a] = current[a]
  PROVE  Held'
<1>1. data' = data /\ cut' = cut
  BY DEF pieceVars
<1>2. ASSUME NEW b \in Actor
      PROVE  /\ data'[b] \in 0 .. Size(current'[b])
             /\ phase'[b] # "forward" => data'[b] = 0
             /\ phase'[b] = "forward" /\ data'[b] # Size(current'[b])
                  => current'[b] \in cut'[b]
  <2>1. /\ data[b] \in 0 .. Size(current[b])
        /\ phase[b] # "forward" => data[b] = 0
        /\ phase[b] = "forward" /\ data[b] # Size(current[b]) => current[b] \in cut[b]
    BY DEF Held
  <2>2. CASE phase[b] = "forward"
    BY <1>1, <2>1, <2>2
  <2>3. CASE phase[b] # "forward"
    <3>1. current'[b] \in Chunk
      BY DEF Typed
    <3>2. ChunkEnd(current'[b]) \in Int /\ ChunkStart(current'[b]) \in Int
          /\ ChunkStart(current'[b]) <= ChunkEnd(current'[b])
      BY <3>1, ChunkBytes, SessionAssumption
    <3>3. Size(current'[b]) \in Nat
      BY <3>2 DEF Size
    <3>4. data'[b] = 0 /\ phase'[b] # "forward"
      BY <1>1, <2>1, <2>3
    <3>5. QED
      BY <3>3, <3>4
  <2>4. QED
    BY <2>2, <2>3
<1>3. QED
  BY <1>1, <1>2 DEF Held

LEMMA ClientHeld ==
  ASSUME Typed, Typed', Held, NEW c \in Client, ClientStep(c) \/ Leave(c)
  PROVE  Held'
<1>1. UNCHANGED <<stuck, current, data, cut>>
  BY DEF ClientStep, Find, Create, Subscribe, Read, EndOfStream, Leave, managerVars, actorVars,
         pieceVars
<1>2. CASE Create(c)
  <2> DEFINE b == spawned + 1
  <2>1. b \in Actor /\ phase' = [phase EXCEPT ![b] = "drain"]
    BY <1>2 DEF Create
  <2>2. phase[b] = "none"
    <3>1. spawned \in Nat
      BY ActorsCounted DEF Typed
    <3>2. b > spawned
      BY <3>1
    <3>3. QED
      BY <2>1, <3>2 DEF Typed
  <2> HIDE DEF b
  <2>3. phase'[b] = "drain" /\ \A d \in Actor \ {b} : phase'[d] = phase[d]
    BY <2>1 DEF Typed
  <2>4. QED
    BY <1>1, <2>1, <2>2, <2>3, HeldOn DEF Held, pieceVars
<1>3. CASE ~ Create(c)
  <2>1. phase' = phase
    BY <1>3 DEF ClientStep, Find, Subscribe, Read, EndOfStream, Leave, actorVars
  <2>2. QED
    BY <1>1, <2>1 DEF Held
<1>4. QED
  BY <1>2, <1>3

\* A chunk, or what there is of it, has come.
LEMMA ArriveHeld ==
  ASSUME Typed, Held, NEW a \in Actor, Arrive(a)
  PROVE  Held'
<1>1. /\ phase[a] = "download" /\ phase' = [phase EXCEPT ![a] = "forward"]
      /\ UNCHANGED <<stuck, current>>
  BY DEF Arrive, managerVars
<1>2. PICK n \in Pieces(current[a]) :
        /\ data' = [data EXCEPT ![a] = n]
        /\ cut' = IF n = Size(current[a]) THEN cut ELSE [cut EXCEPT ![a] = @ \cup {current[a]}]
  BY DEF Arrive
<1>3. n \in 0 .. Size(current[a]) /\ n \in Nat /\ current[a] \in Chunk
  <2>1. current[a] \in Chunk /\ n \in 0 .. Size(current[a])
    BY DEF Typed, Pieces
  <2>2. QED
    BY <2>1, ChunkSizes
<1>4. cut' \in [Actor -> SUBSET Chunk] /\ \A b \in Actor : cut[b] \subseteq cut'[b]
  <2>1. cut \in [Actor -> SUBSET Chunk]
    BY DEF Held
  <2>2. QED
    BY <1>2, <1>3, <2>1
<1>5. data' \in [Actor -> Nat]
  BY <1>2, <1>3 DEF Held
<1>6. ASSUME NEW b \in Actor
      PROVE  /\ data'[b] \in 0 .. Size(current'[b])
             /\ phase'[b] # "forward" => data'[b] = 0
             /\ phase'[b] = "forward" /\ data'[b] # Size(current'[b])
                  => current'[b] \in cut'[b]
  <2>1. CASE b = a
    <3>1. data'[a] = n /\ phase'[a] = "forward" /\ current'[a] = current[a]
      BY <1>1, <1>2 DEF Held, Typed
    <3>2. n # Size(current[a]) => current[a] \in cut'[a]
      BY <1>2 DEF Held
    <3>3. QED
      BY <1>3, <2>1, <3>1, <3>2
  <2>2. CASE b # a
    <3>1. data'[b] = data[b] /\ phase'[b] = phase[b] /\ current'[b] = current[b]
      BY <1>1, <1>2, <2>2 DEF Held, Typed
    <3>2. QED
      BY <1>4, <3>1 DEF Held
  <2>3. QED
    BY <2>1, <2>2
<1>7. QED
  BY <1>1, <1>4, <1>5, <1>6 DEF Held

\* The actor is done with its chunk.
LEMMA AdvanceHeld ==
  ASSUME Typed, Held, NEW a \in Actor, Advance(a)
  PROVE  Held'
<1>1. /\ phase' = [phase EXCEPT ![a] = "drain"] /\ data' = [data EXCEPT ![a] = 0]
      /\ UNCHANGED <<stuck, current, cut>>
  BY DEF Advance, managerVars
<1>2. data' \in [Actor -> Nat]
  BY <1>1 DEF Held
<1>3. current[a] \in Chunk /\ Size(current[a]) \in Nat
  <2>1. current[a] \in Chunk /\ data[a] \in 0 .. Size(current[a])
    BY DEF Typed, Held
  <2>2. QED
    BY <2>1, ChunkSizes
<1>4. ASSUME NEW b \in Actor
      PROVE  /\ data'[b] \in 0 .. Size(current'[b])
             /\ phase'[b] # "forward" => data'[b] = 0
             /\ phase'[b] = "forward" /\ data'[b] # Size(current'[b])
                  => current'[b] \in cut'[b]
  <2>1. CASE b = a
    <3>1. data'[a] = 0 /\ phase'[a] = "drain"
      BY <1>1 DEF Held, Typed
    <3>2. QED
      BY <1>1, <1>3, <2>1, <3>1
  <2>2. CASE b # a
    <3>1. data'[b] = data[b] /\ phase'[b] = phase[b]
      BY <1>1, <2>2 DEF Held, Typed
    <3>2. QED
      BY <1>1, <3>1 DEF Held
  <2>3. QED
    BY <2>1, <2>2
<1>5. QED
  BY <1>1, <1>2, <1>4 DEF Held

LEMMA ActorHeld ==
  ASSUME Typed, Typed', Held, NEW a \in Actor, ActorStep(a) \/ PrefetchStored(a) \/ Hang(a)
  PROVE  Held'
<1>1. CASE Arrive(a)
  BY <1>1, ArriveHeld
<1>2. CASE Advance(a)
  BY <1>2, AdvanceHeld
<1>3. CASE Drain(a) \/ Select(a) \/ Fail(a) \/ GiveUp(a)
  <2>1. /\ UNCHANGED <<stuck, pieceVars>> /\ phase[a] # "forward"
        /\ \E p \in {"select", "stopped", "download", "error"} :
             phase' = [phase EXCEPT ![a] = p]
    BY <1>3 DEF Drain, Select, Fail, GiveUp, Stop, managerVars
  <2>2. \A b \in Actor \ {a} : current'[b] = current[b]
    BY <1>3 DEF Drain, Select, Fail, GiveUp, Typed
  <2>3. phase'[a] # "forward" /\ \A b \in Actor \ {a} : phase'[b] = phase[b]
    BY <2>1 DEF Typed
  <2>4. QED
    BY <2>1, <2>2, <2>3, HeldOn DEF Held
<1>4. CASE Forward(a) \/ ForwardError(a) \/ PrefetchStored(a)
  <2>1. UNCHANGED <<stuck, pieceVars, phase, current>>
    BY <1>4 DEF Forward, ForwardError, PrefetchStored, managerVars
  <2>2. QED
    BY <2>1, HeldOn DEF Held
<1>5. CASE Hang(a)
  <2>1. UNCHANGED <<pieceVars, phase, current>>
    BY <1>5 DEF Hang
  <2>2. stuck' \subseteq Chunk
    <3>1. prefetching[a] \subseteq Chunk /\ current[a] \in Chunk /\ stuck \subseteq Chunk
      BY DEF Typed, Held
    <3>2. QED
      BY <1>5, <3>1 DEF Hang
  <2>3. QED
    BY <2>1, <2>2, HeldOn
<1>6. QED
  BY <1>1, <1>2, <1>3, <1>4, <1>5 DEF ActorStep

LEMMA HeldStep ==
  Typed /\ Typed' /\ Held /\ [SessionNext]_sessionVars => Held'
<1> SUFFICES ASSUME Typed, Typed', Held, [SessionNext]_sessionVars PROVE Held'
  OBVIOUS
<1>1. CASE UNCHANGED sessionVars
  BY <1>1 DEF sessionVars, managerVars, actorVars, pieceVars, Held
<1>2. QED
  BY <1>1, ClientHeld, ActorHeld DEF SessionNext

-----------------------------------------------------------------------------
(* Places *)

LEMMA PlacesInit == SessionInit => Places
BY DEF SessionInit, Places

\* Steps that send nothing and move nobody.
LEMMA NobodyMoves ==
  ASSUME Places, UNCHANGED <<mailbox, subscribers, at, owner, sent>>,
         \A a \in Actor : phase'[a] \in {"none", "stopped"} => phase[a] \in {"none", "stopped"}
  PROVE  Places'
BY DEF Places, Subscribed

\* One client goes on, and the sequences of the actors stay as they are.
LEMMA OneMoves ==
  ASSUME Typed, Places, NEW c \in Client, UNCHANGED <<mailbox, subscribers, sent>>,
         \A d \in Client \ {c} : at'[d] = at[d] /\ owner'[d] = owner[d],
         \A a \in Actor : phase'[a] \in {"none", "stopped"} => phase[a] \in {"none", "stopped"},
         \/ ~ HasSender(c)
         \/ at[c] \in {"stream", "left"} /\ at'[c] \in {"stream", "left"} /\ owner'[c] = owner[c],
         at'[c] \in {"idle", "create", "subscribe", "refused"} => sent[c] = <<>>,
         at'[c] \notin {"idle", "create"} => owner'[c] \in Actor,
         at'[c] \in {"idle", "create"} => owner'[c] = 0
  PROVE  Places'
<1>1. ASSUME NEW a \in Actor, NEW n \in DOMAIN mailbox[a]
      PROVE  /\ mailbox[a][n] \in Client
             /\ owner'[mailbox[a][n]] = a /\ at'[mailbox[a][n]] \in {"stream", "left"}
  <2>1. /\ mailbox[a] \in Seq(Client) /\ mailbox[a][n] \in Client /\ n \in 1 .. Len(mailbox[a])
        /\ owner[mailbox[a][n]] = a /\ at[mailbox[a][n]] \in {"stream", "left"}
    <3>1. mailbox[a] \in Seq(Client)
      BY DEF Typed
    <3>2. mailbox[a][n] \in Client /\ n \in 1 .. Len(mailbox[a])
      BY <3>1
    <3>3. owner[mailbox[a][n]] = a /\ at[mailbox[a][n]] \in {"stream", "left"}
      BY DEF Places
    <3>4. QED
      BY <3>1, <3>2, <3>3
  <2>2. CASE mailbox[a][n] = c
    BY <2>1, <2>2 DEF HasSender, Contains
  <2>3. CASE mailbox[a][n] # c
    BY <2>1, <2>3
  <2>4. QED
    BY <2>1, <2>2, <2>3
<1>2. ASSUME NEW a \in Actor, NEW n \in DOMAIN subscribers[a]
      PROVE  /\ subscribers[a][n] \in Client
             /\ owner'[subscribers[a][n]] = a /\ at'[subscribers[a][n]] \in {"stream", "left"}
  <2>1. /\ subscribers[a] \in Seq(Client) /\ subscribers[a][n] \in Client
        /\ n \in 1 .. Len(subscribers[a])
        /\ owner[subscribers[a][n]] = a /\ at[subscribers[a][n]] \in {"stream", "left"}
    <3>1. subscribers[a] \in Seq(Client)
      BY DEF Typed
    <3>2. subscribers[a][n] \in Client /\ n \in 1 .. Len(subscribers[a])
      BY <3>1
    <3>3. owner[subscribers[a][n]] = a /\ at[subscribers[a][n]] \in {"stream", "left"}
      BY DEF Places
    <3>4. QED
      BY <3>1, <3>2, <3>3
  <2>2. CASE subscribers[a][n] = c
    BY <2>1, <2>2 DEF HasSender, Contains
  <2>3. CASE subscribers[a][n] # c
    BY <2>1, <2>3
  <2>4. QED
    BY <2>1, <2>2, <2>3
<1>3. \A d \in Client :
        /\ at'[d] \in {"idle", "create", "subscribe", "refused"} => sent'[d] = <<>>
        /\ at'[d] \notin {"idle", "create"} => owner'[d] \in Actor
        /\ at'[d] \in {"idle", "create"} => owner'[d] = 0
  <2> SUFFICES ASSUME NEW d \in Client
               PROVE  /\ at'[d] \in {"idle", "create", "subscribe", "refused"} => sent'[d] = <<>>
                      /\ at'[d] \notin {"idle", "create"} => owner'[d] \in Actor
                      /\ at'[d] \in {"idle", "create"} => owner'[d] = 0
    OBVIOUS
  <2>1. CASE d = c
    BY <2>1
  <2>2. CASE d # c
    BY <2>2 DEF Places
  <2>3. QED
    BY <2>1, <2>2
<1>4. QED
  BY <1>1, <1>2, <1>3 DEF Places, Subscribed

\* Whoever is not yet, or no longer, at its stream is with no actor.
LEMMA Elsewhere ==
  ASSUME Typed, Places, NEW c \in Client, at[c] \notin {"stream", "left"}
  PROVE  ~ HasSender(c)
<1> SUFFICES ASSUME NEW a \in Actor, Contains(mailbox[a], c) \/ Contains(subscribers[a], c)
             PROVE  FALSE
  BY DEF HasSender
<1>1. mailbox[a] \in Seq(Client) /\ subscribers[a] \in Seq(Client)
  BY DEF Typed
<1>2. \/ \E n \in DOMAIN mailbox[a] : mailbox[a][n] = c
      \/ \E n \in DOMAIN subscribers[a] : subscribers[a][n] = c
  BY <1>1 DEF Contains
<1>3. QED
  BY <1>2 DEF Places

LEMMA ClientPlaces ==
  ASSUME Typed, Places, NEW c \in Client, ClientStep(c) \/ Leave(c)
  PROVE  Places'
<1>1. MaxActor \in Nat /\ spawned \in Nat /\ \A a \in Actor : a \in Nat
  BY SessionAssumption DEF Actor, Typed
<1>2. CASE Find(c)
  <2>1. ~ HasSender(c) /\ sent[c] = <<>> /\ owner[c] = 0
    BY <1>2, Elsewhere DEF Find, Places
  <2>2. entry # 0 => entry \in Actor
    BY <1>1 DEF Typed, Actor
  <2>3. UNCHANGED <<mailbox, subscribers, sent, phase>>
    BY <1>2 DEF Find, actorVars
  <2>4. \/ at'[c] = "subscribe" /\ owner'[c] = entry /\ entry # 0
        \/ at'[c] = "create" /\ owner'[c] = owner[c]
    BY <1>2 DEF Find, Typed
  <2>5. \A d \in Client \ {c} : at'[d] = at[d] /\ owner'[d] = owner[d]
    BY <1>2 DEF Find, Typed
  <2>6. QED
    BY <2>1, <2>2, <2>3, <2>4, <2>5, OneMoves
<1>3. CASE Create(c)
  <2> DEFINE b == spawned + 1
  <2>1. ~ HasSender(c) /\ sent[c] = <<>>
    BY <1>3, Elsewhere DEF Create, Places
  <2>2. UNCHANGED <<mailbox, subscribers, sent>> /\ b \in Actor
    BY <1>3 DEF Create
  <2>3. at'[c] = "subscribe" /\ owner'[c] = b
    BY <1>3 DEF Create, Typed
  <2>4. \A d \in Client \ {c} : at'[d] = at[d] /\ owner'[d] = owner[d]
    BY <1>3 DEF Create, Typed
  <2>5. \A a \in Actor : phase'[a] \in {"none", "stopped"} => phase[a] \in {"none", "stopped"}
    BY <1>3 DEF Create, Typed
  <2>6. QED
    BY <2>1, <2>2, <2>3, <2>4, <2>5, OneMoves
<1>4. CASE Subscribe(c)
  <2> DEFINE b == owner[c]
  <2>1. /\ b \in Actor /\ sent[c] = <<>> /\ ~ HasSender(c) /\ phase[b] # "none"
        /\ mailbox[b] \in Seq(Client) /\ subscribers[b] \in Seq(Client)
    <3>1. b \in Actor /\ sent[c] = <<>> /\ ~ HasSender(c)
      BY <1>4, Elsewhere DEF Subscribe, Places
    <3>2. b <= spawned
      BY <1>1, <3>1 DEF Typed
    <3>3. QED
      BY <1>1, <3>1, <3>2 DEF Typed
  <2>2. CASE phase[b] = "stopped"
    <3>1. UNCHANGED <<mailbox, subscribers, sent, phase, owner>>
      BY <1>4, <2>2 DEF Subscribe
    <3>2. at' = [at EXCEPT ![c] = "refused"]
      BY <1>4, <2>2 DEF Subscribe
    <3>3. QED
      BY <2>1, <3>1, <3>2, OneMoves DEF Typed
  <2>3. CASE phase[b] # "stopped"
    <3>1. /\ at' = [at EXCEPT ![c] = "stream"]
          /\ mailbox' = [mailbox EXCEPT ![b] = Append(mailbox[b], c)]
          /\ UNCHANGED <<phase, subscribers, owner, sent>>
      BY <1>4, <2>3 DEF Subscribe
    <3> HIDE DEF b
    <3>2. \A a \in Actor :
            /\ mailbox[a] \in Seq(Client) /\ subscribers[a] \in Seq(Client)
            /\ \A n \in DOMAIN mailbox[a] : mailbox[a][n] # c
            /\ \A n \in DOMAIN subscribers[a] : subscribers[a][n] # c
      <4>1. \A a \in Actor : ~ Contains(mailbox[a], c) /\ ~ Contains(subscribers[a], c)
        BY <2>1 DEF HasSender
      <4>2. \A a \in Actor : mailbox[a] \in Seq(Client) /\ subscribers[a] \in Seq(Client)
        BY DEF Typed
      <4>3. QED
        BY <4>1, <4>2 DEF Contains
    <3>3. \A d \in Client : at'[d] = IF d = c THEN "stream" ELSE at[d]
      BY <3>1 DEF Typed
    <3>4. ASSUME NEW a \in Actor, NEW n \in DOMAIN subscribers'[a]
          PROVE  /\ owner[subscribers[a][n]] = a /\ at'[subscribers[a][n]] \in {"stream", "left"}
                 /\ \A m \in DOMAIN subscribers[a] : subscribers[a][m] = subscribers[a][n] => m = n
      BY <3>1, <3>2, <3>3 DEF Places
    <3> DEFINE q == mailbox'[b]
    <3>5. /\ DOMAIN q = 1 .. Len(mailbox[b]) + 1 /\ Len(mailbox[b]) \in Nat
          /\ DOMAIN mailbox[b] = 1 .. Len(mailbox[b])
          /\ q[Len(mailbox[b]) + 1] = c
          /\ \A n \in 1 .. Len(mailbox[b]) : q[n] = mailbox[b][n]
      BY <2>1, <3>1 DEF Typed
    <3>6. ASSUME NEW n \in DOMAIN q
          PROVE  /\ owner[q[n]] = b /\ at'[q[n]] \in {"stream", "left"} /\ sent[q[n]] = <<>>
                 /\ \A m \in DOMAIN q : q[m] = q[n] => m = n
                 /\ ~ Subscribed(b, q[n])
      <4> HIDE DEF q
      <4>1. CASE n = Len(mailbox[b]) + 1
        <5>1. q[n] = c
          BY <3>5, <4>1
        <5>2. \A m \in DOMAIN q : q[m] = c => m = n
          BY <2>1, <3>2, <3>5, <4>1
        <5>3. QED
          BY <2>1, <3>2, <3>3, <5>1, <5>2 DEF Subscribed, b
      <4>2. CASE n # Len(mailbox[b]) + 1
        <5>1. n \in DOMAIN mailbox[b] /\ q[n] = mailbox[b][n] /\ q[n] \in Client
          BY <2>1, <3>5, <4>2
        <5>2. /\ owner[q[n]] = b /\ at[q[n]] \in {"stream", "left"} /\ sent[q[n]] = <<>>
              /\ ~ Subscribed(b, q[n])
              /\ \A m \in DOMAIN mailbox[b] : mailbox[b][m] = q[n] => m = n
          BY <2>1, <5>1 DEF Places
        <5>3. q[n] # c
          BY <2>1, <3>2, <5>1
        <5>4. ASSUME NEW m \in DOMAIN q, q[m] = q[n]
              PROVE  m = n
          <6>1. m # Len(mailbox[b]) + 1
            BY <3>5, <5>3, <5>4
          <6>2. m \in DOMAIN mailbox[b] /\ q[m] = mailbox[b][m]
            BY <2>1, <3>5, <5>4, <6>1
          <6>3. QED
            BY <5>2, <5>4, <6>2
        <5>5. QED
          BY <3>3, <5>1, <5>2, <5>4
      <4>3. QED
        BY <4>1, <4>2
    <3>7. ASSUME NEW a \in Actor, a # b
          PROVE  mailbox'[a] = mailbox[a]
      BY <2>1, <3>1, <3>7 DEF Typed
    <3>8. ASSUME NEW a \in Actor, a # b, NEW n \in DOMAIN mailbox[a]
          PROVE  /\ owner[mailbox[a][n]] = a /\ at'[mailbox[a][n]] \in {"stream", "left"}
                 /\ sent[mailbox[a][n]] = <<>>
                 /\ \A m \in DOMAIN mailbox[a] : mailbox[a][m] = mailbox[a][n] => m = n
                 /\ ~ Subscribed(a, mailbox[a][n])
      BY <3>2, <3>3 DEF Places
    <3>9. ASSUME NEW a \in Actor, NEW n \in DOMAIN mailbox'[a]
          PROVE  /\ owner[mailbox'[a][n]] = a /\ at'[mailbox'[a][n]] \in {"stream", "left"}
                 /\ sent[mailbox'[a][n]] = <<>>
                 /\ \A m \in DOMAIN mailbox'[a] : mailbox'[a][m] = mailbox'[a][n] => m = n
                 /\ ~ Subscribed(a, mailbox'[a][n])
      <4>1. CASE a = b
        <5>1. n \in DOMAIN q
          BY <4>1
        <5> HIDE DEF q
        <5>2. /\ owner[q[n]] = b /\ at'[q[n]] \in {"stream", "left"} /\ sent[q[n]] = <<>>
              /\ \A m \in DOMAIN q : q[m] = q[n] => m = n
              /\ ~ Subscribed(b, q[n])
          BY <3>6, <5>1
        <5>3. QED
          BY <4>1, <5>2 DEF q
      <4>2. CASE a # b
        BY <3>7, <3>8, <4>2
      <4>3. QED
        BY <4>1, <4>2
    <3>10. \A d \in Client :
             /\ at'[d] \in {"idle", "create", "subscribe", "refused"} => sent[d] = <<>>
             /\ at'[d] \notin {"idle", "create"} => owner[d] \in Actor
             /\ at'[d] \in {"idle", "create"} => owner[d] = 0
      BY <2>1, <3>3 DEF Places, b
    <3>11. ASSUME NEW a \in Actor, phase[a] \in {"none", "stopped"}
           PROVE  mailbox'[a] = <<>> /\ subscribers[a] = <<>>
      BY <2>1, <2>3, <3>7, <3>11 DEF Places
    <3>12. \A x, y : Subscribed(x, y)' <=> Subscribed(x, y)
      BY <3>1 DEF Subscribed
    <3>13. QED
      BY <3>1, <3>4, <3>9, <3>10, <3>11, <3>12 DEF Places
  <2>4. QED
    BY <2>2, <2>3
<1>5. CASE Read(c)
  BY <1>5, NobodyMoves DEF Read, actorVars
<1>6. CASE EndOfStream(c)
  <2>1. owner[c] \in Actor
    BY <1>6 DEF EndOfStream, Places
  <2>2. QED
    BY <1>6, <2>1, OneMoves DEF EndOfStream, actorVars, Typed
<1>7. CASE Leave(c)
  <2>1. owner[c] \in Actor
    BY <1>7 DEF Leave, Places
  <2>2. QED
    BY <1>7, <2>1, OneMoves DEF Leave, actorVars, Typed
<1>8. QED
  BY <1>2, <1>3, <1>4, <1>5, <1>6, <1>7 DEF ClientStep

\* The mailbox is appended to the subscribers.
LEMMA DrainPlaces ==
  ASSUME Typed, Places, NEW a \in Actor, Drain(a)
  PROVE  Places'
<1> DEFINE s == subscribers[a]
           m == mailbox[a]
           q == s \o m
<1>1. s \in Seq(Client) /\ m \in Seq(Client)
  BY DEF Typed
<1>2. /\ subscribers' = [subscribers EXCEPT ![a] = q]
      /\ mailbox' = [mailbox EXCEPT ![a] = <<>>]
      /\ phase' = [phase EXCEPT ![a] = "select"]
      /\ UNCHANGED <<at, owner, sent>>
  BY DEF Drain, clientVars
<1> HIDE DEF s, m
<1>3. /\ Len(s) \in Nat /\ Len(m) \in Nat /\ DOMAIN q = 1 .. Len(s) + Len(m)
      /\ DOMAIN s = 1 .. Len(s) /\ DOMAIN m = 1 .. Len(m)
      /\ \A n \in DOMAIN q : IF n <= Len(s) THEN n \in DOMAIN s /\ q[n] = s[n]
                             ELSE n - Len(s) \in DOMAIN m /\ q[n] = m[n - Len(s)]
  BY <1>1
<1> HIDE DEF q
<1>4. /\ \A n \in DOMAIN s : /\ owner[s[n]] = a /\ at[s[n]] \in {"stream", "left"}
                             /\ \A k \in DOMAIN s : s[k] = s[n] => k = n
      /\ \A n \in DOMAIN m : /\ owner[m[n]] = a /\ at[m[n]] \in {"stream", "left"}
                             /\ \A k \in DOMAIN m : m[k] = m[n] => k = n
                             /\ \A k \in DOMAIN s : s[k] # m[n]
  BY DEF Places, Subscribed, s, m
<1>5. ASSUME NEW n \in DOMAIN q
      PROVE  /\ owner[q[n]] = a /\ at[q[n]] \in {"stream", "left"}
             /\ \A k \in DOMAIN q : q[k] = q[n] => k = n
  <2>1. owner[q[n]] = a /\ at[q[n]] \in {"stream", "left"}
    BY <1>3, <1>4
  <2>2. ASSUME NEW k \in DOMAIN q, q[k] = q[n]
        PROVE  k = n
    <3>1. CASE n <= Len(s) /\ k <= Len(s)
      BY <1>3, <1>4, <2>2, <3>1
    <3>2. CASE n <= Len(s) /\ ~ (k <= Len(s))
      BY <1>3, <1>4, <2>2, <3>2
    <3>3. CASE ~ (n <= Len(s)) /\ k <= Len(s)
      BY <1>3, <1>4, <2>2, <3>3
    <3>4. CASE ~ (n <= Len(s)) /\ ~ (k <= Len(s))
      <4>1. n - Len(s) = k - Len(s)
        BY <1>3, <1>4, <2>2, <3>4
      <4>2. QED
        BY <1>3, <4>1
    <3>5. QED
      BY <3>1, <3>2, <3>3, <3>4
  <2>3. QED
    BY <2>1, <2>2
<1>6. /\ subscribers'[a] = q /\ mailbox'[a] = <<>>
      /\ \A b \in Actor \ {a} : subscribers'[b] = subscribers[b] /\ mailbox'[b] = mailbox[b]
      /\ \A b \in Actor : phase'[b] = IF b = a THEN "select" ELSE phase[b]
  BY <1>2 DEF Typed
<1>7. ASSUME NEW b \in Actor, NEW n \in DOMAIN subscribers'[b]
      PROVE  /\ owner[subscribers'[b][n]] = b /\ at[subscribers'[b][n]] \in {"stream", "left"}
             /\ \A k \in DOMAIN subscribers'[b] : subscribers'[b][k] = subscribers'[b][n] => k = n
  <2>1. CASE b = a
    BY <1>5, <1>6, <2>1
  <2>2. CASE b # a
    <3>1. b \in Actor \ {a} /\ n \in DOMAIN subscribers[b]
      BY <1>6, <2>2
    <3>2. /\ owner[subscribers[b][n]] = b /\ at[subscribers[b][n]] \in {"stream", "left"}
          /\ \A k \in DOMAIN subscribers[b] : subscribers[b][k] = subscribers[b][n] => k = n
      BY <3>1 DEF Places
    <3>3. QED
      BY <1>6, <3>1, <3>2
  <2>3. QED
    BY <2>1, <2>2
<1>8. ASSUME NEW b \in Actor, NEW n \in DOMAIN mailbox'[b]
      PROVE  /\ owner[mailbox'[b][n]] = b /\ at[mailbox'[b][n]] \in {"stream", "left"}
             /\ sent[mailbox'[b][n]] = <<>>
             /\ \A k \in DOMAIN mailbox'[b] : mailbox'[b][k] = mailbox'[b][n] => k = n
             /\ \A k \in DOMAIN subscribers'[b] : subscribers'[b][k] # mailbox'[b][n]
  <2>1. b # a
    BY <1>6
  <2>2. b \in Actor \ {a} /\ n \in DOMAIN mailbox[b]
    BY <1>6, <2>1
  <2>3. /\ owner[mailbox[b][n]] = b /\ at[mailbox[b][n]] \in {"stream", "left"}
        /\ sent[mailbox[b][n]] = <<>>
        /\ \A k \in DOMAIN mailbox[b] : mailbox[b][k] = mailbox[b][n] => k = n
        /\ ~ Subscribed(b, mailbox[b][n])
    BY <2>2 DEF Places
  <2>4. QED
    BY <1>6, <2>2, <2>3 DEF Subscribed
<1>9. ASSUME NEW b \in Actor, phase'[b] \in {"none", "stopped"}
      PROVE  mailbox'[b] = <<>> /\ subscribers'[b] = <<>>
  <2>1. b \in Actor \ {a} /\ phase[b] \in {"none", "stopped"}
    BY <1>6, <1>9
  <2>2. mailbox[b] = <<>> /\ subscribers[b] = <<>>
    BY <2>1 DEF Places
  <2>3. QED
    BY <1>6, <2>1, <2>2
<1>10. \A c \in Client :
         /\ at[c] \in {"idle", "create", "subscribe", "refused"} => sent[c] = <<>>
         /\ at[c] \notin {"idle", "create"} => owner[c] \in Actor
         /\ at[c] \in {"idle", "create"} => owner[c] = 0
  BY DEF Places
<1>11. QED
  BY <1>2, <1>7, <1>8, <1>9, <1>10 DEF Places, Subscribed

\* Some subscribers of an actor go, and maybe its mailbox.
LEMMA SomeGo ==
  ASSUME Typed, Places, NEW a \in Actor, NEW s \in Seq(Client),
         UNCHANGED <<at, owner, sent>>,
         subscribers' = [subscribers EXCEPT ![a] = s],
         mailbox' = mailbox \/ mailbox' = [mailbox EXCEPT ![a] = <<>>],
         \A n \in DOMAIN s : /\ Subscribed(a, s[n])
                             /\ \A k \in DOMAIN s : s[k] = s[n] => k = n,
         \A b \in Actor \ {a} : phase'[b] = phase[b],
         phase'[a] \in {"none", "stopped"} => mailbox'[a] = <<>> /\ s = <<>>
  PROVE  Places'
<1>1. /\ subscribers'[a] = s
      /\ \A b \in Actor \ {a} : subscribers'[b] = subscribers[b] /\ mailbox'[b] = mailbox[b]
      /\ mailbox'[a] = mailbox[a] \/ mailbox'[a] = <<>>
  BY DEF Typed
<1>2. \A n \in DOMAIN s : owner[s[n]] = a /\ at[s[n]] \in {"stream", "left"}
  BY DEF Places, Subscribed
<1>3. \A b \in Actor : \A k \in DOMAIN subscribers'[b] : Subscribed(b, subscribers'[b][k])
  <2> SUFFICES ASSUME NEW b \in Actor, NEW n \in DOMAIN subscribers'[b]
               PROVE  Subscribed(b, subscribers'[b][n])
    OBVIOUS
  <2>1. CASE b = a
    BY <1>1, <2>1
  <2>2. CASE b # a
    BY <1>1, <2>2 DEF Subscribed
  <2>3. QED
    BY <2>1, <2>2
<1>4. ASSUME NEW b \in Actor, NEW n \in DOMAIN subscribers'[b]
      PROVE  /\ owner[subscribers'[b][n]] = b /\ at[subscribers'[b][n]] \in {"stream", "left"}
             /\ \A k \in DOMAIN subscribers'[b] : subscribers'[b][k] = subscribers'[b][n] => k = n
  <2>1. CASE b = a
    BY <1>1, <1>2, <2>1
  <2>2. CASE b # a
    <3>1. b \in Actor \ {a} /\ n \in DOMAIN subscribers[b]
      BY <1>1, <2>2
    <3>2. /\ owner[subscribers[b][n]] = b /\ at[subscribers[b][n]] \in {"stream", "left"}
          /\ \A k \in DOMAIN subscribers[b] : subscribers[b][k] = subscribers[b][n] => k = n
      BY <3>1 DEF Places
    <3>3. QED
      BY <1>1, <3>1, <3>2
  <2>3. QED
    BY <2>1, <2>2
<1>5. ASSUME NEW b \in Actor, NEW n \in DOMAIN mailbox'[b]
      PROVE  /\ owner[mailbox'[b][n]] = b /\ at[mailbox'[b][n]] \in {"stream", "left"}
             /\ sent[mailbox'[b][n]] = <<>>
             /\ \A k \in DOMAIN mailbox'[b] : mailbox'[b][k] = mailbox'[b][n] => k = n
             /\ \A k \in DOMAIN subscribers'[b] : subscribers'[b][k] # mailbox'[b][n]
  <2>1. mailbox'[b] = mailbox[b] /\ n \in DOMAIN mailbox[b]
    BY <1>1
  <2>2. /\ owner[mailbox[b][n]] = b /\ at[mailbox[b][n]] \in {"stream", "left"}
        /\ sent[mailbox[b][n]] = <<>>
        /\ \A k \in DOMAIN mailbox[b] : mailbox[b][k] = mailbox[b][n] => k = n
        /\ ~ Subscribed(b, mailbox[b][n])
    BY <2>1 DEF Places
  <2>3. \A k \in DOMAIN subscribers'[b] : subscribers'[b][k] # mailbox'[b][n]
    <3>1. \A k \in DOMAIN subscribers'[b] : subscribers'[b][k] # mailbox[b][n]
      BY <1>3, <2>2
    <3>2. QED
      BY <2>1, <3>1
  <2>4. QED
    BY <2>1, <2>2, <2>3
<1>6. ASSUME NEW b \in Actor, phase'[b] \in {"none", "stopped"}
      PROVE  mailbox'[b] = <<>> /\ subscribers'[b] = <<>>
  <2>1. CASE b = a
    BY <1>1, <1>6, <2>1
  <2>2. CASE b # a
    <3>1. b \in Actor \ {a} /\ phase[b] \in {"none", "stopped"}
      BY <1>6, <2>2
    <3>2. mailbox[b] = <<>> /\ subscribers[b] = <<>>
      BY <3>1 DEF Places
    <3>3. QED
      BY <1>1, <3>1, <3>2
  <2>3. QED
    BY <2>1, <2>2
<1>7. \A c \in Client :
        /\ at[c] \in {"idle", "create", "subscribe", "refused"} => sent[c] = <<>>
        /\ at[c] \notin {"idle", "create"} => owner[c] \in Actor
        /\ at[c] \in {"idle", "create"} => owner[c] = 0
  BY DEF Places
<1>8. QED
  BY <1>4, <1>5, <1>6, <1>7 DEF Places, Subscribed

\* The subscriber whose turn it is.
LEMMA Served ==
  ASSUME Typed, Places, NEW a \in Actor, turn[a] <= Len(subscribers[a])
  PROVE  LET c == subscribers[a][turn[a]] IN
         /\ c \in Client /\ turn[a] \in DOMAIN subscribers[a]
         /\ owner[c] = a /\ at[c] \in {"stream", "left"} /\ Subscribed(a, c)
         /\ \A b \in Actor : \A n \in DOMAIN mailbox[b] : mailbox[b][n] # c
<1>1. subscribers[a] \in Seq(Client) /\ turn[a] \in Nat \ {0}
  BY DEF Typed
<1>2. turn[a] \in DOMAIN subscribers[a] /\ subscribers[a][turn[a]] \in Client
  BY <1>1
<1>3. QED
  BY <1>2 DEF Places, Subscribed

LEMMA ActorPlaces ==
  ASSUME Typed, Places, NEW a \in Actor, ActorStep(a) \/ PrefetchStored(a) \/ Hang(a)
  PROVE  Places'
<1>1. \A q : q \notin {"none", "stopped"} /\ phase' = [phase EXCEPT ![a] = q] =>
        \A b \in Actor : phase'[b] \in {"none", "stopped"} => phase[b] \in {"none", "stopped"}
  BY DEF Typed
<1>2. CASE Drain(a)
  BY <1>2, DrainPlaces
<1>3. CASE Select(a)
  <2> DEFINE s == Retain(subscribers[a])
  <2>1. s \in Seq(Client)
    BY SubscribersKept DEF Keeps
  <2>2. \A n \in DOMAIN s : /\ Subscribed(a, s[n])
                            /\ \A k \in DOMAIN s : s[k] = s[n] => k = n
    <3>1. Keeps(subscribers[a], s, Len(subscribers[a]))
      BY SubscribersKept
    <3>2. subscribers[a] \in Seq(Client)
      BY DEF Typed
    <3> HIDE DEF s
    <3>3. DOMAIN s = 1 .. Len(s) /\ DOMAIN subscribers[a] = 1 .. Len(subscribers[a])
      BY <2>1, <3>2
    <3>4. QED
      BY <3>1, <3>3 DEF Keeps, Subscribed
  <2> HIDE DEF s
  <2>3. CASE Stop(a)
    <3>1. /\ UNCHANGED <<at, owner, sent>>
          /\ subscribers' = [subscribers EXCEPT ![a] = <<>>]
          /\ mailbox' = [mailbox EXCEPT ![a] = <<>>]
          /\ mailbox'[a] = <<>>
          /\ \A b \in Actor \ {a} : phase'[b] = phase[b]
      BY <1>3, <2>3 DEF Select, Stop, clientVars, Typed
    <3>2. <<>> \in Seq(Client) /\ DOMAIN <<>> = {}
      OBVIOUS
    <3>3. QED
      BY <3>1, <3>2, SomeGo
  <2>4. CASE /\ phase' = [phase EXCEPT ![a] = "download"]
             /\ subscribers' = [subscribers EXCEPT ![a] = s]
             /\ UNCHANGED mailbox
    <3>1. /\ UNCHANGED <<at, owner, sent>>
          /\ phase'[a] = "download"
          /\ \A b \in Actor \ {a} : phase'[b] = phase[b]
      BY <1>3, <2>4 DEF Select, clientVars, Typed
    <3>2. QED
      BY <2>1, <2>2, <2>4, <3>1, SomeGo
  <2>5. QED
    BY <1>3, <2>3, <2>4 DEF Select, s
<1>4. CASE Arrive(a)
  BY <1>1, <1>4, NobodyMoves DEF Arrive, clientVars
<1>5. CASE Fail(a)
  BY <1>1, <1>5, NobodyMoves DEF Fail, clientVars
<1>6. CASE Forward(a)
  <2> DEFINE c == subscribers[a][turn[a]]
  <2>1. /\ c \in Client /\ owner[c] = a /\ at[c] \in {"stream", "left"}
        /\ \A b \in Actor : \A n \in DOMAIN mailbox[b] : mailbox[b][n] # c
    BY <1>6, Served DEF Forward
  <2>2. UNCHANGED <<mailbox, subscribers, at, owner, phase>>
    BY <1>6 DEF Forward
  <2>3. \A d \in Client \ {c} : sent'[d] = sent[d]
    BY <1>6 DEF Forward, Typed
  <2> HIDE DEF c
  <2>4. \A b \in Actor : \A n \in DOMAIN mailbox[b] : sent'[mailbox[b][n]] = sent[mailbox[b][n]]
    <3> SUFFICES ASSUME NEW b \in Actor, NEW n \in DOMAIN mailbox[b]
                 PROVE  sent'[mailbox[b][n]] = sent[mailbox[b][n]]
      OBVIOUS
    <3>1. mailbox[b] \in Seq(Client)
      BY DEF Typed
    <3>2. mailbox[b][n] \in Client
      BY <3>1
    <3>3. QED
      BY <2>1, <2>3, <3>2
  <2>5. \A d \in Client :
          /\ at[d] \in {"idle", "create", "subscribe", "refused"} => sent'[d] = <<>>
          /\ at[d] \notin {"idle", "create"} => owner[d] \in Actor
          /\ at[d] \in {"idle", "create"} => owner[d] = 0
    BY <2>1, <2>3 DEF Places
  <2>6. QED
    BY <2>2, <2>4, <2>5 DEF Places, Subscribed
<1>7. CASE Advance(a)
  BY <1>1, <1>7, NobodyMoves DEF Advance, clientVars
<1>8. CASE ForwardError(a)
  BY <1>8, NobodyMoves DEF ForwardError
<1>9. CASE GiveUp(a)
  <2>1. /\ UNCHANGED <<at, owner, sent>>
        /\ subscribers' = [subscribers EXCEPT ![a] = <<>>]
        /\ mailbox' = [mailbox EXCEPT ![a] = <<>>]
        /\ mailbox'[a] = <<>>
        /\ \A b \in Actor \ {a} : phase'[b] = phase[b]
    BY <1>9 DEF GiveUp, Stop, clientVars, Typed
  <2>2. <<>> \in Seq(Client) /\ DOMAIN <<>> = {}
    OBVIOUS
  <2>3. QED
    BY <2>1, <2>2, SomeGo
<1>10. CASE PrefetchStored(a) \/ Hang(a)
  BY <1>10, NobodyMoves DEF PrefetchStored, Hang, clientVars
<1>11. QED
  BY <1>2, <1>3, <1>4, <1>5, <1>6, <1>7, <1>8, <1>9, <1>10 DEF ActorStep

LEMMA PlacesStep ==
  Typed /\ Places /\ [SessionNext]_sessionVars => Places'
<1> SUFFICES ASSUME Typed, Places, [SessionNext]_sessionVars PROVE Places'
  OBVIOUS
<1>1. CASE UNCHANGED sessionVars
  BY <1>1, NobodyMoves DEF sessionVars, actorVars, clientVars
<1>2. QED
  BY <1>1, ClientPlaces, ActorPlaces DEF SessionNext

-----------------------------------------------------------------------------
(* No byte twice *)

LEMMA SoundInit == SessionInit => Sound
<1> SUFFICES ASSUME SessionInit PROVE Sound
  OBVIOUS
<1>1. \A c \in Client : DOMAIN sent[c] = {}
  BY DEF SessionInit
<1>2. \A a \in Actor : phase[a] = "none"
  BY DEF SessionInit
<1>3. QED
  BY <1>1, <1>2 DEF Sound, NoByteTwice

\* Nothing is sent.
LEMMA NothingSent ==
  ASSUME Sound, sent' = sent,
         \A c \in Client : sent[c] # <<>> =>
           range'[c] = range[c] /\ \A i \in Chunk : Given(c, i) => Given(c, i)',
         \A a \in Actor : phase'[a] \in {"download", "forward"} => current'[a] \notin completed'[a]
  PROVE  Sound'
<1>1. \A c \in Client : \A n \in DOMAIN sent[c] : sent[c] # <<>>
  OBVIOUS
<1>2. NoByteTwice'
  <2> SUFFICES ASSUME NEW c \in Client, NEW m \in DOMAIN sent[c], NEW n \in DOMAIN sent[c]
               PROVE  /\ range'[c][1] <= sent[c][m][1] /\ sent[c][m][2] <= range'[c][2]
                      /\ m # n => sent[c][m][2] < sent[c][n][1] \/ sent[c][n][2] < sent[c][m][1]
    BY DEF NoByteTwice, Lo, Hi
  <2>1. range'[c] = range[c]
    BY <1>1
  <2>2. QED
    BY <2>1 DEF Sound, NoByteTwice, Lo, Hi
<1>3. ASSUME NEW c \in Client, NEW n \in DOMAIN sent'[c]
      PROVE  \E i \in Chunk : Given(c, i)' /\ PartOf(c, i, sent[c][n])'
  <2>1. n \in DOMAIN sent[c] /\ range'[c] = range[c]
    BY <1>1
  <2>2. PICK i \in Chunk : Given(c, i) /\ PartOf(c, i, sent[c][n])
    BY <2>1 DEF Sound
  <2>3. Given(c, i)'
    BY <1>1, <2>1, <2>2
  <2>4. PartOf(c, i, sent[c][n])'
    BY <2>1, <2>2 DEF PartOf, Lo, Hi, ChunkStart, ChunkEnd
  <2>5. QED
    BY <2>3, <2>4
<1>4. QED
  BY <1>2, <1>3 DEF Sound

\* One actor moves, and what it has forwarded it stands by.
LEMMA GivenKept ==
  ASSUME Sound, NEW a \in Actor, UNCHANGED <<sent, range, owner>>,
         completed[a] \subseteq completed'[a],
         phase[a] = "forward" => current[a] \in completed'[a],
         phase'[a] \in {"download", "forward"} => current'[a] \notin completed'[a],
         \A b \in Actor \ {a} :
           /\ completed'[b] = completed[b] /\ phase'[b] = phase[b] /\ current'[b] = current[b]
           /\ subscribers'[b] = subscribers[b] /\ turn'[b] = turn[b]
  PROVE  Sound'
<1>1. ASSUME NEW c \in Client, NEW i \in Chunk, Given(c, i)
      PROVE  Given(c, i)'
  <2>1. owner[c] \in Actor /\ owner'[c] = owner[c]
    BY <1>1 DEF Given
  <2>2. CASE owner[c] = a
    BY <1>1, <2>1, <2>2 DEF Given
  <2>3. CASE owner[c] # a
    <3> DEFINE b == owner[c]
    <3>1. b \in Actor \ {a}
      BY <2>1, <2>3
    <3>2. /\ completed'[b] = completed[b] /\ phase'[b] = phase[b] /\ current'[b] = current[b]
          /\ subscribers'[b] = subscribers[b] /\ turn'[b] = turn[b] /\ owner'[c] = b
      BY <2>1, <3>1
    <3>3. QED
      BY <1>1, <3>2 DEF Given
  <2>4. QED
    BY <2>2, <2>3
<1>2. \A b \in Actor : phase'[b] \in {"download", "forward"} => current'[b] \notin completed'[b]
  BY DEF Sound
<1>3. QED
  BY <1>1, <1>2, NothingSent

\* Nobody who was sent anything is touched.
LEMMA ClientSound ==
  ASSUME Typed, Places, Sound, NEW c \in Client, ClientStep(c) \/ Leave(c)
  PROVE  Sound'
<1>1. UNCHANGED <<completed, subscribers, current, turn, sent>>
  BY DEF ClientStep, Find, Create, Subscribe, Read, EndOfStream, Leave, actorVars
<1>2. \A b \in Actor : /\ phase'[b] \in {"download", "forward"} => phase'[b] = phase[b]
                       /\ phase[b] = "forward" => phase'[b] = "forward"
  <2>1. CASE Create(c)
    <3>1. spawned + 1 \in Actor /\ spawned + 1 > spawned
      BY <2>1 DEF Create, Typed
    <3>2. phase[spawned + 1] = "none"
      BY <3>1 DEF Typed
    <3>3. QED
      BY <2>1, <3>2 DEF Create, Typed
  <2>2. CASE ~ Create(c)
    BY <2>2 DEF ClientStep, Find, Subscribe, Read, EndOfStream, Leave, actorVars
  <2>3. QED
    BY <2>1, <2>2
<1>3. \A d \in Client : sent[d] # <<>> => range'[d] = range[d] /\ owner'[d] = owner[d]
  <2> SUFFICES ASSUME NEW d \in Client, sent[d] # <<>>
               PROVE  range'[d] = range[d] /\ owner'[d] = owner[d]
    OBVIOUS
  <2>1. CASE Find(c)
    <3>1. d # c
      BY <2>1 DEF Find, Places
    <3>2. QED
      BY <2>1, <3>1 DEF Find, Typed
  <2>2. CASE Create(c)
    <3>1. d # c
      BY <2>2 DEF Create, Places
    <3>2. QED
      BY <2>2, <3>1 DEF Create, Typed
  <2>3. CASE ~ Find(c) /\ ~ Create(c)
    BY <2>3 DEF ClientStep, Subscribe, Read, EndOfStream, Leave
  <2>4. QED
    BY <2>1, <2>2, <2>3
<1>4. \A d \in Client : sent[d] # <<>> => \A i \in Chunk : Given(d, i) => Given(d, i)'
  <2> SUFFICES ASSUME NEW d \in Client, sent[d] # <<>>, NEW i \in Chunk, Given(d, i)
               PROVE  Given(d, i)'
    OBVIOUS
  <2>1. owner'[d] = owner[d] /\ owner[d] \in Actor
    BY <1>3 DEF Given
  <2>2. QED
    BY <1>1, <1>2, <2>1 DEF Given
<1>5. QED
  BY <1>1, <1>2, <1>3, <1>4, NothingSent DEF Sound

\* What the next subscriber is sent is of a chunk it has nothing of.
LEMMA ForwardSound ==
  ASSUME Typed, Held, Places, Sound, NEW a \in Actor, Forward(a)
  PROVE  Sound'
<1>c. PICK c \in Client : c = subscribers[a][turn[a]]
  BY Served DEF Forward
<1>i. PICK i : i = current[a]
  OBVIOUS
<1>1. /\ turn[a] \in DOMAIN subscribers[a] /\ owner[c] = a
      /\ \A n \in DOMAIN subscribers[a] : subscribers[a][n] = c => n = turn[a]
  <2>1. turn[a] \in DOMAIN subscribers[a] /\ owner[c] = a
    BY <1>c, Served DEF Forward
  <2>2. QED
    BY <1>c, <2>1 DEF Places
<1>2. /\ UNCHANGED <<phase, subscribers, completed, current, range, owner>>
      /\ phase[a] = "forward" /\ turn' = [turn EXCEPT ![a] = @ + 1] /\ turn[a] \in Nat
      /\ \/ sent' = sent
         \/ sent' = [sent EXCEPT ![c] = Append(@, Slice(c, i, data[a]))]
  BY <1>c, <1>i DEF Forward, Typed
<1>3. i \in Chunk /\ i \notin completed[a] /\ sent \in [Client -> Seq(Int \X Int)]
  BY <1>2, <1>i DEF Sound, Typed
<1>4. ASSUME NEW d \in Client, NEW j \in Chunk, Given(d, j)
      PROVE  Given(d, j)'
  <2>1. owner[d] \in Actor
    BY <1>4 DEF Given
  <2>2. turn[owner[d]] \in Nat /\ turn'[owner[d]] \in Nat /\ turn'[owner[d]] >= turn[owner[d]]
    <3>1. turn \in [Actor -> Nat \ {0}]
      BY DEF Typed
    <3>2. turn'[owner[d]] = IF owner[d] = a THEN turn[owner[d]] + 1 ELSE turn[owner[d]]
      BY <1>2, <2>1, <3>1
    <3>3. turn[owner[d]] \in Nat
      BY <2>1, <3>1
    <3>4. QED
      BY <3>2, <3>3
  <2>3. \A n \in DOMAIN subscribers[owner[d]] : n \in Nat
    <3>1. subscribers[owner[d]] \in Seq(Client)
      BY <2>1 DEF Typed
    <3>2. QED
      BY <3>1
  <2>4. QED
    BY <1>2, <1>4, <2>1, <2>2, <2>3 DEF Given
<1>5. Given(c, i)'
  <2>1. turn'[a] = turn[a] + 1
    BY <1>2 DEF Typed
  <2>2. QED
    BY <1>1, <1>2, <1>i, <2>1 DEF Given
<1>6. \A b \in Actor : phase'[b] \in {"download", "forward"} => current'[b] \notin completed'[b]
  BY <1>2 DEF Sound
<1>7. CASE sent' = sent
  BY <1>2, <1>4, <1>6, <1>7, NothingSent
<1>8. CASE sent' = [sent EXCEPT ![c] = Append(@, Slice(c, i, data[a]))]
  <2> DEFINE s == sent[c]
             x == Slice(c, i, data[a])
             z == Append(s, x)
             l == Len(s) + 1
  <2>1. x \in Int \X Int /\ PartOf(c, i, x)
    BY <1>3, <1>i, SliceBytes DEF Held
  <2>2. /\ s \in Seq(Int \X Int) /\ sent'[c] = z
        /\ \A d \in Client \ {c} : sent'[d] = sent[d]
    BY <1>1, <1>2, <1>3, <1>8
  <2> HIDE DEF s, x
  <2>3. /\ l \in DOMAIN z /\ z[l] = x
        /\ \A n \in DOMAIN s : n \in DOMAIN z /\ z[n] = s[n] /\ s[n] \in Int \X Int
        /\ \A n \in DOMAIN z : n \in DOMAIN s \/ n = l
    BY <2>1, <2>2
  <2> HIDE DEF z, l
  <2>4. ASSUME NEW n \in DOMAIN s
        PROVE  x[2] < s[n][1] \/ s[n][2] < x[1]
    <3>1. PICK j \in Chunk : Given(c, j) /\ PartOf(c, j, s[n])
      BY <1>1 DEF Sound, s
    <3>2. j # i
      <4>1. Given(c, j) /\ owner[c] = a /\ subscribers[a][turn[a]] = c
        BY <1>1, <1>c, <3>1
      <4>2. j = current[a] => turn[a] < turn[a]
        BY <1>1, <1>3, <1>i, <4>1 DEF Given
      <4>3. QED
        BY <1>2, <1>i, <4>2
    <3>3. /\ i \in Nat /\ j \in Nat
          /\ ChunkStart(i) \in Nat /\ ChunkEnd(i) \in Int
          /\ ChunkStart(j) \in Nat /\ ChunkEnd(j) \in Int
      BY <1>3, ChunkBytes
    <3>4. ChunkEnd(i) < ChunkStart(j) \/ ChunkEnd(j) < ChunkStart(i)
      BY <1>3, <3>2, <3>3, ChunksApart
    <3>5. /\ ChunkStart(j) <= s[n][1] /\ s[n][2] <= ChunkEnd(j)
          /\ ChunkStart(i) <= x[1] /\ x[2] <= ChunkEnd(i)
          /\ s[n][1] \in Int /\ s[n][2] \in Int /\ x[1] \in Int /\ x[2] \in Int
      BY <2>1, <2>3, <3>1 DEF PartOf
    <3>6. QED
      BY <2>1, <3>3, <3>4, <3>5
  <2>5. \A n \in DOMAIN s : Lo(c) <= s[n][1] /\ s[n][2] <= Hi(c)
    BY <1>1 DEF Sound, NoByteTwice, s
  <2>6. \A m, n \in DOMAIN s : m # n => s[m][2] < s[n][1] \/ s[n][2] < s[m][1]
    BY <1>1 DEF Sound, NoByteTwice, s
  <2>7. \A m, n \in DOMAIN z :
          /\ Lo(c) <= z[m][1] /\ z[m][2] <= Hi(c)
          /\ m # n => z[m][2] < z[n][1] \/ z[n][2] < z[m][1]
    <3> SUFFICES ASSUME NEW m \in DOMAIN z, NEW n \in DOMAIN z
                 PROVE  /\ Lo(c) <= z[m][1] /\ z[m][2] <= Hi(c)
                        /\ m # n => z[m][2] < z[n][1] \/ z[n][2] < z[m][1]
      OBVIOUS
    <3>1. Lo(c) <= z[m][1] /\ z[m][2] <= Hi(c)
      BY <2>1, <2>3, <2>5 DEF PartOf
    <3>2. m # n => z[m][2] < z[n][1] \/ z[n][2] < z[m][1]
      <4>1. CASE m \in DOMAIN s /\ n \in DOMAIN s
        BY <2>3, <2>6, <4>1
      <4>2. CASE m \in DOMAIN s /\ n = l
        BY <2>3, <2>4, <4>2
      <4>3. CASE m = l /\ n \in DOMAIN s
        BY <2>3, <2>4, <4>3
      <4>4. QED
        BY <2>3, <4>1, <4>2, <4>3
    <3>3. QED
      BY <3>1, <3>2
  <2>8. NoByteTwice'
    <3> SUFFICES ASSUME NEW d \in Client, NEW m \in DOMAIN sent'[d], NEW n \in DOMAIN sent'[d]
                 PROVE  /\ Lo(d) <= sent'[d][m][1] /\ sent'[d][m][2] <= Hi(d)
                        /\ m # n => sent'[d][m][2] < sent'[d][n][1] \/ sent'[d][n][2] < sent'[d][m][1]
      BY <1>2 DEF NoByteTwice, Lo, Hi
    <3>1. CASE d = c
      BY <2>2, <2>7, <3>1
    <3>2. CASE d # c
      <4>1. sent'[d] = sent[d]
        BY <2>2, <3>2
      <4>2. QED
        BY <4>1 DEF Sound, NoByteTwice
    <3>3. QED
      BY <3>1, <3>2
  <2>9. ASSUME NEW d \in Client, NEW n \in DOMAIN sent'[d]
        PROVE  \E j \in Chunk : Given(d, j)' /\ PartOf(d, j, sent[d][n])'
    <3>1. \A j : PartOf(d, j, sent'[d][n]) => PartOf(d, j, sent[d][n])'
      BY <1>2 DEF PartOf, Lo, Hi, ChunkStart, ChunkEnd
    <3>2. CASE d = c /\ n = l
      <4>1. PartOf(d, i, sent'[d][n])
        BY <2>1, <2>2, <2>3, <3>2
      <4>2. QED
        BY <1>3, <1>5, <3>1, <3>2, <4>1
    <3>3. CASE ~ (d = c /\ n = l)
      <4>1. n \in DOMAIN sent[d] /\ sent'[d][n] = sent[d][n]
        BY <2>2, <2>3, <2>9, <3>3 DEF s
      <4>2. PICK j \in Chunk : Given(d, j) /\ PartOf(d, j, sent[d][n])
        BY <4>1 DEF Sound
      <4>3. QED
        BY <1>4, <3>1, <4>1, <4>2
    <3>4. QED
      BY <3>2, <3>3
  <2>10. QED
    BY <1>6, <2>8, <2>9 DEF Sound
<1>9. QED
  BY <1>2, <1>7, <1>8

LEMMA ActorSound ==
  ASSUME Typed, Held, Places, Sound, NEW a \in Actor,
         ActorStep(a) \/ PrefetchStored(a) \/ Hang(a)
  PROVE  Sound'
<1>1. CASE Drain(a)
  BY <1>1, GivenKept DEF Drain, clientVars, Typed
<1>2. CASE Select(a)
  <2> DEFINE s == Retain(subscribers[a])
  <2>1. /\ UNCHANGED <<sent, range, owner, completed, turn>> /\ phase[a] = "select"
        /\ \A b \in Actor \ {a} : /\ phase'[b] = phase[b] /\ current'[b] = current[b]
                                  /\ subscribers'[b] = subscribers[b]
    BY <1>2 DEF Select, Stop, clientVars, Typed
  <2>2. phase'[a] \in {"download", "forward"} => current'[a] \notin completed'[a]
    <3>1. CASE Stop(a)
      BY <3>1 DEF Stop, Typed
    <3>2. ASSUME NEW i \in SelectNext(a, s), current' = [current EXCEPT ![a] = i]
          PROVE  current'[a] \notin completed'[a]
      <4>1. i \notin completed[a]
        BY SelectedNeeded
      <4>2. QED
        BY <2>1, <3>2, <4>1 DEF Typed
    <3>3. QED
      BY <1>2, <3>1, <3>2 DEF Select
  <2>3. QED
    BY <2>1, <2>2, GivenKept
<1>3. CASE Arrive(a)
  BY <1>3, GivenKept DEF Arrive, clientVars, Typed, Sound
<1>4. CASE Fail(a)
  BY <1>4, GivenKept DEF Fail, clientVars, Typed
<1>5. CASE Forward(a)
  BY <1>5, ForwardSound
<1>6. CASE Advance(a)
  BY <1>6, GivenKept DEF Advance, Done, clientVars, Typed
<1>7. CASE ForwardError(a)
  BY <1>7, GivenKept DEF ForwardError, Typed
<1>8. CASE GiveUp(a)
  BY <1>8, GivenKept DEF GiveUp, Stop, clientVars, Typed
<1>9. CASE PrefetchStored(a) \/ Hang(a)
  <2>1. UNCHANGED <<sent, range, owner, completed, phase, current, subscribers, turn>>
    BY <1>9 DEF PrefetchStored, Hang, clientVars
  <2>2. \A c \in Client : \A i \in Chunk : Given(c, i) => Given(c, i)'
    BY <2>1 DEF Given
  <2>3. QED
    BY <2>1, <2>2, NothingSent DEF Sound
<1>10. QED
  BY <1>1, <1>2, <1>3, <1>4, <1>5, <1>6, <1>7, <1>8, <1>9 DEF ActorStep

LEMMA SoundStep ==
  Typed /\ Held /\ Places /\ Sound /\ [SessionNext]_sessionVars => Sound'
<1> SUFFICES ASSUME Typed, Held, Places, Sound, [SessionNext]_sessionVars PROVE Sound'
  OBVIOUS
<1>1. CASE UNCHANGED sessionVars
  <2>1. UNCHANGED <<sent, range, owner, completed, phase, current, subscribers, turn>>
    BY <1>1 DEF sessionVars, actorVars, clientVars
  <2>2. \A c \in Client : \A i \in Chunk : Given(c, i) => Given(c, i)'
    BY <2>1 DEF Given
  <2>3. QED
    BY <2>1, <2>2, NothingSent DEF Sound
<1>2. QED
  BY <1>1, ClientSound, ActorSound DEF SessionNext

-----------------------------------------------------------------------------
(* A client alone *)

\* Short chunks stay short.
LEMMA StandsOn ==
  ASSUME NEW S, NEW T, S \subseteq T, NEW c, NEW k, NEW done, NEW where, NEW now, NEW next,
         StandsAt(c, k, done, where, now, next, S)
  PROVE  StandsAt(c, k, done, where, now, next, T)
BY GapGrows DEF StandsAt

LEMMA FinishedOn ==
  ASSUME NEW S, NEW T, S \subseteq T, NEW c, Finished(c, S)
  PROVE  Finished(c, T)
BY GapGrows DEF Finished

LEMMA ContiguousOn ==
  ASSUME NEW c, Contiguous(c), sent'[c] = sent[c], range'[c] = range[c], owner'[c] = owner[c],
         cut[owner[c]] \subseteq cut'[owner[c]]
  PROVE  Contiguous(c)'
<1>1. \A n : ByteAfter(c, n)' = ByteAfter(c, n)
  BY DEF ByteAfter, Lo
<1>2. Hi(c)' = Hi(c)
  BY DEF Hi
<1>3. \A x, y : Gap(cut[owner[c]], x, y) => Gap(cut'[owner[c]], x, y)
  BY GapGrows
<1>4. QED
  BY <1>1, <1>2, <1>3 DEF Contiguous

\* Once more c is sent what follows on.
LEMMA SentOneMore ==
  ASSUME NEW c \in Client, sent[c] \in Seq(Int \X Int), NEW x \in Int \X Int,
         sent'[c] = Append(sent[c], x), range'[c] = range[c], owner'[c] = owner[c],
         cut' = cut
  PROVE  /\ NextByte(c)' = x[2] + 1
         /\ Contiguous(c)' <=> /\ Contiguous(c)
                               /\ Gap(cut[owner[c]], NextByte(c), x[1])
                               /\ x[2] \in x[1] - 1 .. Hi(c)
<1> DEFINE s == sent[c]
           z == Append(s, x)
<1>l. PICK l : l = Len(s)
  OBVIOUS
<1>1. /\ l \in Nat /\ DOMAIN s = 1 .. l /\ DOMAIN z = 1 .. l + 1 /\ Len(z) = l + 1
      /\ z[l + 1] = x /\ \A n \in 1 .. l : z[n] = s[n]
  BY <1>l
<1>2. sent'[c] = z
  OBVIOUS
<1> HIDE DEF z
<1>3. \A n \in 0 .. l : ByteAfter(c, n)' = ByteAfter(c, n)
  <2> SUFFICES ASSUME NEW n \in 0 .. l PROVE ByteAfter(c, n)' = ByteAfter(c, n)
    OBVIOUS
  <2>1. n # 0 => sent'[c][n] = sent[c][n]
    BY <1>1, <1>2
  <2>2. QED
    BY <2>1 DEF ByteAfter, Lo
<1>4. NextByte(c)' = x[2] + 1
  <2>1. NextByte(c)' = ByteAfter(c, l + 1)'
    BY <1>1, <1>2 DEF NextByte
  <2>2. ByteAfter(c, l + 1)' = sent'[c][l + 1][2] + 1
    BY <1>1 DEF ByteAfter
  <2>3. QED
    BY <1>1, <1>2, <2>1, <2>2
<1> DEFINE Joins(n) == /\ Gap(cut[owner[c]], ByteAfter(c, n - 1), s[n][1])
                       /\ s[n][2] \in s[n][1] - 1 .. Hi(c)
           JoinsNow(n) == /\ Gap(cut[owner[c]], ByteAfter(c, n - 1)', z[n][1])
                          /\ z[n][2] \in z[n][1] - 1 .. Hi(c)
           JoinsOn == /\ Gap(cut[owner[c]], NextByte(c), x[1])
                      /\ x[2] \in x[1] - 1 .. Hi(c)
<1>5. Contiguous(c)' <=> \A n \in 1 .. l + 1 : JoinsNow(n)
  BY <1>1, <1>2 DEF Contiguous, Hi
<1>6. Contiguous(c) <=> \A n \in 1 .. l : Joins(n)
  BY <1>1 DEF Contiguous
<1>7. \A n \in 1 .. l : JoinsNow(n) <=> Joins(n)
  <2> SUFFICES ASSUME NEW n \in 1 .. l PROVE JoinsNow(n) <=> Joins(n)
    OBVIOUS
  <2>1. z[n] = s[n] /\ n - 1 \in 0 .. l
    BY <1>1
  <2>2. ByteAfter(c, n - 1)' = ByteAfter(c, n - 1)
    BY <1>3, <2>1
  <2>3. QED
    BY <2>1, <2>2
<1>8. JoinsNow(l + 1) <=> JoinsOn
  <2>1. l + 1 - 1 = l /\ l \in 0 .. l
    BY <1>1
  <2>2. ByteAfter(c, l + 1 - 1)' = NextByte(c)
    BY <1>l, <1>3, <2>1 DEF NextByte
  <2>3. QED
    BY <1>1, <2>2
<1>9. \A n \in 1 .. l + 1 : n \in 1 .. l \/ n = l + 1
  BY <1>1
<1>10. \A n \in 1 .. l : n \in 1 .. l + 1
  BY <1>1
<1>11. l + 1 \in 1 .. l + 1
  BY <1>1
<1> HIDE DEF Joins, JoinsNow
<1>12. Contiguous(c)' <=> Contiguous(c) /\ JoinsOn
  BY <1>5, <1>6, <1>7, <1>8, <1>9, <1>10, <1>11
<1>13. QED
  BY <1>4, <1>12

LEMMA AloneInit == SessionInit => AlonesServed
<1> SUFFICES ASSUME SessionInit PROVE AlonesServed
  OBVIOUS
<1>1. ASSUME NEW a \in Actor
      PROVE  Begun(a)
  <2>1. /\ subscribers[a] = <<>> /\ mailbox[a] = <<>> /\ joined[a] = {} /\ completed[a] = {}
        /\ phase[a] = "none" /\ \A c \in Client : sent[c] = <<>>
    BY DEF SessionInit
  <2>2. QED
    BY <2>1 DEF Begun
<1>2. ASSUME NEW c \in Client
      PROVE  ServedAlone(c)
  <2>1. owner[c] = 0
    BY DEF SessionInit
  <2>2. owner[c] \notin Actor
    BY <2>1, SessionAssumption DEF Actor
  <2>3. QED
    BY <2>2 DEF ServedAlone
<1>3. QED
  BY <1>1, <1>2 DEF AlonesServed

\* Neither a client nor its actor moves, but that it ends, leaves or fails.
LEMMA Untouched ==
  ASSUME NEW c \in Client, ServedAlone(c),
         range'[c] = range[c], owner'[c] = owner[c], sent'[c] = sent[c],
         failed[c] => failed'[c],
         at'[c] = "stream" => at[c] = "stream",
         at'[c] = "ended" => at[c] \in {"stream", "ended"},
         owner[c] \in Actor =>
           LET b == owner[c] IN
           /\ subscribers'[b] = subscribers[b] /\ completed'[b] = completed[b]
           /\ phase'[b] = phase[b] /\ current'[b] = current[b]
           /\ turn'[b] = turn[b] /\ joined'[b] = joined[b] /\ cut'[b] = cut[b]
  PROVE  ServedAlone(c)'
<1> SUFFICES ASSUME owner'[c] \in Actor, joined'[owner'[c]] = {c}
             PROVE  LET q == subscribers'[owner'[c]] IN
                    /\ Contiguous(c)'
                    /\ at'[c] = "stream" /\ (\E n \in DOMAIN q : q[n] = c) => Steady(c)'
                    /\ at'[c] \in {"stream", "ended"} /\ ~ (\E n \in DOMAIN q : q[n] = c)
                         /\ ~ failed'[c] => Finished(c, cut[owner[c]])'
  BY DEF ServedAlone, Subscribed
<1> DEFINE b == owner[c]
<1>1. /\ b \in Actor /\ owner'[c] = b /\ joined[b] = {c}
      /\ subscribers'[b] = subscribers[b] /\ completed'[b] = completed[b]
      /\ phase'[b] = phase[b] /\ current'[b] = current[b] /\ turn'[b] = turn[b]
      /\ cut'[b] = cut[b]
  OBVIOUS
<1>2. /\ Contiguous(c)
      /\ at[c] = "stream" /\ Subscribed(b, c) => Steady(c)
      /\ at[c] \in {"stream", "ended"} /\ ~ Subscribed(b, c) /\ ~ failed[c]
           => Finished(c, cut[b])
  BY <1>1 DEF ServedAlone
<1>3. Contiguous(c)'
  BY <1>1, <1>2, ContiguousOn
<1>4. NextByte(c)' = NextByte(c) /\ Hi(c)' = Hi(c)
  BY DEF NextByte, ByteAfter, Lo, Hi
<1>5. Steady(c) => Steady(c)'
  BY <1>1, <1>4 DEF Steady, StandsAt, FirstChunk, LastChunk, Begin, Lo, Hi, ChunkStart
<1>6. Finished(c, cut[b]) => Finished(c, cut[owner[c]])'
  BY <1>1, <1>4 DEF Finished
<1>7. QED
  BY <1>1, <1>2, <1>3, <1>5, <1>6 DEF Subscribed

\* A client whose request has got nowhere yet.
LEMMA NothingYet ==
  ASSUME NEW c \in Client, sent'[c] = <<>>, at'[c] \notin {"stream", "ended"}
  PROVE  ServedAlone(c)'
<1>1. Contiguous(c)'
  BY DEF Contiguous
<1>2. QED
  BY <1>1 DEF ServedAlone

LEMMA ClientBegun ==
  ASSUME Typed, Places, AlonesServed, NEW c \in Client, ClientStep(c) \/ Leave(c), NEW a \in Actor
  PROVE  Begun(a)'
<1>1. UNCHANGED <<completed, subscribers, turn, joined, sent, failed>>
  BY DEF ClientStep, Find, Create, Subscribe, Read, EndOfStream, Leave, actorVars
<1>2. phase'[a] \in {"download", "forward", "error"} => phase[a] = phase'[a]
  BY DEF ClientStep, Find, Create, Subscribe, Read, EndOfStream, Leave, actorVars, Typed
<1>3. \A d \in Client : owner'[d] = owner[d] \/ sent[d] = <<>>
  <2>1. CASE Find(c)
    <3>1. sent[c] = <<>> /\ \A d \in Client \ {c} : owner'[d] = owner[d]
      BY <2>1 DEF Find, Places, Typed
    <3>2. QED
      BY <3>1
  <2>2. CASE Create(c)
    <3>1. sent[c] = <<>> /\ \A d \in Client \ {c} : owner'[d] = owner[d]
      BY <2>2 DEF Create, Places, Typed
    <3>2. QED
      BY <3>1
  <2>3. CASE ~ Find(c) /\ ~ Create(c)
    BY <2>3 DEF ClientStep, Subscribe, Read, EndOfStream, Leave
  <2>4. QED
    BY <2>1, <2>2, <2>3
<1>4. Begun(a)
  BY DEF AlonesServed
<1>5. \A d \in joined[a] : at'[d] \in {"stream", "ended", "left"} /\ d \in Client
  <2> SUFFICES ASSUME NEW d \in joined[a]
               PROVE  at'[d] \in {"stream", "ended", "left"} /\ d \in Client
    OBVIOUS
  <2>1. at[d] \in {"stream", "ended", "left"} /\ d \in Client
    BY <1>4 DEF Begun, Typed
  <2>2. CASE d = c
    BY <2>1, <2>2 DEF ClientStep, Find, Create, Subscribe, Read, EndOfStream, Leave, Typed
  <2>3. CASE d # c
    <3>1. at'[d] = at[d]
      BY <2>1, <2>3 DEF ClientStep, Find, Create, Subscribe, Read, EndOfStream, Leave, Typed
    <3>2. QED
      BY <2>1, <3>1
  <2>4. QED
    BY <2>2, <2>3
<1>6. \A n \in DOMAIN mailbox'[a] : mailbox'[a][n] \notin joined[a]
  <2>1. CASE mailbox'[a] = mailbox[a]
    BY <1>4, <2>1 DEF Begun
  <2>2. CASE mailbox'[a] = Append(mailbox[a], c) /\ at[c] = "subscribe"
    <3>1. c \notin joined[a]
      BY <1>4, <2>2 DEF Begun
    <3>2. mailbox[a] \in Seq(Client)
      BY DEF Typed
    <3>3. \A q \in Seq(Client) : \A n \in DOMAIN Append(q, c) :
            Append(q, c)[n] = c \/ (n \in DOMAIN q /\ Append(q, c)[n] = q[n])
      OBVIOUS
    <3>4. QED
      BY <1>4, <2>2, <3>1, <3>2, <3>3 DEF Begun
  <2>3. mailbox' = mailbox \/ /\ mailbox' = [mailbox EXCEPT ![owner[c]] = Append(@, c)]
                              /\ at[c] = "subscribe"
    BY DEF ClientStep, Find, Create, Subscribe, Read, EndOfStream, Leave, actorVars
  <2>4. QED
    BY <2>1, <2>2, <2>3 DEF Typed
<1>7. QED
  BY <1>1, <1>2, <1>3, <1>4, <1>5, <1>6 DEF Begun

LEMMA ClientAlone ==
  ASSUME Typed, Places, AlonesServed, NEW c \in Client, ClientStep(c) \/ Leave(c)
  PROVE  AlonesServed'
<1>1. UNCHANGED <<completed, subscribers, current, turn, joined, sent, failed, cut>>
  BY DEF ClientStep, Find, Create, Subscribe, Read, EndOfStream, Leave, actorVars, pieceVars
<1>2. \A d \in Client : owner[d] \in Actor => phase'[owner[d]] = phase[owner[d]]
  <2>1. CASE Create(c)
    <3>1. \A d \in Client : owner[d] # spawned + 1
      BY DEF Typed
    <3>2. QED
      BY <2>1, <3>1 DEF Create, Typed
  <2>2. CASE ~ Create(c)
    BY <2>2 DEF ClientStep, Find, Subscribe, Read, EndOfStream, Leave, actorVars
  <2>3. QED
    BY <2>1, <2>2
<1>3. ASSUME NEW d \in Client \ {c}
      PROVE  ServedAlone(d)'
  <2>1. range'[d] = range[d] /\ owner'[d] = owner[d] /\ at'[d] = at[d]
    BY DEF ClientStep, Find, Create, Subscribe, Read, EndOfStream, Leave, Typed
  <2>2. ServedAlone(d)
    BY DEF AlonesServed
  <2>3. QED
    BY <1>1, <1>2, <2>1, <2>2, Untouched
<1>4. ServedAlone(c)'
  <2>1. CASE Find(c) \/ Create(c)
    <3>1. sent'[c] = <<>> /\ at'[c] \notin {"stream", "ended"}
      BY <1>1, <2>1 DEF Find, Create, Places, Typed
    <3>2. QED
      BY <3>1, NothingYet
  <2>2. CASE Subscribe(c)
    <3>1. owner[c] \in Actor /\ owner'[c] = owner[c] /\ at[c] = "subscribe"
      BY <1>1, <2>2 DEF Subscribe, Places
    <3>2. c \notin joined[owner[c]]
      BY <3>1 DEF AlonesServed, Begun
    <3>3. joined'[owner'[c]] # {c}
      BY <1>1, <3>1, <3>2
    <3>4. QED
      BY <3>3 DEF ServedAlone
  <2>3. CASE Read(c) \/ EndOfStream(c) \/ Leave(c)
    <3>1. /\ range'[c] = range[c] /\ owner'[c] = owner[c]
          /\ at'[c] = "stream" => at[c] = "stream"
          /\ at'[c] = "ended" => at[c] \in {"stream", "ended"}
      BY <2>3 DEF Read, EndOfStream, Leave, Typed
    <3>2. ServedAlone(c)
      BY DEF AlonesServed
    <3>3. QED
      BY <1>1, <1>2, <3>1, <3>2, Untouched
  <2>4. QED
    BY <2>1, <2>2, <2>3 DEF ClientStep
<1>5. QED
  BY <1>3, <1>4, ClientBegun DEF AlonesServed

\* One actor moves, and the clients whose handle is another's do not notice.
LEMMA OneActor ==
  ASSUME Typed, AlonesServed, NEW a \in Actor, UNCHANGED <<at, range, owner>>,
         \A b \in Actor \ {a} :
           /\ mailbox'[b] = mailbox[b] /\ subscribers'[b] = subscribers[b]
           /\ completed'[b] = completed[b] /\ phase'[b] = phase[b]
           /\ current'[b] = current[b] /\ turn'[b] = turn[b]
           /\ joined'[b] = joined[b] /\ cut'[b] = cut[b],
         \A c \in Client : owner[c] # a => sent'[c] = sent[c],
         \A c \in Client : failed[c] => failed'[c],
         Begun(a)', \A c \in Client : owner[c] = a => ServedAlone(c)'
  PROVE  AlonesServed'
<1>1. ASSUME NEW b \in Actor
      PROVE  Begun(b)'
  <2>1. CASE b = a
    BY <2>1
  <2>2. CASE b # a
    <3>1. /\ b \in Actor \ {a} /\ subscribers[b] \in Seq(Client)
          /\ mailbox'[b] = mailbox[b]
          /\ subscribers'[b] = subscribers[b] /\ completed'[b] = completed[b]
          /\ phase'[b] = phase[b] /\ turn'[b] = turn[b] /\ joined'[b] = joined[b]
      BY <2>2 DEF Typed
    <3>2. \A n \in DOMAIN subscribers[b] : subscribers[b][n] \in Client
      BY <3>1
    <3>3. Begun(b)
      BY DEF AlonesServed
    <3>4. QED
      BY <2>2, <3>1, <3>2, <3>3 DEF Begun
  <2>3. QED
    BY <2>1, <2>2
<1>2. ASSUME NEW c \in Client, owner[c] # a
      PROVE  ServedAlone(c)'
  <2>1. ServedAlone(c) /\ sent'[c] = sent[c]
    BY <1>2 DEF AlonesServed
  <2>2. owner[c] \in Actor => owner[c] \in Actor \ {a}
    BY <1>2
  <2>3. QED
    BY <2>1, <2>2, Untouched
<1>3. QED
  BY <1>1, <1>2 DEF AlonesServed

\* What its own actor does to a client, when it sends nothing.
LEMMA ServedBy ==
  ASSUME NEW a \in Actor, NEW c \in Client, UNCHANGED <<at, range, owner>>, owner[c] = a,
         sent'[c] = sent[c], cut[a] \subseteq cut'[a], Contiguous(c),
         at[c] = "stream" /\ Lists(subscribers'[a], c) =>
           \E k \in FirstChunk(c) .. LastChunk(c) + 1 :
             StandsAt(c, k, completed'[a], phase'[a], current'[a], turn'[a], cut'[a]),
         at[c] \in {"stream", "ended"} /\ ~ Lists(subscribers'[a], c) /\ ~ failed'[c]
           => Finished(c, cut'[a])
  PROVE  ServedAlone(c)'
<1>1. Contiguous(c)'
  BY ContiguousOn
<1>2. NextByte(c)' = NextByte(c) /\ Hi(c)' = Hi(c) /\ owner'[c] = a
  BY DEF NextByte, ByteAfter, Lo, Hi
<1>3. at'[c] = "stream" /\ Subscribed(a, c)' => Steady(c)'
  BY <1>2 DEF Subscribed, Lists, Steady, StandsAt, FirstChunk, LastChunk, Begin, Lo, Hi, ChunkStart
<1>4. at'[c] \in {"stream", "ended"} /\ ~ Subscribed(a, c)' /\ ~ failed'[c]
        => Finished(c, cut[a])'
  BY <1>2 DEF Subscribed, Lists, Finished
<1>5. QED
  BY <1>1, <1>2, <1>3, <1>4 DEF ServedAlone, Subscribed, Finished

\* Nor does it take anybody on.
LEMMA StillServed ==
  ASSUME Typed, Places, NEW a \in Actor, NEW c \in Client, UNCHANGED <<at, range, owner>>,
         owner[c] = a, ServedAlone(c), joined[a] = {c},
         sent'[c] = sent[c], failed[c] => failed'[c], cut[a] \subseteq cut'[a],
         Lists(subscribers'[a], c) => Subscribed(a, c),
         ASSUME at[c] = "stream", Subscribed(a, c), Lists(subscribers'[a], c),
                NEW k \in FirstChunk(c) .. LastChunk(c) + 1,
                StandsAt(c, k, completed[a], phase[a], current[a], turn[a], cut[a])
         PROVE  \E l \in FirstChunk(c) .. LastChunk(c) + 1 :
                  StandsAt(c, l, completed'[a], phase'[a], current'[a], turn'[a], cut'[a]),
         ASSUME at[c] = "stream", Subscribed(a, c), ~ Lists(subscribers'[a], c), ~ failed'[c],
                NEW k \in FirstChunk(c) .. LastChunk(c) + 1,
                StandsAt(c, k, completed[a], phase[a], current[a], turn[a], cut[a])
         PROVE  Finished(c, cut'[a])
  PROVE  ServedAlone(c)'
<1>1. /\ Contiguous(c)
      /\ at[c] = "stream" /\ Subscribed(a, c) => Steady(c)
      /\ at[c] \in {"stream", "ended"} /\ ~ Subscribed(a, c) /\ ~ failed[c]
           => Finished(c, cut[a])
  BY DEF ServedAlone
<1>2. at[c] = "stream" /\ Lists(subscribers'[a], c) =>
        \E k \in FirstChunk(c) .. LastChunk(c) + 1 :
          StandsAt(c, k, completed'[a], phase'[a], current'[a], turn'[a], cut'[a])
  <2> SUFFICES ASSUME at[c] = "stream", Lists(subscribers'[a], c)
               PROVE  \E k \in FirstChunk(c) .. LastChunk(c) + 1 :
                        StandsAt(c, k, completed'[a], phase'[a], current'[a], turn'[a], cut'[a])
    OBVIOUS
  <2>1. PICK k \in FirstChunk(c) .. LastChunk(c) + 1 :
          StandsAt(c, k, completed[a], phase[a], current[a], turn[a], cut[a])
    BY <1>1 DEF Steady
  <2>2. QED
    BY <2>1
<1>3. ASSUME at[c] \in {"stream", "ended"}, ~ Lists(subscribers'[a], c), ~ failed'[c]
      PROVE  Finished(c, cut'[a])
  <2>1. CASE Subscribed(a, c)
    <3>1. at[c] = "stream"
      BY <1>3, <2>1 DEF Subscribed, Places
    <3>2. PICK k \in FirstChunk(c) .. LastChunk(c) + 1 :
            StandsAt(c, k, completed[a], phase[a], current[a], turn[a], cut[a])
      BY <1>1, <2>1, <3>1 DEF Steady
    <3>3. QED
      BY <1>3, <2>1, <3>1, <3>2
  <2>2. CASE ~ Subscribed(a, c)
    <3>1. Finished(c, cut[a])
      BY <1>1, <1>3, <2>2
    <3>2. QED
      BY <3>1, FinishedOn
  <2>3. QED
    BY <2>1, <2>2
<1>4. QED
  BY <1>1, <1>2, <1>3, ServedBy

LEMMA TheOnlyOne ==
  ASSUME Typed, Places, AlonesServed, NEW a \in Actor, NEW d, joined[a] = {d},
         NEW c, Subscribed(a, c)
  PROVE  c = d /\ Len(subscribers[a]) = 1 /\ DOMAIN subscribers[a] = {1} /\ subscribers[a][1] = c
<1>1. /\ subscribers[a] \in Seq(Client)
      /\ \A n \in DOMAIN subscribers[a] : subscribers[a][n] = d
  BY DEF Typed, AlonesServed, Begun
<1>2. DOMAIN subscribers[a] = 1 .. Len(subscribers[a]) /\ Len(subscribers[a]) \in Nat
  BY <1>1
<1>3. PICK n \in DOMAIN subscribers[a] : subscribers[a][n] = c
  BY DEF Subscribed
<1>4. 1 \in DOMAIN subscribers[a] /\ Len(subscribers[a]) \in DOMAIN subscribers[a]
  BY <1>2, <1>3
<1>5. \A m, k \in DOMAIN subscribers[a] : m = k
  BY <1>1 DEF Places
<1>6. n = 1 /\ Len(subscribers[a]) = 1 /\ DOMAIN subscribers[a] = {1}
  <2>1. n = 1 /\ Len(subscribers[a]) = 1
    BY <1>3, <1>4, <1>5
  <2>2. \A k \in DOMAIN subscribers[a] : k = 1
    BY <1>4, <1>5
  <2>3. QED
    BY <1>4, <2>1, <2>2
<1>7. QED
  BY <1>1, <1>3, <1>6

\* With one subscriber the most urgent chunk is the next one.
LEMMA NextInLine ==
  ASSUME Typed, NEW a \in Actor, NEW c \in Client, NEW s, DOMAIN s = {1}, s[1] = c,
         NEW k \in FirstChunk(c) .. LastChunk(c) + 1, completed[a] = FirstChunk(c) .. k - 1
  PROVE  SelectNext(a, s) = IF k <= LastChunk(c) THEN {k} ELSE {}
<1> DEFINE C == Candidates(a, s)
           p == <<1, k>>
<1>1. /\ FirstChunk(c) \in Nat /\ LastChunk(c) \in Nat /\ LastChunk(c) \in Chunk /\ k \in Nat
      /\ Lo(c) \in Nat /\ Hi(c) \in Nat
  BY RangeChunks
<1>2. \A j \in FirstChunk(c) .. LastChunk(c) : j \in Chunk
  BY <1>1, CountCovers DEF Chunk
<1>3. /\ \A q \in C : q = <<1, q[2]>> /\ q[1] = 1 /\ q[2] \in k .. LastChunk(c)
      /\ k <= LastChunk(c) => p \in C
  BY <1>1, <1>2 DEF Candidates
<1>4. CASE ~ (k <= LastChunk(c))
  <2>1. C = {}
    BY <1>1, <1>3, <1>4
  <2>2. QED
    BY <1>4, <2>1 DEF SelectNext
<1>5. CASE k <= LastChunk(c)
  <2> HIDE DEF C
  <2>1. RangeLen(s, p) \in Nat /\ \A q \in C : RangeLen(s, q) = RangeLen(s, p)
    <3>1. Hi(c) - Lo(c) \in Int
      BY <1>1
    <3>2. RangeLen(s, p) \in Nat
      BY <1>1, <3>1, GreatestOfTwo DEF RangeLen
    <3>3. QED
      BY <1>3, <3>2 DEF RangeLen
  <2>2. ASSUME NEW q \in C
        PROVE  /\ Distance(s, p) \in Nat /\ Distance(s, q) \in Nat
               /\ Distance(s, p) <= Distance(s, q)
    <3>1. q[2] \in Nat /\ k <= q[2] /\ q[1] = 1
      BY <1>1, <1>3
    <3>2. /\ ChunkStart(k) \in Nat /\ ChunkStart(q[2]) \in Nat
          /\ ChunkStart(k) <= ChunkStart(q[2])
      BY <1>1, <3>1, StartsAscend
    <3>3. ChunkStart(k) - Lo(c) \in Int /\ ChunkStart(q[2]) - Lo(c) \in Int
      BY <1>1, <3>2
    <3>4. /\ Distance(s, p) = IF ChunkStart(k) - Lo(c) >= 0 THEN ChunkStart(k) - Lo(c) ELSE 0
          /\ Distance(s, q) = IF ChunkStart(q[2]) - Lo(c) >= 0 THEN ChunkStart(q[2]) - Lo(c) ELSE 0
      BY <3>1, <3>3, GreatestOfTwo DEF Distance
    <3>5. \A x, y, z \in Nat : LET u == IF x - z >= 0 THEN x - z ELSE 0
                                   v == IF y - z >= 0 THEN y - z ELSE 0
                               IN  x <= y => u \in Nat /\ v \in Nat /\ u <= v
      OBVIOUS
    <3>6. Lo(c) \in Nat
      BY <1>1
    <3> HIDE DEF p
    <3>7. QED
      BY <3>2, <3>4, <3>5, <3>6
  <2>3. \A q \in C : ~ MoreUrgent(s, q, p)
    <3> SUFFICES ASSUME NEW q \in C PROVE ~ MoreUrgent(s, q, p)
      OBVIOUS
    <3>1. Distance(s, p) * RangeLen(s, p) <= Distance(s, q) * RangeLen(s, p)
          /\ Distance(s, p) * RangeLen(s, p) \in Nat /\ Distance(s, q) * RangeLen(s, p) \in Nat
      BY <2>1, <2>2, Monotone
    <3>2. QED
      BY <2>1, <3>1 DEF MoreUrgent
  <2>4. \A q \in C \ {p} : Before(p, q) /\ ~ Before(q, p)
    <3> SUFFICES ASSUME NEW q \in C, q # p PROVE Before(p, q) /\ ~ Before(q, p)
      OBVIOUS
    <3>1. q[2] # k /\ q[2] \in k .. LastChunk(c) /\ q[1] = 1
      BY <1>3
    <3>2. QED
      BY <1>1, <3>1 DEF Before
  <2>5. \A q \in C : (\A r \in C \ {q} : MoreUrgent(s, q, r) \/ (~ MoreUrgent(s, r, q) /\ Before(q, r)))
                       <=> q = p
    BY <1>3, <1>5, <2>3, <2>4
  <2>6. SelectNext(a, s) = {q[2] : q \in {p}}
    BY <1>3, <1>5, <2>5 DEF SelectNext, C
  <2>7. QED
    BY <1>5, <2>6
<1>6. QED
  BY <1>4, <1>5

LEMMA DrainAlone ==
  ASSUME Typed, Places, AlonesServed, NEW a \in Actor, Drain(a)
  PROVE  AlonesServed'
<1> DEFINE s == subscribers[a]
           m == mailbox[a]
           q == s \o m
<1>1. /\ s \in Seq(Client) /\ m \in Seq(Client)
      /\ UNCHANGED <<at, range, owner, sent, failed, completed, current, turn, cut>>
      /\ subscribers'[a] = q /\ mailbox'[a] = <<>>
      /\ phase[a] = "drain" /\ phase'[a] = "select"
      /\ joined'[a] = joined[a] \cup Range(m)
      /\ \A b \in Actor \ {a} : /\ subscribers'[b] = subscribers[b] /\ mailbox'[b] = mailbox[b]
                                /\ phase'[b] = phase[b] /\ joined'[b] = joined[b]
  BY DEF Drain, clientVars, pieceVars, Typed
<1>2. Begun(a)
  BY DEF AlonesServed
<1>3. /\ \A n \in DOMAIN m : /\ m[n] \notin joined[a] /\ at[m[n]] \in {"stream", "left"}
                             /\ m[n] \in Range(m)
      /\ \A n \in DOMAIN s : s[n] \in joined[a]
      /\ \A x \in Range(m) : \E n \in DOMAIN m : m[n] = x
  BY <1>2 DEF Begun, Places, Range
<1> HIDE DEF s, m
<1>4. /\ Len(s) \in Nat /\ Len(m) \in Nat /\ DOMAIN q = 1 .. Len(s) + Len(m)
      /\ DOMAIN s = 1 .. Len(s) /\ DOMAIN m = 1 .. Len(m)
      /\ \A n \in DOMAIN q : IF n <= Len(s) THEN n \in DOMAIN s /\ q[n] = s[n]
                             ELSE n - Len(s) \in DOMAIN m /\ q[n] = m[n - Len(s)]
      /\ \A n \in DOMAIN m : n + Len(s) \in DOMAIN q /\ q[n + Len(s)] = m[n]
      /\ m = <<>> => q = s
  BY <1>1
<1> HIDE DEF q
<1>5. Begun(a)'
  <2>1. \A n \in DOMAIN q : q[n] \in joined'[a]
    BY <1>1, <1>3, <1>4
  <2>2. \A c \in joined'[a] : at[c] \in {"stream", "ended", "left"}
    BY <1>1, <1>2, <1>3 DEF Begun
  <2>3. joined'[a] = {} => joined[a] = {}
    BY <1>1
  <2>4. \A c \in Client : owner[c] = a /\ sent[c] # <<>> => c \in joined'[a]
    BY <1>1, <1>2 DEF Begun
  <2>5. QED
    BY <1>1, <1>2, <2>1, <2>2, <2>3, <2>4 DEF Begun
<1>6. ASSUME NEW c \in Client, owner[c] = a
      PROVE  ServedAlone(c)'
  <2>1. CASE joined'[a] # {c}
    BY <1>1, <1>6, <2>1 DEF ServedAlone
  <2>2. CASE joined[a] = {c} /\ joined'[a] = {c}
    <3>1. m = <<>>
      <4>1. DOMAIN m = {}
        BY <1>1, <1>3, <2>2
      <4>2. QED
        BY <1>1, <4>1
    <3>2. subscribers'[a] = subscribers[a]
      BY <1>1, <1>4, <3>1 DEF s
    <3>3. \A k : StandsAt(c, k, completed[a], phase[a], current[a], turn[a], cut[a])
                   => StandsAt(c, k, completed'[a], phase'[a], current'[a], turn'[a], cut'[a])
      BY <1>1 DEF StandsAt
    <3>4. ServedAlone(c)
      BY DEF AlonesServed
    <3>5. Lists(subscribers'[a], c) <=> Subscribed(a, c)
      BY <3>2 DEF Lists, Subscribed
    <3>6. QED
      BY <1>1, <1>6, <2>2, <3>3, <3>4, <3>5, StillServed
  <2>3. CASE joined[a] = {} /\ joined'[a] = {c}
    <3>1. sent[c] = <<>> /\ completed[a] = {}
      BY <1>2, <1>6, <2>3 DEF Begun
    <3>2. Contiguous(c)
      BY <3>1 DEF Contiguous
    <3>3. FirstChunk(c) \in Nat /\ LastChunk(c) \in Nat /\ FirstChunk(c) <= LastChunk(c)
          /\ Lo(c) \in Int
      BY RangeChunks
    <3>4. NextByte(c) = Lo(c) /\ Begin(c, FirstChunk(c)) = Lo(c)
      BY <3>1, <3>3 DEF NextByte, ByteAfter, Begin
    <3>5. Gap(cut'[a], NextByte(c), Begin(c, FirstChunk(c)))
      BY <3>3, <3>4, GapSelf
    <3>6. FirstChunk(c) .. FirstChunk(c) - 1 = {}
      BY <3>3
    <3>7. StandsAt(c, FirstChunk(c), completed'[a], phase'[a], current'[a], turn'[a], cut'[a])
      BY <1>1, <3>1, <3>5, <3>6 DEF StandsAt
    <3>8. FirstChunk(c) \in FirstChunk(c) .. LastChunk(c) + 1
      BY <3>3
    <3>9. Lists(subscribers'[a], c)
      <4>1. PICK n \in DOMAIN m : m[n] = c
        BY <1>1, <1>3, <2>3
      <4>2. QED
        BY <1>1, <1>4, <4>1 DEF Lists
    <3>10. QED
      BY <1>1, <1>6, <3>2, <3>7, <3>8, <3>9, ServedBy
  <2>4. joined'[a] = {c} => joined[a] = {c} \/ joined[a] = {}
    BY <1>1
  <2>5. QED
    BY <2>1, <2>2, <2>3, <2>4
<1>7. QED
  BY <1>1, <1>5, <1>6, OneActor

LEMMA SelectAlone ==
  ASSUME Typed, Places, AlonesServed, NEW a \in Actor, Select(a)
  PROVE  AlonesServed'
<1>s. PICK s : s = Retain(subscribers[a])
  OBVIOUS
<1>1. /\ UNCHANGED <<at, range, owner, sent, failed, completed, turn, joined, cut>>
      /\ phase[a] = "select" /\ subscribers[a] \in Seq(Client)
      /\ \A b \in Actor \ {a} : /\ subscribers'[b] = subscribers[b] /\ mailbox'[b] = mailbox[b]
                                /\ phase'[b] = phase[b] /\ current'[b] = current[b]
  BY DEF Select, Stop, clientVars, pieceVars, Typed
<1>2. \/ /\ SelectNext(a, s) = {}
         /\ phase'[a] = "stopped" /\ subscribers'[a] = <<>> /\ mailbox'[a] = <<>>
      \/ \E i \in SelectNext(a, s) :
           /\ phase'[a] = "download" /\ subscribers'[a] = s /\ current'[a] = i
           /\ mailbox'[a] = mailbox[a]
  BY <1>s DEF Select, Stop, Typed
<1>3. Keeps(subscribers[a], s, Len(subscribers[a]))
  BY <1>s, SubscribersKept
<1>4. /\ s \in Seq(Client) /\ Len(s) \in Nat /\ DOMAIN s = 1 .. Len(s)
      /\ DOMAIN subscribers[a] = 1 .. Len(subscribers[a]) /\ Len(subscribers[a]) \in Nat
      /\ Len(s) <= Len(subscribers[a])
  BY <1>1, <1>3 DEF Keeps
<1>5. \A c : Lists(s, c) => Subscribed(a, c)
  BY <1>3, <1>4 DEF Keeps, Lists, Subscribed
<1>6. \A c : at[c] = "stream" /\ Subscribed(a, c) => Lists(s, c)
  BY <1>3, <1>4 DEF Keeps, Lists, Subscribed, Closed
<1>7. Begun(a) /\ \A c : Subscribed(a, c) => c \in joined[a]
  BY DEF AlonesServed, Begun, Subscribed
<1>8. Begun(a)'
  <2>1. CASE phase'[a] = "stopped" /\ subscribers'[a] = <<>> /\ mailbox'[a] = <<>>
    BY <1>1, <1>7, <2>1 DEF Begun
  <2>2. ASSUME NEW i \in SelectNext(a, s), mailbox'[a] = mailbox[a],
               phase'[a] = "download", subscribers'[a] = s
        PROVE  Begun(a)'
    <3>1. DOMAIN s # {}
      BY SelectedNeeded
    <3>2. \A n \in DOMAIN s : s[n] \in joined[a]
      BY <1>5, <1>7 DEF Lists
    <3>3. joined[a] # {}
      BY <3>1, <3>2
    <3>4. QED
      BY <1>1, <1>7, <2>2, <3>2, <3>3 DEF Begun
  <2>3. QED
    BY <1>2, <2>1, <2>2
<1>9. ASSUME NEW c \in Client, owner[c] = a
      PROVE  ServedAlone(c)'
  <2>1. CASE joined[a] # {c}
    BY <1>1, <1>9, <2>1 DEF ServedAlone
  <2>2. CASE joined[a] = {c}
    <3>1. ServedAlone(c)
      BY DEF AlonesServed
    <3>2. Lists(subscribers'[a], c) => Subscribed(a, c)
      BY <1>2, <1>5 DEF Lists
    <3>3. ASSUME at[c] = "stream", Subscribed(a, c),
                 NEW k \in FirstChunk(c) .. LastChunk(c) + 1,
                 StandsAt(c, k, completed[a], phase[a], current[a], turn[a], cut[a])
          PROVE  SelectNext(a, s) = IF k <= LastChunk(c) THEN {k} ELSE {}
      <4>1. Len(subscribers[a]) = 1 /\ Lists(s, c)
        BY <1>6, <2>2, <3>3, TheOnlyOne
      <4>2. DOMAIN s = {1} /\ s[1] = c
        <5>1. PICK n \in 1 .. Len(s) : s[n] = c
          BY <1>4, <4>1 DEF Lists
        <5>2. \A l \in Nat : \A j \in 1 .. l : l <= 1 => j = 1 /\ l = 1
          OBVIOUS
        <5>3. n = 1 /\ Len(s) = 1
          BY <1>4, <4>1, <5>1, <5>2
        <5>4. QED
          BY <1>4, <5>1, <5>3
      <4>3. completed[a] = FirstChunk(c) .. k - 1
        BY <3>3 DEF StandsAt
      <4>4. QED
        BY <4>2, <4>3, NextInLine
    <3>4. ASSUME at[c] = "stream", Subscribed(a, c), Lists(subscribers'[a], c),
                 NEW k \in FirstChunk(c) .. LastChunk(c) + 1,
                 StandsAt(c, k, completed[a], phase[a], current[a], turn[a], cut[a])
          PROVE  \E l \in FirstChunk(c) .. LastChunk(c) + 1 :
                   StandsAt(c, l, completed'[a], phase'[a], current'[a], turn'[a], cut'[a])
      <4>1. subscribers'[a] # <<>>
        BY <3>4 DEF Lists
      <4>2. k <= LastChunk(c) /\ phase'[a] = "download" /\ current'[a] = k
        BY <1>2, <3>3, <3>4, <4>1
      <4>3. StandsAt(c, k, completed'[a], phase'[a], current'[a], turn'[a], cut'[a])
        BY <1>1, <3>4, <4>2 DEF StandsAt
      <4>4. QED
        BY <4>3
    <3>5. ASSUME at[c] = "stream", Subscribed(a, c), ~ Lists(subscribers'[a], c), ~ failed'[c],
                 NEW k \in FirstChunk(c) .. LastChunk(c) + 1,
                 StandsAt(c, k, completed[a], phase[a], current[a], turn[a], cut[a])
          PROVE  Finished(c, cut'[a])
      <4>1. SelectNext(a, s) = {}
        BY <1>2, <1>6, <3>5
      <4>2. ~ (k <= LastChunk(c))
        BY <3>3, <3>5, <4>1
      <4>3. FirstChunk(c) \in Nat /\ LastChunk(c) \in Nat /\ FirstChunk(c) <= LastChunk(c)
        BY RangeChunks
      <4>4. Begin(c, k) = Hi(c) + 1
        BY <4>2, <4>3 DEF Begin
      <4>5. QED
        BY <1>1, <3>5, <4>4 DEF StandsAt, Finished
    <3>6. QED
      BY <1>1, <1>9, <2>2, <3>1, <3>2, <3>4, <3>5, StillServed
  <2>3. QED
    BY <2>1, <2>2
<1>10. QED
  BY <1>1, <1>8, <1>9, OneActor

\* The next subscriber is sent the part that follows on.
LEMMA ForwardAlone ==
  ASSUME Typed, Held, Places, AlonesServed, NEW a \in Actor, Forward(a)
  PROVE  AlonesServed'
<1>c. PICK c \in Client : c = subscribers[a][turn[a]]
  BY Served DEF Forward
<1>i. PICK i : i = current[a]
  OBVIOUS
<1>1. /\ owner[c] = a /\ at[c] \in {"stream", "left"} /\ Subscribed(a, c)
      /\ turn[a] \in DOMAIN subscribers[a]
  BY <1>c, Served DEF Forward
<1> DEFINE x == Slice(c, i, data[a])
<1>2. /\ UNCHANGED <<phase, mailbox, subscribers, completed, current, at, range, owner, failed,
                     joined, cut>>
      /\ phase[a] = "forward" /\ turn[a] \in Nat /\ turn'[a] = turn[a] + 1
      /\ \A b \in Actor \ {a} : turn'[b] = turn[b]
      /\ sent' = IF Overlaps(c, i, data[a]) /\ ~ Closed(c)
                 THEN [sent EXCEPT ![c] = Append(@, x)] ELSE sent
  BY <1>c, <1>i DEF Forward, pieceVars, Typed
<1> HIDE DEF x
<1>3. sent \in [Client -> Seq(Int \X Int)]
  BY DEF Typed
<1>4. \A d \in Client \ {c} : sent'[d] = sent[d]
  BY <1>2, <1>3
<1>5. Begun(a)'
  <2>1. Begun(a) /\ joined[a] # {} /\ c \in joined[a]
    BY <1>1, <1>2 DEF AlonesServed, Begun, Subscribed
  <2>2. \A d \in Client : owner[d] = a /\ sent'[d] # <<>> => d \in joined[a]
    BY <1>4, <2>1 DEF Begun
  <2>3. QED
    BY <1>2, <2>1, <2>2 DEF Begun
<1>6. ASSUME NEW d \in Client, owner[d] = a
      PROVE  ServedAlone(d)'
  <2>1. CASE joined[a] # {d}
    BY <1>2, <1>6, <2>1 DEF ServedAlone
  <2>2. CASE joined[a] = {d} /\ sent'[c] = sent[c]
    <3>1. c = d /\ Len(subscribers[a]) = 1
      BY <1>1, <2>2, TheOnlyOne
    <3>2. ServedAlone(c)
      BY DEF AlonesServed
    <3>3. Lists(subscribers'[a], c)
      BY <1>1, <1>2 DEF Lists, Subscribed
    <3>4. ASSUME at[c] = "stream", NEW k \in FirstChunk(c) .. LastChunk(c) + 1,
                 StandsAt(c, k, completed[a], phase[a], current[a], turn[a], cut[a])
          PROVE  StandsAt(c, k, completed'[a], phase'[a], current'[a], turn'[a], cut'[a])
      <4>1. turn[a] = 1 /\ turn'[a] > 1
        <5>1. DOMAIN subscribers[a] = {1}
          BY <1>1, <2>2, TheOnlyOne
        <5>2. QED
          BY <1>1, <1>2, <5>1
      <4>2. /\ completed[a] = FirstChunk(c) .. k - 1 /\ k <= LastChunk(c) /\ i = k
            /\ Gap(cut[a], NextByte(c), Begin(c, k))
        BY <1>2, <1>i, <3>4, <4>1 DEF StandsAt
      <4>3. k \in FirstChunk(c) .. LastChunk(c)
        BY <4>2, RangeChunks
      <4>4. data[a] \in 0 .. Size(k) /\ (data[a] # Size(k) => k \in cut[a])
        BY <1>2, <1>i, <4>2 DEF Held
      <4>5. ~ Overlaps(c, k, data[a])
        <5>1. Overlaps(c, i, data[a]) => sent'[c] = Append(sent[c], x)
          BY <1>2, <1>3, <3>4 DEF Closed
        <5>2. sent[c] \in Seq(Int \X Int) => Append(sent[c], x) # sent[c]
          <6>1. \A q \in Seq(Int \X Int) : Len(Append(q, x)) # Len(q)
            OBVIOUS
          <6>2. QED
            BY <6>1
        <5>3. QED
          BY <1>3, <2>2, <4>2, <5>1, <5>2
      <4>6. /\ Begin(c, k) \in Int /\ Begin(c, k + 1) \in Int
            /\ Gap(cut[a], Begin(c, k), Begin(c, k + 1))
        BY <4>3, <4>4, <4>5, PieceJoins
      <4>7. Gap(cut[a], NextByte(c), Begin(c, k + 1))
        BY <4>2, <4>6, GapsJoin, NextByteInt
      <4>8. QED
        BY <1>2, <1>i, <4>1, <4>2, <4>7 DEF StandsAt
    <3>5. QED
      BY <1>1, <1>2, <1>6, <2>2, <3>1, <3>2, <3>3, <3>4, StillServed
  <2>3. CASE joined[a] = {d} /\ sent'[c] # sent[c]
    <3>1. c = d /\ turn[a] = 1
      <4>1. c = d /\ DOMAIN subscribers[a] = {1}
        BY <1>1, <2>3, TheOnlyOne
      <4>2. QED
        BY <1>1, <4>1
    <3>2. at[c] = "stream" /\ Overlaps(c, i, data[a]) /\ sent'[c] = Append(sent[c], x)
      BY <1>1, <1>2, <1>3, <2>3 DEF Closed
    <3>3. Contiguous(c) /\ Steady(c)
      BY <1>1, <2>3, <3>1, <3>2 DEF AlonesServed, ServedAlone
    <3>4. PICK k \in FirstChunk(c) .. LastChunk(c) + 1 :
            StandsAt(c, k, completed[a], phase[a], current[a], turn[a], cut[a])
      BY <1>1, <3>3 DEF Steady
    <3>5. /\ completed[a] = FirstChunk(c) .. k - 1 /\ k <= LastChunk(c) /\ i = k
          /\ Gap(cut[a], NextByte(c), Begin(c, k))
      BY <1>2, <1>i, <3>1, <3>4 DEF StandsAt
    <3>6. k \in FirstChunk(c) .. LastChunk(c)
      BY <3>5, RangeChunks
    <3>7. data[a] \in 0 .. Size(k) /\ (data[a] # Size(k) => k \in cut[a])
      BY <1>2, <1>i, <3>5 DEF Held
    <3>8. k \in Chunk
      BY <3>6, <3>7, PieceJoins
    <3>9. x \in Int \X Int
      BY <3>5, <3>7, <3>8, SliceBytes DEF x
    <3>10. /\ x[1] = Begin(c, k) /\ x[2] \in Begin(c, k) - 1 .. Hi(c)
           /\ Gap(cut[a], x[2] + 1, Begin(c, k + 1))
      BY <3>2, <3>5, <3>6, <3>7, PieceJoins DEF x
    <3>11. /\ NextByte(c)' = x[2] + 1
           /\ Contiguous(c)' <=> /\ Contiguous(c)
                                 /\ Gap(cut[owner[c]], NextByte(c), x[1])
                                 /\ x[2] \in x[1] - 1 .. Hi(c)
      BY <1>2, <1>3, <3>2, <3>9, SentOneMore
    <3>12. Contiguous(c)'
      BY <1>1, <3>3, <3>5, <3>10, <3>11
    <3>13. Steady(c)'
      <4>1. /\ owner'[c] = a /\ phase'[a] = "forward" /\ turn'[a] > 1 /\ current'[a] = k
            /\ completed'[a] = FirstChunk(c) .. k - 1 /\ cut'[a] = cut[a]
        BY <1>1, <1>2, <1>i, <3>1, <3>5
      <4>2. Gap(cut[a], NextByte(c)', Begin(c, k + 1))
        BY <3>10, <3>11
      <4>3. k \in FirstChunk(c) .. LastChunk(c) + 1
        OBVIOUS
      <4>4. QED
        BY <1>2, <3>5, <4>1, <4>2, <4>3
        DEF Steady, StandsAt, FirstChunk, LastChunk, Begin, Lo, Hi, ChunkStart
    <3>14. owner'[c] = a /\ Subscribed(a, c)'
      BY <1>1, <1>2 DEF Subscribed
    <3>15. QED
      BY <3>1, <3>12, <3>13, <3>14 DEF ServedAlone, Subscribed
  <2>4. QED
    BY <2>1, <2>2, <2>3
<1>7. QED
  BY <1>1, <1>2, <1>4, <1>5, <1>6, OneActor

\* An actor that keeps its subscribers and sends nothing goes on from chunk to chunk.
LEMMA SameSubscribers ==
  ASSUME Typed, Places, AlonesServed, NEW a \in Actor,
         UNCHANGED <<at, range, owner, sent, mailbox, subscribers, joined>>,
         \A b \in Actor \ {a} : /\ completed'[b] = completed[b] /\ phase'[b] = phase[b]
                                /\ current'[b] = current[b] /\ turn'[b] = turn[b]
                                /\ cut'[b] = cut[b],
         cut[a] \subseteq cut'[a],
         \A c \in Client : failed[c] => failed'[c],
         Begun(a)',
         ASSUME NEW c \in Client, Subscribed(a, c), joined[a] = {c},
                NEW k \in FirstChunk(c) .. LastChunk(c) + 1,
                StandsAt(c, k, completed[a], phase[a], current[a], turn[a], cut[a])
         PROVE  \E l \in FirstChunk(c) .. LastChunk(c) + 1 :
                  StandsAt(c, l, completed'[a], phase'[a], current'[a], turn'[a], cut'[a])
  PROVE  AlonesServed'
<1>1. ASSUME NEW c \in Client, owner[c] = a
      PROVE  ServedAlone(c)'
  <2>1. CASE joined[a] # {c}
    BY <1>1, <2>1 DEF ServedAlone
  <2>2. CASE joined[a] = {c}
    <3>1. ServedAlone(c)
      BY DEF AlonesServed
    <3>2. Lists(subscribers'[a], c) <=> Subscribed(a, c)
      BY DEF Lists, Subscribed
    <3>3. QED
      BY <1>1, <2>2, <3>1, <3>2, StillServed
  <2>3. QED
    BY <2>1, <2>2
<1>2. QED
  BY <1>1, OneActor

LEMMA ActorAlone ==
  ASSUME Typed, Held, Places, AlonesServed, NEW a \in Actor,
         ActorStep(a) \/ PrefetchStored(a) \/ Hang(a)
  PROVE  AlonesServed'
<1>1. Begun(a)
  BY DEF AlonesServed
<1>2. CASE Arrive(a)
  <2>1. /\ UNCHANGED <<at, range, owner, sent, mailbox, subscribers, joined, failed, completed,
                       current>>
        /\ phase[a] = "download" /\ phase'[a] = "forward" /\ turn'[a] = 1
        /\ \A b \in Actor \ {a} : phase'[b] = phase[b] /\ turn'[b] = turn[b]
    BY <1>2 DEF Arrive, clientVars, Typed
  <2>2. cut[a] \subseteq cut'[a] /\ \A b \in Actor \ {a} : cut'[b] = cut[b]
    <3>1. cut' = cut \/ cut' = [cut EXCEPT ![a] = @ \cup {current[a]}]
      BY <1>2 DEF Arrive
    <3>2. QED
      BY <3>1 DEF Held
  <2>3. \A c, k : StandsAt(c, k, completed[a], phase[a], current[a], turn[a], cut[a])
                    => StandsAt(c, k, completed'[a], phase'[a], current'[a], turn'[a], cut[a])
    BY <2>1 DEF StandsAt
  <2>4. \A c, k : StandsAt(c, k, completed'[a], phase'[a], current'[a], turn'[a], cut[a])
                    => StandsAt(c, k, completed'[a], phase'[a], current'[a], turn'[a], cut'[a])
    BY <2>2, StandsOn
  <2>5. Begun(a)'
    BY <1>1, <2>1 DEF Begun
  <2>6. QED
    BY <2>1, <2>2, <2>3, <2>4, <2>5, SameSubscribers
<1>3. CASE Fail(a)
  <2>1. /\ UNCHANGED <<at, range, owner, sent, mailbox, subscribers, joined, failed, completed,
                       current, cut>>
        /\ phase[a] = "download" /\ phase'[a] = "error" /\ turn'[a] = 1
        /\ \A b \in Actor \ {a} : phase'[b] = phase[b] /\ turn'[b] = turn[b]
        /\ subscribers[a] \in Seq(Client)
    BY <1>3 DEF Fail, clientVars, pieceVars, Typed
  <2>2. \A c, k : StandsAt(c, k, completed[a], phase[a], current[a], turn[a], cut[a])
                    => StandsAt(c, k, completed'[a], phase'[a], current'[a], turn'[a], cut'[a])
    BY <2>1 DEF StandsAt
  <2>3. \A n \in DOMAIN subscribers[a] : ~ (n < 1)
    BY <2>1
  <2>4. Begun(a)'
    BY <1>1, <2>1, <2>3 DEF Begun
  <2>5. QED
    BY <2>1, <2>2, <2>4, SameSubscribers
<1>4. CASE Advance(a)
  <2>1. /\ UNCHANGED <<at, range, owner, sent, mailbox, subscribers, joined, failed, current,
                       turn, cut>>
        /\ phase[a] = "forward" /\ phase'[a] = "drain"
        /\ completed'[a] = completed[a] \cup {current[a]}
        /\ turn[a] > Len(subscribers[a]) /\ turn[a] \in Nat
        /\ \A b \in Actor \ {a} : phase'[b] = phase[b] /\ completed'[b] = completed[b]
    BY <1>4 DEF Advance, Done, clientVars, pieceVars, Typed
  <2>2. ASSUME NEW c \in Client, Subscribed(a, c), joined[a] = {c},
               NEW k \in FirstChunk(c) .. LastChunk(c) + 1,
               StandsAt(c, k, completed[a], phase[a], current[a], turn[a], cut[a])
        PROVE  \E l \in FirstChunk(c) .. LastChunk(c) + 1 :
                 StandsAt(c, l, completed'[a], phase'[a], current'[a], turn'[a], cut'[a])
    <3>1. turn[a] > 1
      BY <2>1, <2>2, TheOnlyOne
    <3>2. /\ completed[a] = FirstChunk(c) .. k - 1 /\ k <= LastChunk(c) /\ current[a] = k
          /\ Gap(cut[a], NextByte(c), Begin(c, k + 1))
      BY <2>1, <2>2, <3>1 DEF StandsAt
    <3>3. FirstChunk(c) \in Nat /\ LastChunk(c) \in Nat
      BY RangeChunks
    <3>4. k + 1 \in FirstChunk(c) .. LastChunk(c) + 1
      BY <3>2, <3>3
    <3>5. completed'[a] = FirstChunk(c) .. k + 1 - 1
      BY <2>1, <3>2, <3>3
    <3>6. StandsAt(c, k + 1, completed'[a], phase'[a], current'[a], turn'[a], cut'[a])
      BY <2>1, <3>2, <3>5 DEF StandsAt
    <3>7. QED
      BY <3>4, <3>6
  <2>3. Begun(a)'
    BY <1>1, <2>1 DEF Begun
  <2>4. QED
    BY <2>1, <2>2, <2>3, SameSubscribers
<1>5. CASE ForwardError(a)
  <2>c. PICK c \in Client : c = subscribers[a][turn[a]]
    BY <1>5, Served DEF ForwardError
  <2>1. /\ UNCHANGED <<at, range, owner, sent, mailbox, subscribers, joined, completed,
                       current, phase, cut>>
        /\ phase[a] = "error" /\ turn[a] \in Nat \ {0} /\ turn'[a] = turn[a] + 1
        /\ \A b \in Actor \ {a} : turn'[b] = turn[b]
        /\ failed' = [failed EXCEPT ![c] = TRUE] /\ failed \in [Client -> BOOLEAN]
        /\ subscribers[a] \in Seq(Client)
    BY <1>5, <2>c DEF ForwardError, pieceVars, Typed
  <2>2. failed'[c] /\ \A d \in Client : failed[d] => failed'[d]
    BY <2>1
  <2>3. \A d, k : StandsAt(d, k, completed[a], phase[a], current[a], turn[a], cut[a])
                    => StandsAt(d, k, completed'[a], phase'[a], current'[a], turn'[a], cut'[a])
    BY <2>1 DEF StandsAt
  <2>4. \A n \in DOMAIN subscribers[a] : n < turn'[a] => failed'[subscribers[a][n]]
    <3> SUFFICES ASSUME NEW n \in 1 .. Len(subscribers[a]), n < turn[a] + 1
                 PROVE  failed'[subscribers[a][n]]
      BY <2>1
    <3>1. CASE n = turn[a]
      BY <2>c, <2>2, <3>1
    <3>2. CASE n # turn[a]
      <4>1. n < turn[a] /\ n \in DOMAIN subscribers[a] /\ subscribers[a][n] \in Client
        BY <2>1, <3>2
      <4>2. QED
        BY <1>1, <2>1, <2>2, <4>1 DEF Begun
    <3>3. QED
      BY <3>1, <3>2
  <2>5. Begun(a)'
    BY <1>1, <2>1, <2>4 DEF Begun
  <2>6. QED
    BY <2>1, <2>2, <2>3, <2>5, SameSubscribers
<1>6. CASE GiveUp(a)
  <2>1. /\ UNCHANGED <<at, range, owner, sent, failed, joined, completed, current, turn, cut>>
        /\ phase[a] = "error" /\ phase'[a] = "stopped"
        /\ subscribers'[a] = <<>> /\ mailbox'[a] = <<>>
        /\ turn[a] > Len(subscribers[a]) /\ turn[a] \in Nat
        /\ \A b \in Actor \ {a} : /\ phase'[b] = phase[b] /\ mailbox'[b] = mailbox[b]
                                  /\ subscribers'[b] = subscribers[b]
        /\ subscribers[a] \in Seq(Client)
    BY <1>6 DEF GiveUp, Stop, clientVars, pieceVars, Typed
  <2>2. \A c : Subscribed(a, c) => failed[c]
    <3> SUFFICES ASSUME NEW n \in DOMAIN subscribers[a] PROVE failed[subscribers[a][n]]
      BY DEF Subscribed
    <3>1. n < turn[a]
      BY <2>1
    <3>2. QED
      BY <1>1, <2>1, <3>1 DEF Begun
  <2>3. Begun(a)'
    BY <1>1, <2>1 DEF Begun
  <2>4. ASSUME NEW c \in Client, owner[c] = a
        PROVE  ServedAlone(c)'
    <3>1. CASE joined[a] # {c}
      BY <2>1, <2>4, <3>1 DEF ServedAlone
    <3>2. CASE joined[a] = {c}
      <4>1. ServedAlone(c)
        BY DEF AlonesServed
      <4>2. ~ Lists(subscribers'[a], c)
        BY <2>1 DEF Lists
      <4>3. QED
        BY <2>1, <2>2, <2>4, <3>2, <4>1, <4>2, StillServed
    <3>3. QED
      BY <3>1, <3>2
  <2>5. QED
    BY <2>1, <2>3, <2>4, OneActor
<1>7. CASE PrefetchStored(a) \/ Hang(a)
  <2>1. UNCHANGED <<at, range, owner, sent, mailbox, subscribers, joined, failed, completed,
                    current, phase, turn, cut>>
    BY <1>7 DEF PrefetchStored, Hang, clientVars, pieceVars
  <2>2. Begun(a)'
    BY <1>1, <2>1 DEF Begun
  <2>3. QED
    BY <2>1, <2>2, SameSubscribers
<1>8. QED
  BY <1>2, <1>3, <1>4, <1>5, <1>6, <1>7, DrainAlone, SelectAlone, ForwardAlone DEF ActorStep

LEMMA AloneStep ==
  Typed /\ Held /\ Places /\ AlonesServed /\ [SessionNext]_sessionVars => AlonesServed'
<1> SUFFICES ASSUME Typed, Held, Places, AlonesServed, [SessionNext]_sessionVars
             PROVE  AlonesServed'
  OBVIOUS
<1>1. CASE UNCHANGED sessionVars
  <2>1. UNCHANGED <<at, range, owner, sent, mailbox, subscribers, joined, failed, completed,
                    current, phase, turn, cut>>
    BY <1>1 DEF sessionVars, actorVars, clientVars, pieceVars
  <2>2. \A a \in Actor : Begun(a)'
    BY <2>1 DEF AlonesServed, Begun
  <2>3. \A c \in Client : ServedAlone(c)'
    BY <2>1, Untouched DEF AlonesServed
  <2>4. QED
    BY <2>2, <2>3 DEF AlonesServed
<1>2. QED
  BY <1>1, ClientAlone, ActorAlone DEF SessionNext

-----------------------------------------------------------------------------
(* Theorems *)

THEOREM SessionInvariant == SessionSpec => []SessionInv
<1>1. SessionInit => SessionInv
  BY TypedInit, HeldInit, PlacesInit, SoundInit, AloneInit DEF SessionInv
<1>2. SessionInv /\ [SessionNext]_sessionVars => SessionInv'
  <2> SUFFICES ASSUME SessionInv, [SessionNext]_sessionVars PROVE SessionInv'
    OBVIOUS
  <2>1. Typed /\ Held /\ Places /\ Sound /\ AlonesServed
    BY DEF SessionInv
  <2>2. Typed' /\ Places' /\ Sound' /\ AlonesServed'
    BY <2>1, TypedStep, PlacesStep, SoundStep, AloneStep
  <2>3. Held'
    BY <2>1, <2>2, HeldStep
  <2>4. QED
    BY <2>2, <2>3 DEF SessionInv
<1>3. QED
  BY <1>1, <1>2, PTL DEF SessionSpec

\* The state of the sessions is of its type: an actor that never was is nowhere,
\* a channel holds Capacity messages at most, an actor has no more of a chunk than
\* there is of it, and only the actor whose handle a client got can hold its sender.
THEOREM SessionTypesCorrect == SessionSpec => []SessionTypeOK
<1>1. SessionInv => SessionTypeOK
  <2> SUFFICES ASSUME Typed, Held, Places PROVE SessionTypeOK
    BY DEF SessionInv
  <2>1. \A c \in Client : HasSender(c) => owner[c] \in Actor
    <3> SUFFICES ASSUME NEW c \in Client, NEW a \in Actor,
                        Contains(mailbox[a], c) \/ Contains(subscribers[a], c)
                 PROVE  owner[c] = a
      BY DEF HasSender
    <3>1. mailbox[a] \in Seq(Client) /\ subscribers[a] \in Seq(Client)
      BY DEF Typed
    <3>2. \/ \E n \in DOMAIN mailbox[a] : mailbox[a][n] = c
          \/ \E n \in DOMAIN subscribers[a] : subscribers[a][n] = c
      BY <3>1 DEF Contains
    <3>3. QED
      BY <3>2 DEF Places
  <2>2. QED
    BY <2>1 DEF SessionTypeOK, Typed, Held
<1>2. QED
  BY <1>1, SessionInvariant, PTL

\* However many requests share an actor, in whatever order their chunks come, and
\* however late they subscribe, no byte is sent to a client twice, nor one outside
\* the range it asked for.
THEOREM NoBytesTwice == SessionSpec => []NoByteTwice
<1>1. SessionInv => NoByteTwice
  BY DEF SessionInv, Sound
<1>2. QED
  BY <1>1, SessionInvariant, PTL

LEMMA InOrderAlone == SessionInv => AloneInOrder
<1> SUFFICES ASSUME Typed, Places, AlonesServed, NEW c \in Client, Alone(c)
             PROVE  Contiguous(c)
  BY DEF SessionInv, AloneInOrder
<1>1. CASE owner[c] = 0
  <2>1. owner[c] \notin Actor
    BY <1>1, ActorsCounted
  <2>2. at[c] \in {"idle", "create"}
    BY <2>1 DEF Places
  <2>3. sent[c] = <<>>
    BY <2>2 DEF Places
  <2>4. QED
    BY <2>3 DEF Contiguous
<1>2. CASE owner[c] # 0
  <2>1. owner[c] \in Actor
    <3>1. owner[c] \in 0 .. spawned /\ spawned \in 0 .. MaxActor
      BY DEF Typed
    <3>2. QED
      BY <1>2, <3>1, SessionAssumption DEF Actor
  <2>2. joined[owner[c]] = {} \/ joined[owner[c]] = {c}
    BY <1>2 DEF Alone
  <2>3. CASE joined[owner[c]] = {}
    <3>1. sent[c] = <<>>
      BY <2>1, <2>3 DEF AlonesServed, Begun
    <3>2. QED
      BY <3>1 DEF Contiguous
  <2>4. CASE joined[owner[c]] = {c}
    BY <2>1, <2>4 DEF AlonesServed, ServedAlone
  <2>5. QED
    BY <2>2, <2>3, <2>4
<1>3. QED
  BY <1>1, <1>2

LEMMA ToEndAlone == SessionInv => AloneToEnd
<1> SUFFICES ASSUME Typed, Places, AlonesServed, NEW c \in Client,
                    at[c] = "ended", joined[owner[c]] = {c}, ~ failed[c]
             PROVE  Gap(cut[owner[c]], NextByte(c), Hi(c) + 1)
  BY DEF SessionInv, AloneToEnd
<1>1. owner[c] \in Actor
  BY DEF Places
<1>2. ~ Subscribed(owner[c], c)
  BY <1>1 DEF Places, Subscribed
<1>3. Finished(c, cut[owner[c]])
  BY <1>1, <1>2 DEF AlonesServed, ServedAlone
<1>4. QED
  BY <1>3 DEF Finished

\* A request that has its actor for itself is sent its bytes in order, and between two
\* pieces nothing is missing but the ends of chunks that came short.  It gets whatever
\* came of them: if its subscription was taken on and its stream ended
\* without an error, nothing is missing at the end either but what short chunks lacked.
THEOREM AloneGetAll == SessionSpec => []AloneComplete
<1>1. SessionInv => AloneComplete
  BY InOrderAlone, ToEndAlone DEF AloneComplete
<1>2. QED
  BY <1>1, SessionInvariant, PTL

-----------------------------------------------------------------------------
(* A request alone with its actor is served as RangeStream promises *)

\* Whoever was told of an error has an actor that is giving up.
Told ==
  \A c \in Client :
    failed[c] => Streams(c) /\ phase[owner[c]] \in {"error", "stopped"}

LEMMA ClientTold ==
  ASSUME SessionInv, Told, NEW d \in Client, ClientStep(d) \/ Leave(d)
  PROVE  Told'
<1> SUFFICES ASSUME NEW c \in Client, failed'[c]
             PROVE  Streams(c)' /\ phase'[owner'[c]] \in {"error", "stopped"}
  BY DEF Told
<1>1. failed' = failed
  BY DEF ClientStep, Find, Create, Subscribe, Read, EndOfStream, Leave
<1>2. Streams(c) /\ phase[owner[c]] \in {"error", "stopped"}
  BY <1>1 DEF Told
<1>3. Typed
  BY DEF SessionInv
<1>4. CASE Find(d)
  <2>1. at[d] = "idle" /\ phase' = phase
    BY <1>4 DEF Find, actorVars
  <2>2. c # d
    BY <1>2, <2>1 DEF Streams
  <2>3. at'[c] = at[c] /\ owner'[c] = owner[c]
    BY <1>3, <1>4, <2>2 DEF Find, Typed
  <2>4. QED
    BY <1>2, <2>1, <2>3 DEF Streams
<1>5. CASE Create(d)
  <2> DEFINE a == spawned + 1
  <2>1. at[d] = "create" /\ phase' = [phase EXCEPT ![a] = "drain"]
    BY <1>5 DEF Create
  <2>2. c # d
    BY <1>2, <2>1 DEF Streams
  <2>3. at'[c] = at[c] /\ owner'[c] = owner[c]
    BY <1>3, <1>5, <2>2 DEF Create, Typed
  <2>4. owner[c] # a
    <3>1. owner[c] \in 0 .. spawned /\ spawned \in 0 .. MaxActor
      BY <1>3 DEF Typed
    <3>2. QED
      BY <3>1, ActorsCounted
  <2> HIDE DEF a
  <2>5. owner[c] \in Actor
    BY <1>2 DEF SessionInv, Places, Streams
  <2>6. phase'[owner[c]] = phase[owner[c]]
    BY <1>3, <2>1, <2>4, <2>5 DEF Typed
  <2>7. QED
    BY <1>2, <2>3, <2>6 DEF Streams
<1>6. CASE Subscribe(d)
  <2>1. at[d] = "subscribe" /\ phase' = phase /\ owner' = owner
    BY <1>6 DEF Subscribe
  <2>2. c # d
    BY <1>2, <2>1 DEF Streams
  <2>3. at'[c] = at[c]
    BY <1>3, <1>6, <2>2 DEF Subscribe, Typed
  <2>4. QED
    BY <1>2, <2>1, <2>3 DEF Streams
<1>7. CASE Read(d) \/ EndOfStream(d) \/ Leave(d)
  <2>1. phase' = phase /\ owner' = owner
    BY <1>7 DEF Read, EndOfStream, Leave, actorVars
  <2>2. \/ at' = at
        \/ at' = [at EXCEPT ![d] = "ended"]
        \/ at' = [at EXCEPT ![d] = "left"]
    BY <1>7 DEF Read, EndOfStream, Leave
  <2>3. Streams(c)'
    BY <1>2, <1>3, <2>2 DEF Streams, Typed
  <2>4. QED
    BY <1>2, <2>1, <2>3
<1>8. QED
  BY <1>4, <1>5, <1>6, <1>7 DEF ClientStep

LEMMA ActorTold ==
  ASSUME SessionInv, Told, NEW a \in Actor, ActorStep(a) \/ PrefetchStored(a) \/ Hang(a)
  PROVE  Told'
<1>1. Typed /\ Places
  BY DEF SessionInv
<1>2. at' = at /\ owner' = owner
  BY DEF ActorStep, PrefetchStored, Hang, Drain, Select, Arrive, Fail, Forward, Advance,
         ForwardError, GiveUp, clientVars
<1>3. CASE ForwardError(a)
  <2>1. PICK c \in Client : c = subscribers[a][turn[a]]
    BY <1>1, <1>3, Served DEF ForwardError
  <2>2. owner[c] = a /\ Streams(c) /\ phase[a] = "error" /\ phase' = phase
    <3>1. turn[a] \in DOMAIN subscribers[a]
      BY <1>1, <1>3, Served DEF ForwardError
    <3>2. QED
      BY <1>1, <1>3, <2>1, <3>1 DEF Places, ForwardError, Streams
  <2>3. \A d \in Client : failed'[d] => failed[d] \/ d = c
    BY <1>1, <1>3, <2>1 DEF ForwardError, Typed
  <2>4. QED
    BY <1>2, <2>2, <2>3 DEF Told, Streams
<1>4. CASE ~ ForwardError(a)
  <2>1. failed' = failed
    BY <1>4 DEF ActorStep, PrefetchStored, Hang, Drain, Select, Arrive, Fail, Forward, Advance,
                GiveUp, clientVars
  <2>2. \A b \in Actor : phase[b] \in {"error", "stopped"} => phase'[b] \in {"error", "stopped"}
    <3>1. \/ phase' = phase
          \/ phase[a] # "error" /\ phase[a] # "stopped" /\ \E p : phase' = [phase EXCEPT ![a] = p]
          \/ phase' = [phase EXCEPT ![a] = "stopped"]
      BY <1>4 DEF ActorStep, PrefetchStored, Hang, Drain, Select, Arrive, Fail, Forward, Advance,
                  GiveUp, Stop
    <3>2. phase \in [Actor -> {"none", "drain", "select", "download", "forward", "error", "stopped"}]
      BY <1>1 DEF Typed
    <3>3. QED
      BY <3>1, <3>2
  <2>3. \A c \in Client : Streams(c) => owner[c] \in Actor
    BY <1>1 DEF Places, Streams
  <2>4. QED
    BY <1>2, <2>1, <2>2, <2>3 DEF Told, Streams
<1>5. QED
  BY <1>3, <1>4

LEMMA ToldStep == SessionInv /\ Told /\ [SessionNext]_sessionVars => Told'
<1> SUFFICES ASSUME SessionInv, Told, [SessionNext]_sessionVars PROVE Told'
  OBVIOUS
<1>1. CASE UNCHANGED sessionVars
  BY <1>1 DEF sessionVars, managerVars, actorVars, clientVars, Told, Streams
<1>2. QED
  BY <1>1, ClientTold, ActorTold DEF SessionNext

\* Steps that do not concern c.
LEMMA StreamKept ==
  ASSUME NEW c \in Client, sent'[c] = sent[c], at'[c] = at[c], failed'[c] = failed[c],
         range'[c] = range[c], owner'[c] = owner[c],
         at[c] = "ended" => (c \in joined'[owner[c]] <=> c \in joined[owner[c]])
  PROVE  UNCHANGED Promise(c)!streamVars
<1>1. NextByte(c)' = NextByte(c) /\ UNCHANGED <<Lo(c), Hi(c), Streams(c)>>
  BY DEF NextByte, ByteAfter, Streams, Hi, Lo
<1>2. Lost(c)' <=> Lost(c)
  BY DEF Lost
<1>3. StreamStatus(c)' = StreamStatus(c)
  BY <1>1, <1>2 DEF StreamStatus
<1>4. QED
  BY <1>1, <1>3 DEF Promise!streamVars

\* Before the stream is there, nothing of it is to be seen.
LEMMA StreamUnborn ==
  ASSUME NEW c \in Client, ~ Streams(c), ~ Streams(c)'
  PROVE  UNCHANGED Promise(c)!streamVars
BY DEF StreamStatus, Promise!streamVars

\* The end of a stream, from either side, or an error.
LEMMA StreamCloses ==
  ASSUME NEW c \in Client, at[c] \in {"stream", "left"}, Streams(c)',
         sent'[c] = sent[c], range'[c] = range[c],
         at[c] = "left" => at'[c] = "left",
         failed'[c] \/ at'[c] = "left" \/ Lost(c)' \/ NextByte(c) = Hi(c) + 1
  PROVE  Promise(c)!StreamNext \/ UNCHANGED Promise(c)!streamVars
<1>1. Lo(c)' = Lo(c) /\ Hi(c)' = Hi(c) /\ NextByte(c)' = NextByte(c) /\ Streams(c)
  BY DEF NextByte, ByteAfter, Lo, Hi, Streams
<1>2. CASE NextByte(c) = Hi(c) + 1
  <2>1. StreamStatus(c) = "complete" /\ StreamStatus(c)' = "complete"
    BY <1>1, <1>2 DEF StreamStatus
  <2>2. QED
    BY <1>1, <2>1 DEF Promise!streamVars
<1>3. CASE NextByte(c) # Hi(c) + 1
  <2>1. StreamStatus(c)' = "failed"
    BY <1>1, <1>3 DEF StreamStatus
  <2>2. CASE StreamStatus(c) = "failed"
    BY <1>1, <2>1, <2>2 DEF Promise!streamVars
  <2>3. CASE StreamStatus(c) # "failed"
    <3>1. StreamStatus(c) = "open"
      BY <1>1, <1>3, <2>3 DEF StreamStatus
    <3>2. QED
      BY <1>1, <2>1, <3>1 DEF Promise!StreamNext, Promise!Close
  <2>4. QED
    BY <2>2, <2>3
<1>4. QED
  BY <1>2, <1>3

LEMMA ClientStreams ==
  ASSUME SessionInv, Told, SessionInv', NEW d \in Client, ClientStep(d) \/ Leave(d),
         NEW c \in Client, (Alone(c) /\ Whole(c))'
  PROVE  Promise(c)!StreamNext \/ UNCHANGED Promise(c)!streamVars
<1>1. /\ at \in [Client -> {"idle", "create", "subscribe", "refused", "stream", "ended", "left"}]
      /\ range \in [Client -> Ranges \cup {<<0, 0>>}]
      /\ owner \in [Client -> 0 .. spawned]
  BY DEF SessionInv, Typed
<1>2. sent' = sent /\ failed' = failed /\ joined' = joined
  BY DEF ClientStep, Find, Create, Subscribe, Read, EndOfStream, Leave
<1>3. CASE c # d
  <2>1. at'[c] = at[c] /\ range'[c] = range[c] /\ owner'[c] = owner[c]
    BY <1>1, <1>3 DEF ClientStep, Find, Create, Subscribe, Read, EndOfStream, Leave
  <2>2. QED
    BY <1>2, <2>1, StreamKept
<1>4. CASE c = d /\ (Find(d) \/ Create(d))
  <2>1. at[c] \in {"idle", "create"} /\ at'[c] \in {"create", "subscribe"}
    BY <1>1, <1>4 DEF Find, Create
  <2>2. QED
    BY <2>1, StreamUnborn DEF Streams
<1>5. CASE c = d /\ Subscribe(d)
  <2>1. at[c] = "subscribe" /\ at'[c] \in {"refused", "stream"} /\ range' = range
    BY <1>1, <1>5 DEF Subscribe
  <2>2. CASE at'[c] = "refused"
    BY <2>1, <2>2, StreamUnborn DEF Streams
  <2>3. CASE at'[c] = "stream"
    <3>1. ~ Streams(c) /\ Streams(c)' /\ sent'[c] = <<>> /\ ~ failed'[c]
      BY <1>2, <2>1, <2>3 DEF Streams, Told, SessionInv, Places
    <3>2. StreamStatus(c) = "none" /\ StreamStatus(c)' = "open" /\ NextByte(c)' = Lo(c)'
      <4>1. NextByte(c)' = Lo(c)'
        BY <3>1 DEF NextByte, ByteAfter
      <4>2. Lo(c)' # Hi(c)' + 1
        <5>1. Lo(c)' = Lo(c) /\ Hi(c)' = Hi(c)
          BY <2>1 DEF Lo, Hi
        <5>2. Lo(c) \in 0 .. Hi(c) /\ Hi(c) \in 0 .. TotalSize - 1 /\ TotalSize \in Nat
          BY RangeChunks, SessionAssumption DEF SessionInv
        <5>3. QED
          BY <5>1, <5>2
      <4>3. QED
        BY <2>3, <3>1, <4>1, <4>2 DEF StreamStatus, Lost
    <3>3. /\ Lo(c)' \in Nat /\ Hi(c)' \in Nat /\ Lo(c)' <= Hi(c)' /\ Hi(c)' <= TotalSize - 1
          /\ TotalSize \in Nat
      <4>1. Lo(c)' = Lo(c) /\ Hi(c)' = Hi(c)
        BY <2>1 DEF Lo, Hi
      <4>2. /\ Lo(c) \in Nat /\ Hi(c) \in Nat /\ Lo(c) <= Hi(c) /\ Hi(c) <= TotalSize - 1
            /\ TotalSize \in Nat
        BY RangeChunks, SessionAssumption DEF SessionInv
      <4>3. QED
        BY <4>1, <4>2
    <3>4. <<Lo(c)', Hi(c)'>> \in {g \in (0 .. TotalSize - 1) \X (0 .. TotalSize - 1) : g[1] <= g[2]}
      BY <3>3
    <3>5. QED
      BY <3>1, <3>2, <3>4 DEF Promise!StreamNext, Promise!Open, Promise!Byte
  <2>4. QED
    BY <2>1, <2>2, <2>3
<1>6. CASE c = d /\ Read(d)
  BY <1>2, <1>6, StreamKept DEF Read
<1>7. CASE c = d /\ Leave(d)
  <2>1. at[c] = "stream" /\ at'[c] = "left" /\ range' = range
    BY <1>1, <1>7 DEF Leave
  <2>2. QED
    BY <1>2, <2>1, StreamCloses DEF Streams
<1>8. CASE c = d /\ EndOfStream(d)
  <2>1. /\ at[c] = "stream" /\ at'[c] = "ended" /\ range' = range
        /\ owner' = owner /\ joined' = joined
    BY <1>1, <1>8 DEF EndOfStream
  <2>2. failed'[c] \/ Lost(c)' \/ NextByte(c) = Hi(c) + 1
    <3>1. owner[c] \in Actor /\ owner[c] # 0
      BY <2>1, ActorsCounted DEF SessionInv, Places
    <3>2. joined'[owner'[c]] \subseteq {c} /\ cut'[owner'[c]] = {}
      BY <2>1, <3>1 DEF Alone, Whole
    <3>3. CASE c \notin joined'[owner'[c]]
      BY <2>1, <3>3 DEF Lost
    <3>4. CASE joined'[owner'[c]] = {c} /\ ~ failed'[c]
      <4>1. AloneToEnd'
        BY ToEndAlone, PTL
      <4>2. Gap({}, NextByte(c), Hi(c) + 1)
        <5>1. NextByte(c)' = NextByte(c) /\ Hi(c)' = Hi(c)
          BY <1>2, <2>1 DEF NextByte, ByteAfter, Lo, Hi
        <5>2. Gap(cut[owner[c]], NextByte(c), Hi(c) + 1)'
          BY <2>1, <3>4, <4>1 DEF AloneToEnd
        <5>3. QED
          BY <3>2, <5>1, <5>2 DEF Gap
      <4>3. NextByte(c) \in Int /\ Hi(c) + 1 \in Int
        BY NextByteInt, RangeChunks DEF SessionInv
      <4>4. QED
        BY <4>2, <4>3, GapNone
    <3>5. QED
      BY <3>2, <3>3, <3>4
  <2>3. QED
    BY <1>2, <2>1, <2>2, StreamCloses DEF Streams
<1>9. QED
  BY <1>3, <1>4, <1>5, <1>6, <1>7, <1>8 DEF ClientStep

\* What the next subscriber is sent follows on what it has.
LEMMA ForwardStreams ==
  ASSUME SessionInv, Told, SessionInv', NEW a \in Actor, Forward(a),
         NEW c \in Client, (Alone(c) /\ Whole(c))'
  PROVE  Promise(c)!StreamNext \/ UNCHANGED Promise(c)!streamVars
<1>d. PICK d \in Client : d = subscribers[a][turn[a]]
  BY Served DEF Forward, SessionInv
<1>i. PICK i : i = current[a]
  OBVIOUS
<1>x. PICK x : x = Slice(d, i, data[a])
  OBVIOUS
<1>1. /\ UNCHANGED <<at, range, owner, failed, joined, cut>> /\ phase[a] = "forward"
      /\ \/ sent' = sent
         \/ /\ ~ Closed(d) /\ sent' = [sent EXCEPT ![d] = Append(sent[d], x)]
            /\ Overlaps(d, i, data[a])
  BY <1>d, <1>i, <1>x DEF Forward, pieceVars
<1>2. sent \in [Client -> Seq(Int \X Int)] /\ owner[d] = a /\ at[d] \in {"stream", "left"}
  BY <1>d, Served DEF Forward, SessionInv, Typed
<1>3. CASE sent'[c] = sent[c]
  BY <1>1, <1>3, StreamKept
<1>4. CASE sent'[c] # sent[c]
  <2>1. /\ c = d /\ ~ Closed(c) /\ Overlaps(c, i, data[a])
        /\ sent'[c] = Append(sent[c], x)
    BY <1>1, <1>2, <1>4
  <2>2. at[c] = "stream" /\ Streams(c) /\ Streams(c)'
    BY <1>1, <1>2, <2>1 DEF Closed, Streams
  <2>3. ~ failed[c] /\ ~ failed'[c]
    BY <1>1, <1>2, <2>1 DEF Told
  <2>4. owner[c] = a /\ a # 0 /\ cut[a] = {}
    BY <1>1, <1>2, <2>1, ActorsCounted DEF Whole
  <2>5. i \in Chunk /\ data[a] = Size(i) /\ Size(i) \in 0 .. Size(i)
    <3>1. i \in Chunk /\ data[a] \in 0 .. Size(i) /\ data[a] = Size(i)
      BY <1>1, <1>i, <2>4 DEF SessionInv, Typed, Held
    <3>2. QED
      BY <3>1
  <2>6. x \in Int \X Int /\ x[1] <= x[2]
    <3>1. /\ x \in Int \X Int
          /\ x = <<IF Lo(c) >= ChunkStart(i) THEN Lo(c) ELSE ChunkStart(i),
                   IF Hi(c) <= DataEnd(i, Size(i)) THEN Hi(c) ELSE DataEnd(i, Size(i))>>
      BY <1>x, <2>1, <2>5, SliceBytes DEF SessionInv
    <3>2. DataEnd(i, Size(i)) = ChunkEnd(i)
      BY <2>5, ChunkSizes
    <3>3. /\ Lo(c) \in Int /\ Hi(c) \in Int /\ Lo(c) <= Hi(c)
          /\ ChunkStart(i) \in Int /\ ChunkEnd(i) \in Int /\ ChunkStart(i) <= ChunkEnd(i)
      BY <2>5, RangeChunks, ChunkBytes, SessionAssumption DEF SessionInv
    <3>4. Lo(c) <= ChunkEnd(i) /\ ChunkStart(i) <= Hi(c)
      BY <2>1, <2>5, <3>2, <3>3 DEF Overlaps
    <3>5. QED
      BY <3>1, <3>2, <3>3, <3>4
  <2>7. Contiguous(c)'
    <3>1. AloneInOrder'
      BY InOrderAlone, PTL
    <3>2. QED
      BY <3>1 DEF AloneInOrder
  <2>8. NextByte(c)' = x[2] + 1 /\ Gap({}, NextByte(c), x[1]) /\ x[2] <= Hi(c)
    <3>1. /\ NextByte(c)' = x[2] + 1
          /\ Gap(cut[owner[c]], NextByte(c), x[1]) /\ x[2] \in x[1] - 1 .. Hi(c)
      BY <1>1, <1>2, <2>1, <2>6, <2>7, SentOneMore
    <3>2. Hi(c) \in Int
      BY RangeChunks DEF SessionInv
    <3>3. QED
      BY <2>4, <2>6, <3>1, <3>2
  <2>9. x[1] = NextByte(c) /\ NextByte(c) \in Int /\ Hi(c) \in Int
    <3>1. NextByte(c) \in Int /\ Hi(c) \in Int
      BY NextByteInt, RangeChunks DEF SessionInv
    <3>2. QED
      BY <2>6, <2>8, <3>1, GapNone
  <2>10. Lo(c)' = Lo(c) /\ Hi(c)' = Hi(c)
    BY <1>1 DEF Lo, Hi
  <2>11. StreamStatus(c) = "open"
    <3>1. NextByte(c) # Hi(c) + 1
      BY <2>6, <2>8, <2>9
    <3>2. QED
      BY <2>2, <2>3, <3>1 DEF StreamStatus, Lost
  <2>12. StreamStatus(c)' = IF NextByte(c)' = Hi(c) + 1 THEN "complete" ELSE "open"
    BY <1>1, <2>2, <2>3, <2>10 DEF StreamStatus, Lost
  <2>13. NextByte(c)' \in NextByte(c) + 1 .. Hi(c) + 1
    BY <2>6, <2>8, <2>9
  <2>14. Promise(c)!Deliver
    BY <2>2, <2>10, <2>11, <2>12, <2>13 DEF Promise!Deliver
  <2>15. QED
    BY <2>14 DEF Promise!StreamNext
<1>5. QED
  BY <1>3, <1>4

LEMMA ActorStreams ==
  ASSUME SessionInv, Told, SessionInv', NEW a \in Actor,
         ActorStep(a) \/ PrefetchStored(a) \/ Hang(a),
         NEW c \in Client, (Alone(c) /\ Whole(c))'
  PROVE  Promise(c)!StreamNext \/ UNCHANGED Promise(c)!streamVars
<1>1. CASE Forward(a)
  BY <1>1, ForwardStreams
<1>2. CASE ForwardError(a)
  <2>d. PICK d \in Client : d = subscribers[a][turn[a]]
    BY <1>2, Served DEF ForwardError, SessionInv
  <2>1. /\ UNCHANGED <<at, range, sent, owner, joined>> /\ failed' = [failed EXCEPT ![d] = TRUE]
        /\ failed \in [Client -> BOOLEAN]
    BY <1>2, <2>d DEF ForwardError, SessionInv, Typed
  <2>2. at[d] \in {"stream", "left"}
    BY <1>2, <2>d, Served DEF ForwardError, SessionInv
  <2>3. CASE c = d
    <3>1. failed'[c] /\ at[c] \in {"stream", "left"} /\ Streams(c)'
      BY <2>1, <2>2, <2>3 DEF Streams
    <3>2. QED
      BY <2>1, <3>1, StreamCloses
  <2>4. CASE c # d
    <3>1. failed'[c] = failed[c]
      BY <2>1, <2>4
    <3>2. QED
      BY <2>1, <3>1, StreamKept
  <2>5. QED
    BY <2>3, <2>4
<1>3. CASE ~ Forward(a) /\ ~ ForwardError(a)
  <2>1. UNCHANGED <<at, range, sent, failed, owner>>
    BY <1>3 DEF ActorStep, PrefetchStored, Hang, Drain, Select, Arrive, Fail, Advance, GiveUp,
                clientVars
  <2>2. at[c] = "ended" => (c \in joined'[owner[c]] <=> c \in joined[owner[c]])
    <3>1. CASE Drain(a)
      <4>1. joined' = [joined EXCEPT ![a] = @ \cup Range(mailbox[a])]
        BY <3>1 DEF Drain
      <4>2. at[c] = "ended" => c \notin Range(mailbox[a])
        BY DEF SessionInv, Places, Range
      <4>3. joined \in [Actor -> SUBSET Client]
        BY DEF SessionInv, Typed
      <4>4. at[c] = "ended" => owner[c] \in Actor
        BY DEF SessionInv, Places
      <4>5. QED
        BY <4>1, <4>2, <4>3, <4>4
    <3>2. CASE ~ Drain(a)
      <4>1. joined' = joined
        BY <1>3, <3>2 DEF ActorStep, PrefetchStored, Hang, Select, Arrive, Fail, Advance, GiveUp
      <4>2. QED
        BY <4>1
    <3>3. QED
      BY <3>1, <3>2
  <2>3. QED
    BY <2>1, <2>2, StreamKept
<1>4. QED
  BY <1>1, <1>2, <1>3

LEMMA StreamsStep ==
  ASSUME SessionInv, Told, SessionInv', [SessionNext]_sessionVars,
         NEW c \in Client, (Alone(c) /\ Whole(c))'
  PROVE  Promise(c)!StreamNext \/ UNCHANGED Promise(c)!streamVars
<1>1. CASE UNCHANGED sessionVars
  BY <1>1, StreamKept DEF sessionVars, clientVars
<1>2. QED
  BY <1>1, ClientStreams, ActorStreams DEF SessionNext

LEMMA AllTold == SessionSpec => []Told
<1>1. SessionInit => Told
  BY DEF SessionInit, Told
<1>2. QED
  BY <1>1, ToldStep, SessionInvariant, PTL DEF SessionSpec

\* Step by step, a client that has its actor for itself, to which no chunk came short,
\* is served as RangeStream promises: no byte left out, none after an error or the end.
THEOREM AloneAreServed == SessionSpec => AloneStreams
<1>1. SessionInv /\ SessionInv' /\ Told /\ [SessionNext]_sessionVars =>
        [\A c \in Client : (Alone(c) /\ Whole(c))' =>
           Promise(c)!StreamNext \/ UNCHANGED Promise(c)!streamVars]_sessionVars
  BY StreamsStep
<1>2. QED
  BY <1>1, SessionInvariant, AllTold, PTL DEF SessionSpec, AloneStreams

\* The download of such a client, whatever others do with other actors and however
\* short the chunks that come to those, implements RangeStream.
THEOREM AloneIsRangeStream ==
  ASSUME NEW c \in Client
  PROVE  SessionSpec /\ []Alone(c) /\ []Whole(c) => Promise(c)!StreamSpec
<1>1. SessionInit => Promise(c)!StreamInit
  BY DEF SessionInit, Promise!StreamInit, StreamStatus, Streams
<1>2. SessionInv /\ SessionInv' /\ Told /\ [SessionNext]_sessionVars /\ Alone(c)' /\ Whole(c)' =>
        [Promise(c)!StreamNext]_(Promise(c)!streamVars)
  BY StreamsStep
<1>3. QED
  BY <1>1, <1>2, SessionInvariant, AllTold, PTL DEF SessionSpec, Promise!StreamSpec
=============================================================================
