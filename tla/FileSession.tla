---------------------------- MODULE FileSession ----------------------------
(***************************************************************************)
(* The download sessions of one file (src/session.rs): FileSessionManager  *)
(* hands every request the handle of the file's FileSessionActor, which    *)
(* downloads one chunk at a time, the most urgent one, and forwards to     *)
(* each subscriber the part of it in the subscriber's byte range.          *)
(*                                                                         *)
(* An actor runs alone between its awaits: the chunk it waits for and the  *)
(* room in a subscriber's channel.  Clients, the mailbox and the prefetches*)
(* move at any time.  Of SessionTable it sees how a download turns out: the *)
(* chunk comes whole or cut short, fails, or is never heard of again.      *)
(***************************************************************************)
EXTENDS Integers, Sequences, FiniteSets, SequencesExt, FiniteSetsExt

CONSTANTS
  Client,       \* requests for the file, one stream each
  Ranges,       \* the byte ranges <<first, last>> they may ask for
  ChunkSize,    \* CHUNK_SIZE
  TotalSize,    \* total_size of the row
  BudgetBase,   \* prefetch_budget_base
  Capacity,     \* slots of a subscriber's channel (32)
  MaxActor      \* bound on the actors spawned

ASSUME SessionAssumption ==
  /\ ChunkSize \in Nat \ {0} /\ TotalSize \in Nat \ {0}
  /\ BudgetBase \in Nat /\ Capacity \in Nat \ {0} /\ MaxActor \in Nat
  /\ \A g \in Ranges : g[1] \in Nat /\ g[2] \in g[1] .. TotalSize - 1

ChunkCount == (TotalSize + ChunkSize - 1) \div ChunkSize
Chunk == 0 .. ChunkCount - 1
Actor == 1 .. MaxActor

VARIABLES
  \* FileSessionManager
  entry,        \* the actor in the map, 0 for none
  spawned,      \* how many actors there have been
  \* SessionTable
  stuck,        \* the chunks in its map whose download never ends
  \* each FileSessionActor
  phase,        \* where it is
  mailbox,      \* the clients whose Subscribe it has not drained
  subscribers,  \* the clients it serves, in order
  completed,    \* the chunks it has forwarded
  prefetching,  \* prefetch_inflight
  cached,       \* the chunk indices in cached_chunks
  current,      \* the chunk it is downloading
  data,         \* data.len() of the chunk it is forwarding, 0 at other times
  turn,         \* the subscriber whose channel is next in forward_chunk
  \* each client
  at,           \* where its request is
  range,        \* the bytes it asked for
  owner,        \* the actor whose handle it got
  unread,       \* messages in its channel
  sent,         \* history: the byte ranges sent to it
  failed,       \* history: an error was sent to it
  joined,       \* history: the clients an actor has taken on
  cut           \* history: the chunks that came to an actor short

managerVars == <<entry, spawned, stuck>>
pieceVars == <<data, cut>>
actorVars == <<phase, mailbox, subscribers, completed, prefetching, cached, current, turn, pieceVars>>
clientVars == <<at, range, owner, unread, sent, failed>>
sessionVars == <<managerVars, actorVars, clientVars, joined>>

SessionInit ==
  /\ entry = 0 /\ spawned = 0 /\ stuck = {}
  /\ phase = [a \in Actor |-> "none"]
  /\ mailbox = [a \in Actor |-> <<>>]
  /\ subscribers = [a \in Actor |-> <<>>]
  /\ completed = [a \in Actor |-> {}]
  /\ prefetching = [a \in Actor |-> {}]
  /\ cached = [a \in Actor |-> {}]
  /\ current = [a \in Actor |-> 0]
  /\ turn = [a \in Actor |-> 1]
  /\ data = [a \in Actor |-> 0]
  /\ cut = [a \in Actor |-> {}]
  /\ at = [c \in Client |-> "idle"]
  /\ range = [c \in Client |-> <<0, 0>>]
  /\ owner = [c \in Client |-> 0]
  /\ unread = [c \in Client |-> 0]
  /\ sent = [c \in Client |-> <<>>]
  /\ failed = [c \in Client |-> FALSE]
  /\ joined = [a \in Actor |-> {}]

Lo(c) == range[c][1]
Hi(c) == range[c][2]
FirstChunk(c) == Lo(c) \div ChunkSize
LastChunk(c) == Hi(c) \div ChunkSize
ChunkStart(i) == i * ChunkSize
ChunkEnd(i) == Min({ChunkStart(i) + ChunkSize, TotalSize}) - 1
Size(i) == ChunkEnd(i) - ChunkStart(i) + 1

\* The receiver is gone (tx.is_closed()).
Closed(c) == at[c] = "left"

\* Somebody still holds the sender of c's channel.
HasSender(c) ==
  \E a \in Actor : Contains(mailbox[a], c) \/ Contains(subscribers[a], c)

-----------------------------------------------------------------------------
(* Requests *)

\* get_or_create: the fast path finds an actor whose mailbox is open.
Find(c) ==
  /\ at[c] = "idle"
  /\ \E g \in Ranges : range' = [range EXCEPT ![c] = g]
  /\ IF entry # 0 /\ phase[entry] # "stopped"
     THEN /\ at' = [at EXCEPT ![c] = "subscribe"]
          /\ owner' = [owner EXCEPT ![c] = entry]
     ELSE /\ at' = [at EXCEPT ![c] = "create"]
          /\ UNCHANGED owner
  /\ UNCHANGED <<managerVars, actorVars, unread, sent, failed, joined>>

\* It found none and spawns one, which replaces whatever the map holds by now.
\* cached_chunks is what the database listed, which may lag behind.
Create(c) ==
  LET a == spawned + 1 IN
  /\ at[c] = "create"
  /\ a \in Actor
  /\ entry' = a /\ spawned' = a
  /\ phase' = [phase EXCEPT ![a] = "drain"]
  /\ \E S \in {{}, UNION {cached[b] : b \in Actor}} : cached' = [cached EXCEPT ![a] = S]
  /\ at' = [at EXCEPT ![c] = "subscribe"]
  /\ owner' = [owner EXCEPT ![c] = a]
  /\ UNCHANGED <<stuck, mailbox, subscribers, completed, prefetching, current, turn,
                 pieceVars, range, unread, sent, failed, joined>>

\* ActorHandle::subscribe: the mailbox takes the message unless the actor is gone.
Subscribe(c) ==
  LET a == owner[c] IN
  /\ at[c] = "subscribe"
  /\ IF phase[a] = "stopped"
     THEN /\ at' = [at EXCEPT ![c] = "refused"]
          /\ UNCHANGED mailbox
     ELSE /\ at' = [at EXCEPT ![c] = "stream"]
          /\ mailbox' = [mailbox EXCEPT ![a] = Append(@, c)]
  /\ UNCHANGED <<managerVars, phase, subscribers, completed, prefetching, cached,
                 current, turn, pieceVars, range, owner, unread, sent, failed, joined>>

Read(c) ==
  /\ at[c] = "stream" /\ unread[c] > 0
  /\ unread' = [unread EXCEPT ![c] = @ - 1]
  /\ UNCHANGED <<managerVars, actorVars, at, range, owner, sent, failed, joined>>

\* The stream ends once it is empty and no sender is left.
EndOfStream(c) ==
  /\ at[c] = "stream" /\ unread[c] = 0 /\ ~ HasSender(c)
  /\ at' = [at EXCEPT ![c] = "ended"]
  /\ UNCHANGED <<managerVars, actorVars, range, owner, unread, sent, failed, joined>>

\* The client hangs up.
Leave(c) ==
  /\ at[c] = "stream"
  /\ at' = [at EXCEPT ![c] = "left"]
  /\ unread' = [unread EXCEPT ![c] = 0]
  /\ UNCHANGED <<managerVars, actorVars, range, owner, sent, failed, joined>>

-----------------------------------------------------------------------------
(* The actor: FileSessionActor::run *)

\* The try_recv loop.
Drain(a) ==
  /\ phase[a] = "drain"
  /\ phase' = [phase EXCEPT ![a] = "select"]
  /\ subscribers' = [subscribers EXCEPT ![a] = @ \o mailbox[a]]
  /\ mailbox' = [mailbox EXCEPT ![a] = <<>>]
  /\ joined' = [joined EXCEPT ![a] = @ \cup Range(mailbox[a])]
  /\ UNCHANGED <<managerVars, clientVars, completed, prefetching, cached, current, turn,
                 pieceVars>>

\* The chunks the subscribers in s still need, as pairs (position in s, chunk).
Candidates(a, s) ==
  {p \in (DOMAIN s) \X Chunk :
     p[2] \in (FirstChunk(s[p[1]]) .. LastChunk(s[p[1]])) \ completed[a]}

\* urgency = distance / range_len, kept as the two integers.
Distance(s, p) == Max({ChunkStart(p[2]) - Lo(s[p[1]]), 0})
RangeLen(s, p) == Max({Hi(s[p[1]]) - Lo(s[p[1]]), 1})
MoreUrgent(s, p, q) == Distance(s, p) * RangeLen(s, q) < Distance(s, q) * RangeLen(s, p)

\* Earlier in the two nested loops.
Before(p, q) == p[1] < q[1] \/ (p[1] = q[1] /\ p[2] < q[2])

\* Mutant: the last chunk still needed.
SelectFurthest(a, s) ==
  {p[2] : p \in {p \in Candidates(a, s) : \A q \in Candidates(a, s) : q[2] <= p[2]}}

\* select_next_chunk: the first of the most urgent, {} when there is nothing to do.
SelectNext(a, s) ==
  {p[2] : p \in {p \in Candidates(a, s) :
     \A q \in Candidates(a, s) \ {p} :
       MoreUrgent(s, p, q) \/ (~ MoreUrgent(s, q, p) /\ Before(p, q))}}

\* run returns: the subscribers' senders and the mailbox are dropped.
Stop(a) ==
  /\ phase' = [phase EXCEPT ![a] = "stopped"]
  /\ subscribers' = [subscribers EXCEPT ![a] = <<>>]
  /\ mailbox' = [mailbox EXCEPT ![a] = <<>>]

\* clean_subscribers: retain those that are there (SelectSeq, which the provers do
\* not expand).
Retain(s) ==
  LET kept[n \in 0 .. Len(s)] ==
        IF n = 0 THEN <<>>
        ELSE IF Closed(s[n]) THEN kept[n - 1] ELSE Append(kept[n - 1], s[n])
  IN  kept[Len(s)]

\* clean_subscribers, cleanup_prefetches, then the next chunk.  Without one, with
\* or without subscribers, the actor stops, even if a message has come in since
\* the drain.
Select(a) ==
  LET s == Retain(subscribers[a])
      waiting == (prefetching[a] \ completed[a]) \ cached[a] IN
  /\ phase[a] = "select"
  /\ \/ /\ SelectNext(a, s) = {}
        /\ Stop(a)
        /\ prefetching' = [prefetching EXCEPT ![a] = {}]
        /\ UNCHANGED current
     \/ \E i \in SelectNext(a, s) :
          /\ phase' = [phase EXCEPT ![a] = "download"]
          /\ subscribers' = [subscribers EXCEPT ![a] = s]
          /\ current' = [current EXCEPT ![a] = i]
          /\ prefetching' = [prefetching EXCEPT ![a] = waiting \ {i}]
          /\ UNCHANGED mailbox
  /\ UNCHANGED <<managerVars, clientVars, completed, cached, turn, pieceVars, joined>>

\* fetch_chunk: how many bytes of chunk i may come.  An upstream that ignores Range
\* answers 200 with its whole file; when that is longer than the chunk, what is there
\* of the chunk counts as the chunk, be it nothing.
Pieces(i) == {n \in 0 .. Size(i) : n = Size(i) \/ ChunkStart(i) + n > Size(i)}

\* The chunk arrives, from the cache or from upstream, and is in cached_chunks.
\* (A download that another actor of the file started is only in that one's,
\* which costs this one a prefetch of a stored chunk at most.)
Arrive(a) ==
  /\ phase[a] = "download"
  /\ current[a] \in cached[a] \/ current[a] \notin stuck
  /\ \E n \in Pieces(current[a]) :
       /\ data' = [data EXCEPT ![a] = n]
       /\ cut' = IF n = Size(current[a]) THEN cut
                 ELSE [cut EXCEPT ![a] = @ \cup {current[a]}]
  /\ phase' = [phase EXCEPT ![a] = "forward"]
  /\ turn' = [turn EXCEPT ![a] = 1]
  /\ cached' = [cached EXCEPT ![a] = @ \cup {current[a]}]
  /\ UNCHANGED <<managerVars, clientVars, mailbox, subscribers, completed,
                 prefetching, current, joined>>

\* The download failed, or the chunk's session closed without an answer.  A
\* cached chunk that could not be read has left cached_chunks.
Fail(a) ==
  /\ phase[a] = "download" /\ current[a] \notin stuck
  /\ phase' = [phase EXCEPT ![a] = "error"]
  /\ turn' = [turn EXCEPT ![a] = 1]
  /\ cached' = [cached EXCEPT ![a] = @ \ {current[a]}]
  /\ UNCHANGED <<managerVars, clientVars, mailbox, subscribers, completed,
                 prefetching, current, pieceVars, joined>>

\* A download the actor waits for, or one of its prefetches, will never end: the 200
\* answer stops before the chunk begins, fetch_chunk panics and leaves the chunk's
\* entry, with a sender in it, in SessionTable's map for whoever comes next; or a body
\* stalls, for which there is no timeout.  A cached chunk that cannot be read has left
\* cached_chunks by then.
Hang(a) ==
  /\ \E i \in (prefetching[a] \ cached[a])
               \cup (IF phase[a] = "download" THEN {current[a]} ELSE {}) :
       /\ stuck' = stuck \cup {i}
       /\ cached' = [cached EXCEPT ![a] = @ \ {i}]
  /\ UNCHANGED <<entry, spawned, clientVars, phase, mailbox, subscribers, completed,
                 prefetching, current, turn, pieceVars, joined>>

\* The last byte there is of chunk i when n bytes of it came (chunk_end).
DataEnd(i, n) == ChunkStart(i) + n - 1

\* The part of them that c asked for, which is empty when no byte came.
Slice(c, i, n) ==
  <<Max({Lo(c), ChunkStart(i)}), Min({Hi(c), DataEnd(i, n)})>>

\* Mutant: a range that ends on the first byte of a chunk.
OverlapsWell(c, i, n) == ~ (DataEnd(i, n) < Lo(c) \/ ChunkStart(i) >= Hi(c))

Overlaps(c, i, n) == ~ (DataEnd(i, n) < Lo(c) \/ ChunkStart(i) > Hi(c))

\* Mutant: try_send, its error ignored.
NoWait(c) == TRUE

\* What a send waits for.
HasRoom(c) == unread[c] < Capacity

\* forward_chunk, one subscriber: its send waits for room in the channel; a
\* client that left makes it fail at once, which is ignored.
Forward(a) ==
  LET c == subscribers[a][turn[a]]
      i == current[a]
      sends == Overlaps(c, i, data[a]) /\ ~ Closed(c) IN
  /\ phase[a] = "forward" /\ turn[a] <= Len(subscribers[a])
  /\ sends => HasRoom(c)
  /\ turn' = [turn EXCEPT ![a] = @ + 1]
  /\ sent' = IF sends THEN [sent EXCEPT ![c] = Append(@, Slice(c, i, data[a]))] ELSE sent
  /\ unread' = IF sends THEN [unread EXCEPT ![c] = @ + 1] ELSE unread
  /\ UNCHANGED <<managerVars, phase, mailbox, subscribers, completed, prefetching,
                 cached, current, pieceVars, at, range, owner, failed, joined>>

\* compute_active_cursors, with the chunks in `done` counted as forwarded.
Cursors(a, done) ==
  UNION {LET missing == (FirstChunk(c) .. LastChunk(c)) \ (done \cup prefetching[a])
         IN  IF missing = {} THEN {} ELSE {Min(missing)}
         : c \in Range(subscribers[a])}

\* prefetch_budget, shared between the cursors.
PerCursor(n) ==
  Max({(CASE n \in {0, 1} -> BudgetBase
          [] n = 2        -> Max({BudgetBase \div 2, 1})
          [] OTHER        -> Max({BudgetBase \div 4, 1})) \div Max({n, 1}), 1})

\* schedule_prefetches
Prefetched(a, done) ==
  LET cursors == Cursors(a, done) IN
  {j \in Chunk : j \notin done \cup cached[a]
     /\ \E k \in cursors : j \in k + 1 .. k + PerCursor(Cardinality(cursors))}

\* Mutant: the chunk is not recorded, and comes again.
NothingDone(a) == completed[a]

\* completed.insert(idx)
Done(a) == completed[a] \cup {current[a]}

\* Every subscriber has its part; prefetch ahead and go round.
Advance(a) ==
  /\ phase[a] = "forward" /\ turn[a] > Len(subscribers[a])
  /\ phase' = [phase EXCEPT ![a] = "drain"]
  /\ completed' = [completed EXCEPT ![a] = Done(a)]
  /\ prefetching' = [prefetching EXCEPT ![a] = @ \cup Prefetched(a, Done(a))]
  /\ data' = [data EXCEPT ![a] = 0]
  /\ UNCHANGED <<managerVars, clientVars, mailbox, subscribers, cached, current, turn,
                 cut, joined>>

\* forward_error, one subscriber.
ForwardError(a) ==
  LET c == subscribers[a][turn[a]] IN
  /\ phase[a] = "error" /\ turn[a] <= Len(subscribers[a])
  /\ ~ Closed(c) => HasRoom(c)
  /\ turn' = [turn EXCEPT ![a] = @ + 1]
  /\ failed' = [failed EXCEPT ![c] = TRUE]
  /\ unread' = IF Closed(c) THEN unread ELSE [unread EXCEPT ![c] = @ + 1]
  /\ UNCHANGED <<managerVars, phase, mailbox, subscribers, completed, prefetching,
                 cached, current, pieceVars, at, range, owner, sent, joined>>

\* Mutant: it goes on with the chunks that are left.
GoOn(a) ==
  /\ phase[a] = "error" /\ turn[a] > Len(subscribers[a])
  /\ phase' = [phase EXCEPT ![a] = "drain"]
  /\ UNCHANGED <<managerVars, clientVars, mailbox, subscribers, prefetching,
                 completed, cached, current, turn, pieceVars, joined>>

\* Everyone was told; the actor gives up.
GiveUp(a) ==
  /\ phase[a] = "error" /\ turn[a] > Len(subscribers[a])
  /\ Stop(a)
  /\ prefetching' = [prefetching EXCEPT ![a] = {}]
  /\ UNCHANGED <<managerVars, clientVars, completed, cached, current, turn, pieceVars,
                 joined>>

\* A prefetched chunk is stored.  One that fails stays in prefetch_inflight.
PrefetchStored(a) ==
  /\ \E i \in prefetching[a] \ (cached[a] \cup stuck) :
       cached' = [cached EXCEPT ![a] = @ \cup {i}]
  /\ UNCHANGED <<managerVars, clientVars, phase, mailbox, subscribers, completed,
                 prefetching, current, turn, pieceVars, joined>>

ActorStep(a) ==
  \/ Drain(a) \/ Select(a) \/ Arrive(a) \/ Fail(a) \/ Forward(a) \/ Advance(a)
  \/ ForwardError(a) \/ GiveUp(a)

ClientStep(c) == Find(c) \/ Create(c) \/ Subscribe(c) \/ Read(c) \/ EndOfStream(c)

SessionNext ==
  \/ \E a \in Actor : ActorStep(a) \/ PrefetchStored(a) \/ Hang(a)
  \/ \E c \in Client : ClientStep(c) \/ Leave(c)

SessionSpec == SessionInit /\ [][SessionNext]_sessionVars

\* Tasks are polled, clients read what has come or hang up, and a download that is
\* not stuck ends: its attempts are bounded.  Nothing unsticks one that is: the stream
\* client has a connect timeout and no other.
SessionFairness ==
  /\ \A a \in Actor : WF_sessionVars(ActorStep(a))
  /\ \A c \in Client : WF_sessionVars(Subscribe(c) \/ Read(c) \/ EndOfStream(c))

FairSessionSpec == SessionSpec /\ SessionFairness
-----------------------------------------------------------------------------
(* Properties *)

SessionTypeOK ==
  /\ entry \in 0 .. spawned /\ spawned \in 0 .. MaxActor /\ stuck \subseteq Chunk
  /\ phase \in [Actor -> {"none", "drain", "select", "download", "forward", "error", "stopped"}]
  /\ \A a \in Actor : phase[a] = "none" <=> a > spawned
  /\ mailbox \in [Actor -> Seq(Client)]
  /\ subscribers \in [Actor -> Seq(Client)]
  /\ completed \in [Actor -> SUBSET Chunk]
  /\ prefetching \in [Actor -> SUBSET Chunk]
  /\ cached \in [Actor -> SUBSET Chunk]
  /\ current \in [Actor -> Chunk]
  /\ turn \in [Actor -> Nat]
  /\ \A a \in Actor : data[a] \in 0 .. Size(current[a])
  /\ at \in [Client -> {"idle", "create", "subscribe", "refused", "stream", "ended", "left"}]
  /\ \A c \in Client : unread[c] \in 0 .. Capacity
  /\ \A c \in Client : HasSender(c) => owner[c] \in Actor

\* From byte x there is nothing up to y but what chunks of S should have held.
Gap(S, x, y) ==
  x <= y /\ \A b \in x .. y - 1 : \E i \in S : b \in ChunkStart(i) .. ChunkEnd(i)

\* The first byte c has not been sent, after n pieces.
ByteAfter(c, n) == IF n = 0 THEN Lo(c) ELSE sent[c][n][2] + 1
NextByte(c) == ByteAfter(c, Len(sent[c]))

\* The byte ranges sent to c, in the order they were sent, join up from the first
\* byte it asked for, but for the missing ends of chunks that came short.
Contiguous(c) ==
  \A n \in DOMAIN sent[c] :
    /\ Gap(cut[owner[c]], ByteAfter(c, n - 1), sent[c][n][1])
    /\ sent[c][n][2] \in sent[c][n][1] - 1 .. Hi(c)

\* A client gets the bytes of its range in order.  The code breaks this for two
\* clients of one actor: a chunk is forwarded once, to whoever subscribed by then,
\* in the order that suits the most urgent of them.
InOrder == \A c \in Client : Contiguous(c)

\* No other client's subscription has been taken on by the actor of c.
Alone(c) == owner[c] # 0 => joined[owner[c]] \subseteq {c}

\* A client that has its actor for itself gets them in order.
AloneInOrder == \A c \in Client : Alone(c) => Contiguous(c)

\* And to the end: once its subscription is taken on, its stream ends early only
\* after an error, or for want of what short chunks should have held.
AloneToEnd ==
  \A c \in Client :
    at[c] = "ended" /\ joined[owner[c]] = {c} /\ ~ failed[c]
      => Gap(cut[owner[c]], NextByte(c), Hi(c) + 1)

\* A client that has its actor for itself gets all the bytes of its range that came, in
\* order, unless it is told of an error.
AloneComplete == AloneInOrder /\ AloneToEnd

\* What RangeStream sees of the stream of c.  One whose subscription was lost, because
\* the actor stopped before it took it on, counts as failed, though the client is not
\* told.  One that ends before its range does, untold, has no counterpart.
Streams(c) == at[c] \in {"stream", "ended", "left"}

Lost(c) == at[c] = "ended" /\ c \notin joined[owner[c]]

StreamStatus(c) ==
  IF ~ Streams(c) THEN "none"
  ELSE IF NextByte(c) = Hi(c) + 1 THEN "complete"
  ELSE IF failed[c] \/ at[c] = "left" \/ Lost(c) THEN "failed"
  ELSE IF at[c] = "ended" THEN "torn" ELSE "open"

Promise(c) == INSTANCE RangeStream WITH
  status <- StreamStatus(c),
  range  <- IF Streams(c) THEN <<Lo(c), Hi(c)>> ELSE <<0, 0>>,
  next   <- IF Streams(c) THEN NextByte(c) ELSE 0

\* No chunk has come to the actor of c short.
Whole(c) == owner[c] # 0 => cut[owner[c]] = {}

\* A client that has its actor for itself is served as RangeStream promises, as long
\* as no chunk comes short: its range in order and whole, or a part of it and an error,
\* and nothing after that.
AloneStreams ==
  [][\A c \in Client :
       (Alone(c) /\ Whole(c))' =>
         Promise(c)!StreamNext \/ UNCHANGED Promise(c)!streamVars]_sessionVars

\* However many clients share an actor and however late they come, no byte is
\* sent to a client twice, nor one it did not ask for.
NoByteTwice ==
  \A c \in Client : \A m, n \in DOMAIN sent[c] :
    /\ Lo(c) <= sent[c][m][1] /\ sent[c][m][2] <= Hi(c)
    /\ m # n => sent[c][m][2] < sent[c][n][1] \/ sent[c][n][2] < sent[c][m][1]

\* The actor of c waits for a chunk that never comes.
HeldUp(c) ==
  LET a == owner[c] IN phase[a] = "download" /\ current[a] \in stuck \ cached[a]

\* An accepted stream comes to an end, the actor drops its sender or the client hangs
\* up, unless its actor is held up by a stuck chunk.
StreamsEnd == \A c \in Client : at[c] = "stream" ~> at[c] # "stream" \/ HeldUp(c)
=============================================================================
