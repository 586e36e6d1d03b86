----------------------- MODULE ChunkLifecycle_proofs -----------------------
(***************************************************************************)
(* A linked chunk has its blob, for any number of downloads, collectors,   *)
(* files and hashes, unless a batch of GC overtook it.                     *)
(***************************************************************************)
EXTENDS ChunkLifecycle, MetadataStore_proofs, SequenceTheorems

\* A chunk that some file has, or is about to have.
Wanted(s) == s \in OnTheirWay \/ Linked(s)

\* What is on its way has its blob too: otherwise its link would come without.
WantedKept == \A s \in Sha : Wanted(s) => s \in blobs \cup overtaken

\* A batch threatens only chunks it has overtaken; the others it lists have no
\* future but a new download.
DoomedOvertaken == \A s \in Doomed : Wanted(s) => s \in overtaken

\* The types of what MetadataStore does not have, without the history.
LifeTypes ==
  /\ blobs \subseteq Sha
  /\ events \in Seq(Event) /\ Len(events) <= MaxEvents
  /\ writer \in [Writer -> {Idle} \cup [at : {"put", "record"}, event : Event]]
  /\ worker \in [Worker -> Collector]

LifeInv ==
  /\ IInv
  /\ LifeTypes
  /\ overtaken \subseteq Sha
  /\ WantedKept
  /\ DoomedOvertaken

-----------------------------------------------------------------------------
(* What every step respects, and why it is enough *)

\* A chunk comes to be wanted with its blob there; only doomed blobs are deleted; a
\* batch lists what no slot holds; a link is made of a chunk on its way; and a blob
\* is stored by a download that goes on to record it.
Careful ==
  \A s \in Sha :
    /\ Wanted(s)' => Wanted(s) \/ s \in blobs'
    /\ s \in blobs \ blobs' => s \in Doomed
    /\ s \in Doomed' => s \in Doomed \/ ~ Linked(s)'
    /\ Linked(s)' => Wanted(s)
    /\ s \in blobs' \ blobs => s \in OnTheirWay'

OvertakenNext ==
  overtaken' = {s \in Sha :
     /\ s \in OnTheirWay' \/ Linked(s)'
     /\ s \in Doomed' \cap OnTheirWay' \/ s \in overtaken \ (blobs' \ blobs)}

LEMMA CarefulKeeps ==
  ASSUME WantedKept, DoomedOvertaken, Careful, OvertakenNext, Doomed' \subseteq Sha
  PROVE  WantedKept' /\ DoomedOvertaken'
<1>1. WantedKept'
  <2> SUFFICES ASSUME NEW s \in Sha, Wanted(s)', s \notin blobs'
               PROVE  s \in overtaken'
    BY DEF WantedKept
  <2>1. Wanted(s) /\ s \in overtaken
    BY DEF Careful, WantedKept, DoomedOvertaken
  <2>2. QED
    BY <2>1 DEF OvertakenNext, Wanted
<1>2. DoomedOvertaken'
  <2> SUFFICES ASSUME NEW s \in Sha, s \in Doomed', Wanted(s)'
               PROVE  s \in overtaken'
    BY DEF DoomedOvertaken
  <2>1. CASE s \in OnTheirWay'
    BY <2>1 DEF OvertakenNext
  <2>2. CASE s \notin OnTheirWay'
    <3>1. Linked(s)'
      BY <2>2 DEF Wanted
    <3>2. s \in overtaken /\ s \notin blobs' \ blobs
      BY <2>2, <3>1 DEF Careful, DoomedOvertaken
    <3>3. QED
      BY <3>1, <3>2 DEF OvertakenNext
  <2>3. QED
    BY <2>1, <2>2
<1>3. QED
  BY <1>1, <1>2

-----------------------------------------------------------------------------
(* Each step keeps the types and is careful *)

StepOK == IInv' /\ LifeTypes' /\ Careful

LEMMA SameTables ==
  ASSUME IInv, UNCHANGED metaVars
  PROVE  IInv' /\ \A s : Linked(s)' <=> Linked(s)
<1>1. IInv'
  BY StutterInv DEF IInv
<1>2. QED
  BY <1>1 DEF metaVars, Linked

\* A step that deletes no blob, lists nothing, and adds neither links nor chunks on
\* their way.
LEMMA QuietCareful ==
  ASSUME OnTheirWay' \subseteq OnTheirWay, blobs' = blobs, Doomed' \subseteq Doomed,
         \A s \in Sha : Linked(s)' => Linked(s)
  PROVE  Careful
  BY DEF Careful, Wanted

LEMMA FetchOK ==
  ASSUME LifeInv, NEW w \in Writer, Fetch(w)
  PROVE  StepOK
<1>1. PICK e \in Event :
         writer' = [writer EXCEPT ![w] =
                      [at |-> IF Stored(e.sha) THEN "record" ELSE "put", event |-> e]]
  BY DEF Fetch
<1>2. IInv' /\ \A s : Linked(s)' <=> Linked(s)
  BY SameTables DEF LifeInv, Fetch
<1>3. LifeTypes'
  BY <1>1 DEF LifeInv, LifeTypes, Fetch
<1>4. \A s \in OnTheirWay' : s \in OnTheirWay \/ s \in blobs
  <2>1. \A v \in Writer \ {w} : writer'[v] = writer[v]
    BY <1>1 DEF LifeInv, LifeTypes
  <2>2. writer'[w].at = "record" => writer'[w].event.sha \in blobs
    BY <1>1 DEF LifeInv, LifeTypes, Stored
  <2>3. events' = events
    BY DEF Fetch
  <2>4. QED
    BY <2>1, <2>2, <2>3 DEF OnTheirWay, Pending
<1>5. \A s \in OnTheirWay : s \in OnTheirWay'
  BY <1>1 DEF LifeInv, LifeTypes, OnTheirWay, Pending, Fetch
<1>6. Careful
  BY <1>2, <1>4 DEF Careful, Wanted, Fetch, Doomed
<1>7. QED
  BY <1>2, <1>3, <1>6 DEF StepOK

LEMMA PutOK ==
  ASSUME LifeInv, NEW w \in Writer, Put(w)
  PROVE  StepOK
<1> DEFINE r == writer[w].event.sha
<1>1. IInv' /\ \A s : Linked(s)' <=> Linked(s)
  BY SameTables DEF LifeInv, Put
<1>2. writer[w] \in [at : {"put"}, event : Event] /\ r \in Sha
  BY DEF LifeInv, LifeTypes, Put, Idle, Event
<1>3. LifeTypes'
  BY <1>2 DEF LifeInv, LifeTypes, Put
<1>4. \A v \in Writer \ {w} : writer'[v] = writer[v]
  BY DEF LifeInv, LifeTypes, Put
<1>5. writer'[w].at = "record" /\ writer'[w].event.sha = r
  BY <1>2 DEF LifeInv, LifeTypes, Put
<1>6. blobs' = blobs \cup {r} /\ events' = events /\ worker' = worker
  BY DEF Put
<1>7. \A s \in OnTheirWay' : s \in OnTheirWay \/ s = r
  BY <1>4, <1>5, <1>6 DEF OnTheirWay, Pending
<1>8. r \in OnTheirWay'
  BY <1>5 DEF OnTheirWay
<1>9. Careful
  <2> HIDE DEF r
  <2>1. QED
    BY <1>1, <1>6, <1>7, <1>8 DEF Careful, Wanted, Doomed
<1>10. QED
  BY <1>1, <1>3, <1>9 DEF StepOK

LEMMA PutFailsOK ==
  ASSUME LifeInv, NEW w \in Writer, PutFails(w)
  PROVE  StepOK
<1>1. IInv' /\ \A s : Linked(s)' <=> Linked(s)
  BY SameTables DEF LifeInv, PutFails
<1>2. LifeTypes'
  BY DEF LifeInv, LifeTypes, PutFails
<1>3. OnTheirWay' \subseteq OnTheirWay
  BY DEF LifeInv, LifeTypes, PutFails, OnTheirWay, Pending, Idle
<1>4. Careful
  BY <1>1, <1>3, QuietCareful DEF PutFails, Doomed
<1>5. QED
  BY <1>1, <1>2, <1>4 DEF StepOK

LEMMA RecordOK ==
  ASSUME LifeInv, NEW w \in Writer, Record(w)
  PROVE  StepOK
<1>1. IInv' /\ \A s : Linked(s)' <=> Linked(s)
  BY SameTables DEF LifeInv, Record
<1>2. writer[w].event \in Event
  BY DEF LifeInv, LifeTypes, Record, Idle
<1>3. LifeTypes'
  BY <1>2, LifecycleAssumption DEF LifeInv, LifeTypes, Record
<1>4. OnTheirWay' \subseteq OnTheirWay
  <2>1. \A i \in DOMAIN events' : \/ i \in DOMAIN events /\ events'[i] = events[i]
                                  \/ events'[i] = writer[w].event
    BY <1>2 DEF LifeInv, LifeTypes, Record
  <2>2. \A v \in Writer : writer'[v].at = "record" => writer'[v] = writer[v]
    BY DEF LifeInv, LifeTypes, Record, Idle
  <2>3. QED
    BY <2>1, <2>2 DEF OnTheirWay, Pending, Record
<1>5. Careful
  BY <1>1, <1>4, QuietCareful DEF Record, Doomed
<1>6. QED
  BY <1>1, <1>3, <1>5 DEF StepOK

LEMMA ServeEvent ==
  ASSUME LifeInv, NEW i \in DOMAIN events, NextEvent(i), events' = RemoveAt(events, i)
  PROVE  /\ events[i] \in Event
         /\ events' \in Seq(Event) /\ Len(events') <= MaxEvents
         /\ Pending' \subseteq Pending
         /\ i = 1 /\ Len(events) \in Nat /\ Len(events') = Len(events) - 1
         /\ \A j \in 1 .. Len(events) - 1 : events'[j] = events[j + 1]
<1>1. /\ events \in Seq(Event) /\ Len(events) \in 1 .. MaxEvents
      /\ i = 1 /\ MaxEvents \in Nat
  BY LifecycleAssumption DEF LifeInv, LifeTypes, NextEvent
<1>2. /\ events' \in Seq(Event) /\ Len(events') = Len(events) - 1
      /\ \A j \in 1 .. Len(events) - 1 : events'[j] = events[j + 1]
  <2> DEFINE n == Len(events)
             front == SubSeq(events, 1, 0)
             back == SubSeq(events, 2, n)
  <2>1. n \in Nat /\ n >= 1 /\ \A j \in 1 .. n : events[j] \in Event
    BY <1>1
  <2>2. front \in Seq(Event) /\ Len(front) = 0
    BY <1>1
  <2>3. events' = front \o back
    BY <1>1 DEF RemoveAt
  <2> HIDE DEF n
  <2>4. /\ back \in Seq(Event)
        /\ Len(back) = IF 2 <= n THEN n - 2 + 1 ELSE 0
        /\ \A j \in 1 .. n - 2 + 1 : back[j] = events[2 + j - 1]
    BY <2>1, SubSeqProperties
  <2> HIDE DEF front, back
  <2>5. Len(back) = n - 1
    BY <2>1, <2>4
  <2>6. \A j \in 1 .. n - 1 : back[j] = events[j + 1]
    BY <2>1, <2>4
  <2>7. QED
    BY <2>1, <2>2, <2>3, <2>4, <2>5, <2>6 DEF n
<1>3. \A j \in DOMAIN events' : \E l \in DOMAIN events : events'[j] = events[l]
  <2> SUFFICES ASSUME NEW j \in DOMAIN events'
               PROVE  \E l \in DOMAIN events : events'[j] = events[l]
    OBVIOUS
  <2>1. /\ DOMAIN events' = 1 .. Len(events) - 1 /\ DOMAIN events = 1 .. Len(events)
        /\ Len(events) \in Nat
    BY <1>1, <1>2
  <2>2. j \in 1 .. Len(events) - 1 /\ j + 1 \in DOMAIN events
    BY <2>1
  <2>3. events'[j] = events[j + 1]
    BY <1>2, <2>2
  <2>4. QED
    BY <2>2, <2>3
<1>4. Pending' \subseteq Pending
  <2> SUFFICES ASSUME NEW e \in Pending' PROVE e \in Pending
    OBVIOUS
  <2>1. PICK j \in DOMAIN events' : e = events'[j]
    BY DEF Pending
  <2>2. PICK l \in DOMAIN events : events'[j] = events[l]
    BY <1>3
  <2>3. QED
    BY <2>1, <2>2 DEF Pending
<1>5. QED
  BY <1>1, <1>2, <1>4

LEMMA LinkOK ==
  ASSUME LifeInv, Link
  PROVE  StepOK
<1>1. PICK i \in DOMAIN events :
         /\ NextEvent(i)
         /\ events' = RemoveAt(events, i)
         /\ \/ EnsureChunkAndLink(events[i].file, events[i].index, events[i].sha)
            \/ UNCHANGED metaVars
         /\ UNCHANGED <<blobs, writer, worker>>
  BY DEF Link
<1> DEFINE e == events[i]
<1>2. /\ e \in Event
      /\ events' \in Seq(Event) /\ Len(events') <= MaxEvents
      /\ Pending' \subseteq Pending
  BY <1>1, ServeEvent
<1>3. IInv' /\ \A s \in Sha : Linked(s)' => Linked(s) \/ s = e.sha
  <2>1. CASE UNCHANGED metaVars
    BY <2>1, SameTables DEF LifeInv
  <2>2. CASE EnsureChunkAndLink(e.file, e.index, e.sha)
    <3>1. e.file \in FileId /\ e.index \in ChunkIndex /\ e.sha \in Sha
      BY <1>2 DEF Event
    <3> HIDE DEF e
    <3>2. IInv'
      BY <2>2, <3>1, LinkInv DEF LifeInv, IInv
    <3>3. fileChunks' = [fileChunks EXCEPT ![<<e.file, e.index>>] = e.sha]
      BY <2>2 DEF EnsureChunkAndLink
    <3>4. fileChunks \in [Slot -> Sha \cup {NoSha}]
      BY DEF LifeInv, IInv, DriftInv, TypeOK
    <3>5. QED
      BY <3>2, <3>3, <3>4 DEF Linked
  <2>3. QED
    BY <1>1, <2>1, <2>2
<1>4. LifeTypes'
  BY <1>1, <1>2 DEF LifeInv, LifeTypes
<1>5. OnTheirWay' \subseteq OnTheirWay
  BY <1>1, <1>2 DEF OnTheirWay
<1>6. e.sha \in OnTheirWay
  BY DEF OnTheirWay, Pending
<1>7. Careful
  <2> HIDE DEF e
  <2>1. \A s \in Sha : Linked(s)' => Wanted(s)
    BY <1>3, <1>6 DEF Wanted
  <2>2. Doomed' = Doomed /\ blobs' = blobs
    BY <1>1 DEF Doomed
  <2>3. QED
    BY <1>5, <2>1, <2>2 DEF Careful, Wanted
<1>8. QED
  BY <1>3, <1>4, <1>7 DEF StepOK

\* Where a collector with nothing in hand can be.
LEMMA RestingTyped ==
  /\ Resting \in Collector /\ Resting.todo = {}
  /\ \A a \in {"list", "freed", "dry"} :
       /\ [Resting EXCEPT !.at = a] \in Collector
       /\ [Resting EXCEPT !.at = a].todo = {}
  /\ [Resting EXCEPT !.at = "list", !.second = TRUE] \in Collector
  /\ [Resting EXCEPT !.at = "list", !.second = TRUE].todo = {}
<1>1. Resting \in Collector /\ Resting.todo = {}
  BY DEF Resting, Collector
<1> HIDE DEF Resting
<1>2. QED
  BY <1>1 DEF Collector

\* A collector that goes elsewhere with what it has in hand.
LEMMA MovedTyped ==
  ASSUME NEW k \in Collector,
         NEW a \in {"idle", "list", "delete", "freed", "dry", "choose", "evict"}
  PROVE  [k EXCEPT !.at = a] \in Collector /\ [k EXCEPT !.at = a].todo = k.todo
BY DEF Collector

\* A step of a collector that leaves downloads and blobs alone and takes no new chunks.
LEMMA CollectorOK ==
  ASSUME LifeInv, IInv', NEW w \in Worker, NEW c \in Collector,
         worker' = [worker EXCEPT ![w] = c], c.todo \subseteq worker[w].todo,
         UNCHANGED <<blobs, events, writer>>,
         \A s \in Sha : Linked(s)' => Linked(s)
  PROVE  StepOK
<1>1. LifeTypes'
  BY DEF LifeInv, LifeTypes
<1>2. OnTheirWay' = OnTheirWay /\ blobs' = blobs
  BY DEF OnTheirWay, Pending
<1>3. Doomed' \subseteq Doomed
  <2>1. \A v \in Worker : worker'[v].todo \subseteq worker[v].todo
    BY DEF LifeInv, LifeTypes
  <2>2. QED
    BY <2>1 DEF Doomed
<1>4. QED
  BY <1>1, <1>2, <1>3, QuietCareful DEF StepOK

LEMMA StartOK ==
  ASSUME LifeInv, NEW w \in Worker, Start(w)
  PROVE  StepOK
<1> DEFINE c == [worker[w] EXCEPT !.at = "list"]
<1>1. c \in Collector /\ c.todo = worker[w].todo
  <2>1. worker[w] \in Collector
    BY DEF LifeInv, LifeTypes
  <2>2. QED
    BY <2>1, MovedTyped
<1>2. worker' = [worker EXCEPT ![w] = c]
  BY DEF Start
<1>3. QED
  BY <1>1, <1>2, SameTables, CollectorOK DEF LifeInv, Start

LEMMA ListOK ==
  ASSUME LifeInv, NEW w \in Worker, List(w)
  PROVE  StepOK
<1>1. PICK B \in SUBSET OrphanChunks :
         worker' = [worker EXCEPT ![w].at = "delete", ![w].todo = B, ![w].done = {}]
  BY DEF List
<1>2. IInv' /\ \A s : Linked(s)' <=> Linked(s)
  BY SameTables DEF LifeInv, List
<1>3. \A s \in B : s \in Sha /\ ~ Linked(s)
  BY DEF LifeInv, IInv, DriftInv, OrphanUnreferenced, TypeOK, OrphanChunks, Linked, Refs
<1>4. /\ \A v \in Worker \ {w} : worker'[v] = worker[v]
      /\ worker'[w] = [worker[w] EXCEPT !.at = "delete", !.todo = B, !.done = {}]
      /\ worker'[w] \in Collector /\ worker'[w].todo = B
  BY <1>1, <1>3 DEF LifeInv, LifeTypes, Collector
<1>5. LifeTypes'
  BY <1>1, <1>4 DEF LifeInv, LifeTypes, List
<1>6. \A s \in Doomed' : s \in Doomed \/ s \in B
  <2> SUFFICES ASSUME NEW s \in Doomed', s \notin B PROVE s \in Doomed
    OBVIOUS
  <2>1. PICK v \in Worker : s \in worker'[v].todo
    BY DEF Doomed
  <2>2. v # w
    BY <1>4, <2>1
  <2>3. s \in worker[v].todo
    BY <1>4, <2>1, <2>2
  <2>4. QED
    BY <2>3 DEF Doomed
<1>7. Careful
  BY <1>2, <1>3, <1>6 DEF Careful, Wanted, OnTheirWay, Pending, List
<1>8. QED
  BY <1>2, <1>5, <1>7 DEF StepOK

LEMMA DeleteBlobOK ==
  ASSUME LifeInv, NEW w \in Worker, DeleteBlob(w)
  PROVE  StepOK
<1>1. PICK s \in worker[w].todo :
         /\ blobs' = blobs \ {s}
         /\ worker' = [worker EXCEPT ![w].todo = @ \ {s}, ![w].done = @ \cup {s}]
  BY DEF DeleteBlob
<1>2. IInv' /\ \A t : Linked(t)' <=> Linked(t)
  BY SameTables DEF LifeInv, DeleteBlob
<1>3. /\ \A v \in Worker \ {w} : worker'[v] = worker[v]
      /\ worker'[w] \in Collector /\ worker'[w].todo = worker[w].todo \ {s}
  BY <1>1 DEF LifeInv, LifeTypes, Collector
<1>4. LifeTypes'
  BY <1>1, <1>3 DEF LifeInv, LifeTypes, DeleteBlob
<1>5. Doomed' \subseteq Doomed /\ s \in Doomed
  BY <1>3 DEF Doomed
<1>6. OnTheirWay' = OnTheirWay
  BY DEF OnTheirWay, Pending, DeleteBlob
<1>7. Careful
  BY <1>1, <1>2, <1>5, <1>6 DEF Careful, Wanted
<1>8. QED
  BY <1>2, <1>4, <1>7 DEF StepOK

LEMMA AbandonOK ==
  ASSUME LifeInv, NEW w \in Worker, Abandon(w)
  PROVE  StepOK
<1>1. PICK c \in {Resting, [Resting EXCEPT !.at = "list"]} :
         worker' = [worker EXCEPT ![w] = c]
  BY DEF Abandon
<1>2. c \in Collector /\ c.todo = {}
  BY RestingTyped
<1>3. IInv' /\ \A s : Linked(s)' <=> Linked(s)
  BY SameTables DEF LifeInv, Abandon
<1>4. worker' = [worker EXCEPT ![w] = c] /\ UNCHANGED <<blobs, events, writer>>
  BY <1>1 DEF Abandon
<1>5. QED
  BY <1>2, <1>3, <1>4, CollectorOK

LEMMA DeleteRowsOK ==
  ASSUME LifeInv, NEW w \in Worker, DeleteRows(w)
  PROVE  StepOK
<1>1. DeleteChunksBatch(worker[w].done) /\ worker[w].done \in SUBSET Sha
  BY DEF DeleteRows, LifeInv, LifeTypes, Collector
<1>2. IInv'
  BY <1>1, DeleteBatchInv DEF LifeInv, IInv
<1>3. \A s : Linked(s)' <=> Linked(s)
  BY <1>1 DEF DeleteChunksBatch, Linked
<1>4. PICK c \in {Resting} \cup {[Resting EXCEPT !.at = a] : a \in {"list", "freed", "dry"}} :
         worker' = [worker EXCEPT ![w] = c]
  BY DEF DeleteRows, AfterBatch
<1>5. c \in Collector /\ c.todo = {}
  BY RestingTyped
<1>6. worker' = [worker EXCEPT ![w] = c] /\ UNCHANGED <<blobs, events, writer>>
  BY <1>4 DEF DeleteRows
<1>7. QED
  BY <1>2, <1>3, <1>5, <1>6, CollectorOK

LEMMA MeasureOK ==
  ASSUME LifeInv, NEW w \in Worker, Measure(w)
  PROVE  StepOK
<1>1. PICK c \in {Resting} \cup {[worker[w] EXCEPT !.at = a] : a \in {"list", "choose"}} :
         worker' = [worker EXCEPT ![w] = c]
  BY DEF Measure
<1>2. c \in Collector /\ c.todo \subseteq worker[w].todo
  <2>1. CASE c = Resting
    BY <2>1, RestingTyped
  <2>2. CASE c # Resting
    <3>1. worker[w] \in Collector
      BY DEF LifeInv, LifeTypes
    <3>2. PICK a \in {"list", "choose"} : c = [worker[w] EXCEPT !.at = a]
      BY <1>1, <2>2
    <3>3. QED
      BY <3>1, <3>2, MovedTyped
  <2>3. QED
    BY <2>1, <2>2
<1>3. IInv' /\ \A s : Linked(s)' <=> Linked(s)
  BY SameTables DEF LifeInv, Measure
<1>4. worker' = [worker EXCEPT ![w] = c] /\ UNCHANGED <<blobs, events, writer>>
  BY <1>1 DEF Measure
<1>5. QED
  BY <1>2, <1>3, <1>4, CollectorOK

LEMMA ChooseOK ==
  ASSUME LifeInv, NEW w \in Worker, Choose(w)
  PROVE  StepOK
<1>1. IInv' /\ \A s : Linked(s)' <=> Linked(s)
  BY SameTables DEF LifeInv, Choose
<1>2. UNCHANGED <<blobs, events, writer>>
  BY DEF Choose
<1>3. CASE worker' = [worker EXCEPT ![w] = Resting]
  BY <1>1, <1>2, <1>3, RestingTyped, CollectorOK
<1>4. ASSUME NEW f \in Live,
             worker' = [worker EXCEPT ![w].at = "evict", ![w].repo = {RepoOf[files[f]]}]
      PROVE  StepOK
  <2> DEFINE c == [worker[w] EXCEPT !.at = "evict", !.repo = {RepoOf[files[f]]}]
  <2>1. RepoOf[files[f]] \in Repo
    BY MetadataAssumption DEF LifeInv, IInv, DriftInv, TypeOK, Live
  <2>2. c \in Collector /\ c.todo = worker[w].todo
    BY <2>1 DEF LifeInv, LifeTypes, Collector
  <2>3. worker' = [worker EXCEPT ![w] = c]
    BY <1>4
  <2> HIDE DEF c
  <2>4. QED
    BY <1>1, <1>2, <2>2, <2>3, CollectorOK
<1>5. QED
  BY <1>3, <1>4 DEF Choose

\* Deleting files makes no link.
LEMMA DeleteFilesOK ==
  ASSUME LifeInv, NEW F \in SUBSET FileId, DeleteFilesById(F)
  PROVE  IInv' /\ \A s \in Sha : Linked(s)' => Linked(s)
<1>1. IInv'
  BY DeleteFilesInv DEF LifeInv, IInv
<1>2. QED
  BY <1>1, MetadataAssumption DEF DeleteFilesById, Linked

LEMMA EvictOK ==
  ASSUME LifeInv, NEW w \in Worker, Evict(w)
  PROVE  StepOK
<1>1. PICK r \in worker[w].repo : DeleteFilesById(VictimFiles(r))
  BY DEF Evict
<1>2. VictimFiles(r) \in SUBSET FileId
  BY DEF VictimFiles, FilesOfRepo, Live
<1>3. IInv' /\ \A s \in Sha : Linked(s)' => Linked(s)
  BY <1>1, <1>2, DeleteFilesOK
<1> DEFINE c == [Resting EXCEPT !.at = "list", !.second = TRUE]
<1>4. c \in Collector /\ c.todo = {}
  BY RestingTyped
<1>5. worker' = [worker EXCEPT ![w] = c] /\ UNCHANGED <<blobs, events, writer>>
  BY DEF Evict
<1> HIDE DEF c
<1>6. QED
  BY <1>3, <1>4, <1>5, CollectorOK

LEMMA AdministerOK ==
  ASSUME LifeInv, Administer
  PROVE  StepOK
<1>1. IInv' /\ \A s \in Sha : Linked(s)' => Linked(s)
  <2>1. ASSUME NEW n \in Name, AddFile(n)
        PROVE  IInv' /\ \A s \in Sha : Linked(s)' => Linked(s)
    <3>1. IInv'
      BY <2>1, AddFileInv DEF LifeInv, IInv
    <3>2. QED
      BY <2>1, <3>1 DEF AddFile, Linked
  <2>2. ASSUME NEW n \in Name, DeleteFile(n)
        PROVE  IInv' /\ \A s \in Sha : Linked(s)' => Linked(s)
    <3>1. FilesOf(n) \in SUBSET FileId
      BY DEF FilesOf
    <3>2. QED
      BY <2>2, <3>1, DeleteFilesOK DEF DeleteFile
  <2>3. ASSUME ReconcileChunkRefs
        PROVE  IInv' /\ \A s \in Sha : Linked(s)' => Linked(s)
    <3>1. IInv'
      BY <2>3, ReconcileInv DEF LifeInv, IInv
    <3>2. QED
      BY <2>3, <3>1 DEF ReconcileChunkRefs, Linked
  <2>4. QED
    BY <2>1, <2>2, <2>3 DEF Administer, ControlDelete, ControlReconcile
<1>2. LifeTypes'
  BY DEF LifeInv, LifeTypes, Administer
<1>3. OnTheirWay' = OnTheirWay /\ Doomed' = Doomed /\ blobs' = blobs
  BY DEF Administer, OnTheirWay, Pending, Doomed
<1>4. QED
  BY <1>1, <1>2, <1>3, QuietCareful DEF StepOK

LEMMA CrashOK ==
  ASSUME LifeInv, Crash
  PROVE  StepOK
<1>1. IInv' /\ \A s : Linked(s)' <=> Linked(s)
  BY SameTables DEF LifeInv, Crash
<1>2. events' \in Seq(Event) /\ Len(events') = 0
  BY DEF Crash
<1>3. LifeTypes'
  BY <1>2, RestingTyped, LifecycleAssumption DEF LifeInv, LifeTypes, Crash
<1>4. OnTheirWay' = {} /\ Doomed' = {} /\ blobs' = blobs
  BY DEF Crash, OnTheirWay, Pending, Doomed, Idle, Resting
<1>5. QED
  BY <1>1, <1>3, <1>4, QuietCareful DEF StepOK

-----------------------------------------------------------------------------
(* Theorems *)

LEMMA InitLifeInv == LifeInit => LifeInv
<1> SUFFICES ASSUME LifeInit PROVE LifeInv
  OBVIOUS
<1>1. IInv
  BY InitIInv DEF LifeInit
<1>2. events \in Seq(Event) /\ Len(events) = 0
  BY DEF LifeInit
<1>3. LifeTypes
  BY <1>2, RestingTyped, LifecycleAssumption DEF LifeInit, LifeTypes
<1>4. \A s \in Sha : ~ Wanted(s)
  BY MetadataAssumption DEF LifeInit, MetaInit, Wanted, OnTheirWay, Pending, Linked, Idle
<1>5. Doomed = {}
  BY DEF LifeInit, Doomed, Resting
<1>6. QED
  BY <1>1, <1>3, <1>4, <1>5 DEF LifeInit, LifeInv, WantedKept, DoomedOvertaken

LEMMA StepIsOK ==
  ASSUME LifeInv, LifeStep
  PROVE  StepOK
<1>1. ASSUME NEW w \in Writer, Download(w)
      PROVE  StepOK
  BY <1>1, FetchOK, PutOK, PutFailsOK, RecordOK DEF Download
<1>2. ASSUME NEW w \in Worker, Start(w) \/ Proceed(w) \/ Abandon(w)
      PROVE  StepOK
  BY <1>2, StartOK, ListOK, DeleteBlobOK, DeleteRowsOK, MeasureOK, ChooseOK, EvictOK,
     AbandonOK DEF Proceed
<1>3. QED
  BY <1>1, <1>2, LinkOK, AdministerOK, CrashOK DEF LifeStep

LEMMA NextLifeInv == LifeInv /\ [LifeNext]_lifeVars => LifeInv'
<1>1. ASSUME LifeInv, LifeNext
      PROVE  LifeInv'
  <2>1. StepOK /\ OvertakenNext
    BY <1>1, StepIsOK DEF LifeNext, OvertakenNext
  <2>2. Doomed' \subseteq Sha /\ overtaken' \subseteq Sha
    BY <2>1 DEF StepOK, LifeTypes, Doomed, Collector, OvertakenNext
  <2>3. QED
    BY <1>1, <2>1, <2>2, CarefulKeeps DEF LifeInv, StepOK
<1>2. ASSUME LifeInv, UNCHANGED lifeVars
      PROVE  LifeInv'
  <2>1. IInv' /\ \A s : Linked(s)' <=> Linked(s)
    BY <1>2, SameTables DEF LifeInv, lifeVars
  <2>2. OnTheirWay' = OnTheirWay /\ Doomed' = Doomed /\ blobs' = blobs /\ overtaken' = overtaken
    BY <1>2 DEF lifeVars, OnTheirWay, Pending, Doomed
  <2>3. LifeTypes'
    BY <1>2 DEF LifeInv, LifeTypes, lifeVars
  <2>4. QED
    BY <1>2, <2>1, <2>2, <2>3 DEF LifeInv, WantedKept, DoomedOvertaken, Wanted
<1>3. QED
  BY <1>1, <1>2

\* The invariant of the whole life cycle.
THEOREM LifeInvariant == LifeSpec => []LifeInv
  BY InitLifeInv, NextLifeInv, PTL DEF LifeSpec

\* Every linked chunk has its blob, but for those a batch of GC overtook: service.rs
\* and session.rs, for any number of downloads and collectors.
THEOREM BlobsAreKept == LifeSpec => []BlobKept
<1>1. LifeInv => BlobKept
  BY DEF LifeInv, WantedKept, Wanted, BlobKept
<1>2. QED
  BY <1>1, LifeInvariant, PTL

\* Collectors, downloads, queue and history are well typed.
THEOREM LifeTypesCorrect == LifeSpec => []LifeTypeOK
<1>1. LifeInv => LifeTypeOK
  BY DEF LifeInv, IInv, DriftInv, LifeTypes, LifeTypeOK
<1>2. QED
  BY <1>1, LifeInvariant, PTL

-----------------------------------------------------------------------------
(* Which chunks lose their last link *)

LosesLastLink(s) ==
  Refs(s) # {} /\ \A k \in Refs(s) : fileChunks'[k] = NoSha

\* The deletes of a file or a repository mark what they orphan.
LEMMA DeleteMarks ==
  ASSUME IInv, NEW F \in SUBSET FileId, DeleteFilesById(F), NEW s \in Sha, LosesLastLink(s)
  PROVE  s \in OrphanChunks'
<1>1. {k \in Refs(s) : k[1] \in F} = Refs(s)
  BY MetadataAssumption DEF LosesLastLink, DeleteFilesById, Refs
<1>2. RefsLost(F, s) = Cardinality(Refs(s)) /\ Cardinality(Refs(s)) \in Nat
  BY <1>1, RefsFinite DEF RefsLost
<1>3. Cardinality(Refs(s)) # 0
  BY RefsFinite, FS_EmptySet DEF LosesLastLink
<1>4. refCount[s] = Cardinality(Refs(s))
  BY DEF IInv, RefCountExact
<1>5. refCount'[s] = 0 /\ orphanedAt'[s]
  BY <1>2, <1>3, <1>4 DEF DeleteFilesById
<1>6. s \in chunks'
  <2>1. PICK k \in Slot : fileChunks[k] = s
    BY DEF LosesLastLink, Refs
  <2>2. s \in chunks
    BY <2>1, MetadataAssumption DEF IInv, DriftInv, LinksResolve
  <2>3. QED
    BY <2>2 DEF DeleteFilesById
<1>7. QED
  BY <1>5, <1>6 DEF OrphanChunks

\* A slot of a chunk that keeps a chunk, the same or another, rules the loss out.
LEMMA NothingLost ==
  ASSUME NEW s \in Sha, \A k \in Slot : fileChunks[k] = s => fileChunks'[k] # NoSha
  PROVE  ~ LosesLastLink(s)
  BY DEF LosesLastLink, Refs

LEMMA StepMarks ==
  ASSUME LifeInv, [LifeNext]_lifeVars, NEW s \in Sha, LosesLastLink(s)
  PROVE  s \in OrphanChunks'
<1>1. CASE fileChunks' = fileChunks
  BY <1>1, NothingLost, MetadataAssumption
<1>2. ASSUME NEW F \in SUBSET FileId, DeleteFilesById(F)
      PROVE  s \in OrphanChunks'
  BY <1>2, DeleteMarks DEF LifeInv
<1>3. ASSUME NEW f \in FileId, NEW i \in ChunkIndex, NEW t \in Sha, EnsureChunkAndLink(f, i, t)
      PROVE  FALSE
  BY <1>3, NothingLost, MetadataAssumption DEF EnsureChunkAndLink, LifeInv, IInv, DriftInv, TypeOK
<1>4. CASE \E w \in Writer : Download(w)
  BY <1>1, <1>4 DEF Download, Fetch, Put, PutFails, Record, metaVars
<1>5. CASE Link
  <2>1. \A i \in DOMAIN events : events[i] \in Event
    BY DEF LifeInv, LifeTypes
  <2>2. QED
    <3>1. PICK i \in DOMAIN events :
             \/ EnsureChunkAndLink(events[i].file, events[i].index, events[i].sha)
             \/ UNCHANGED metaVars
      BY <1>5 DEF Link
    <3>2. events[i].file \in FileId /\ events[i].index \in ChunkIndex /\ events[i].sha \in Sha
      BY <2>1 DEF Event
    <3>3. UNCHANGED metaVars
      BY <1>3, <3>1, <3>2
    <3>4. QED
      BY <1>1, <3>3 DEF metaVars
<1>6. ASSUME NEW w \in Worker, Start(w) \/ Proceed(w) \/ Abandon(w)
      PROVE  s \in OrphanChunks'
  <2>1. CASE Evict(w)
    <3>1. \A r : VictimFiles(r) \in SUBSET FileId
      BY DEF VictimFiles, FilesOfRepo, Live
    <3>2. QED
      BY <1>2, <2>1, <3>1 DEF Evict
  <2>2. CASE ~ Evict(w)
    BY <1>1, <1>6, <2>2 DEF Proceed, Start, List, DeleteBlob, DeleteRows, Measure, Choose,
       Abandon, DeleteChunksBatch, metaVars
  <2>3. QED
    BY <2>1, <2>2
<1>7. CASE Administer
  <2>1. \A n : FilesOf(n) \in SUBSET FileId
    BY DEF FilesOf
  <2>2. QED
    BY <1>1, <1>2, <1>7, <2>1 DEF Administer, ControlDelete,
       ControlReconcile, AddFile, DeleteFile, ReconcileChunkRefs
<1>8. CASE Crash \/ UNCHANGED lifeVars
  BY <1>1, <1>8 DEF Crash, lifeVars, metaVars
<1>9. QED
  BY <1>4, <1>5, <1>6, <1>7, <1>8 DEF LifeNext, LifeStep

\* metadata.rs: a chunk that loses its last link by a delete or an eviction is a
\* candidate of GC at once, whatever else goes on.
THEOREM LastLinksAreMarked == LifeSpec => LastLinkMarked
<1>1. LifeInv /\ [LifeNext]_lifeVars =>
        [\A s \in Sha :
           /\ Refs(s) # {}
           /\ \A k \in Refs(s) : fileChunks'[k] = NoSha
           => s \in OrphanChunks']_lifeVars
  BY StepMarks DEF LosesLastLink
<1>2. QED
  BY <1>1, LifeInvariant, PTL DEF LifeSpec, LastLinkMarked

-----------------------------------------------------------------------------
(* Serving the queue *)

\* A nonempty set of places in a sequence has a last one.
LEMMA LastExists ==
  ASSUME NEW n \in Nat, NEW E \in SUBSET (1 .. n), E # {}
  PROVE  \E m \in E : \A x \in E : m >= x
<1> DEFINE R == OpToRel(<, Nat)
           T == {n - x : x \in E}
<1>1. \A a, b \in Nat : <<a, b>> \in R <=> a < b
  BY DEF OpToRel
<1>2. IsWellFoundedOn(R, Nat)
  BY NatLessThanWellFounded
<1> HIDE DEF R
<1>3. T \subseteq Nat /\ T # {}
  <2>1. PICK x \in E : TRUE
    OBVIOUS
  <2>2. n - x \in T
    OBVIOUS
  <2>3. \A y \in E : n - y \in Nat
    OBVIOUS
  <2>4. QED
    BY <2>2, <2>3
<1> HIDE DEF T
<1>4. PICK t \in T : \A u \in T : ~ (<<u, t>> \in R)
  BY <1>2, <1>3, WFMin
<1>5. \A u \in T : t <= u
  <2>1. \A u \in T : u \in Nat /\ t \in Nat /\ ~ (u < t)
    BY <1>1, <1>3, <1>4
  <2>2. QED
    BY <2>1
<1>6. PICK m \in E : t = n - m
  BY DEF T
<1>7. \A x \in E : m >= x
  <2>1. \A x \in E : n - m <= n - x
    BY <1>5, <1>6 DEF T
  <2>2. QED
    BY <2>1
<1>8. QED
  BY <1>7

\* ... and only one.
LEMMA LastIsMax ==
  ASSUME NEW n \in Nat, NEW E \in SUBSET (1 .. n), NEW m \in E, \A x \in E : m >= x
  PROVE  Max(E) = m
<1>1. Max(E) \in E /\ \A x \in E : Max(E) >= x
  BY DEF Max
<1>2. \A x \in E : x \in Int
  OBVIOUS
<1>3. PICK x \in E : x = Max(E)
  BY <1>1
<1>4. x >= m /\ m >= x /\ m \in Int /\ x \in Int
  BY <1>1, <1>2, <1>3
<1>5. QED
  BY <1>3, <1>4

\* Where the events of a slot are in the queue.
Waiting(k) == {i \in DOMAIN events : SlotOf(events[i]) = k}

\* A link writes the slot of the first event; the last event of a slot stays its last.
LEMMA LinkNewest ==
  ASSUME LifeInv, Link, NEW k \in Slot, k[1] \in Live
  PROVE  Newest(k)' = Newest(k)
<1>1. PICK i \in DOMAIN events :
         /\ NextEvent(i)
         /\ events' = RemoveAt(events, i)
         /\ \/ EnsureChunkAndLink(events[i].file, events[i].index, events[i].sha)
            \/ /\ ~ ForeignKeyHolds(events[i].file) \/ fileChunks[SlotOf(events[i])] = events[i].sha
               /\ UNCHANGED metaVars
  BY DEF Link
<1> DEFINE n == Len(events)
           e == events[1]
           E == Waiting(k)
           F == Waiting(k)'
<1>2. /\ n \in Nat /\ n >= 1 /\ i = 1 /\ e \in Event /\ DOMAIN events = 1 .. n
      /\ DOMAIN events' = 1 .. n - 1
      /\ \A j \in 1 .. n - 1 : events'[j] = events[j + 1]
  BY <1>1, ServeEvent DEF LifeInv, LifeTypes
<1> HIDE DEF n, e
<1>3. E \in SUBSET (1 .. n) /\ F \in SUBSET (1 .. n)
  BY <1>2 DEF Waiting
<1>4. \A j \in 1 .. n - 1 : j \in F <=> j + 1 \in E
  BY <1>2 DEF Waiting, SlotOf
<1>5. fileChunks'[k] = IF SlotOf(e) = k THEN e.sha ELSE fileChunks[k]
  <2>1. /\ e.file \in FileId /\ e.index \in ChunkIndex /\ SlotOf(e) = <<e.file, e.index>>
        /\ SlotOf(e) \in Slot /\ (SlotOf(e) = k => e.file \in Live)
    BY <1>2 DEF Event, SlotOf, Slot
  <2>2. fileChunks \in [Slot -> Sha \cup {NoSha}]
    BY DEF LifeInv, IInv, DriftInv, TypeOK
  <2>3. CASE EnsureChunkAndLink(e.file, e.index, e.sha)
    BY <2>1, <2>2, <2>3 DEF EnsureChunkAndLink
  <2>4. CASE /\ ~ ForeignKeyHolds(e.file) \/ fileChunks[SlotOf(e)] = e.sha
             /\ UNCHANGED metaVars
    BY <2>1, <2>4 DEF ForeignKeyHolds, metaVars
  <2>5. QED
    BY <1>1, <1>2, <2>3, <2>4 DEF e
<1>6. 1 \in E <=> SlotOf(e) = k
  BY <1>2 DEF Waiting, e
<1>7. /\ Newest(k) = IF E = {} THEN fileChunks[k] ELSE events[Max(E)].sha
      /\ Newest(k)' = IF F = {} THEN fileChunks'[k] ELSE events'[Max(F)].sha
  BY DEF Newest, Waiting
<1>8. F \in SUBSET (1 .. n - 1)
  BY <1>2 DEF Waiting
<1> HIDE DEF E, F
<1>9. CASE E = {}
  BY <1>3, <1>4, <1>5, <1>6, <1>7, <1>8, <1>9
<1>10. CASE E # {}
  <2>1. PICK m \in E : \A x \in E : m >= x
    BY <1>2, <1>3, <1>10, LastExists
  <2>2. Max(E) = m /\ m \in 1 .. n
    BY <1>2, <1>3, <2>1, LastIsMax
  <2>3. CASE m = 1
    <3>1. F = {}
      <4>1. \A j \in 1 .. n - 1 : j + 1 \notin E
        BY <1>2, <2>1, <2>3
      <4>2. QED
        BY <1>4, <1>8, <4>1
    <3>2. QED
      BY <1>5, <1>6, <1>7, <1>10, <2>1, <2>2, <2>3, <3>1 DEF e
  <2>4. CASE m # 1
    <3>1. m - 1 \in 1 .. n - 1 /\ m - 1 + 1 = m
      BY <1>2, <2>2, <2>4
    <3>2. m - 1 \in F
      BY <1>4, <2>1, <3>1
    <3>3. \A j \in F : m - 1 >= j
      <4>1. \A j \in F : j \in 1 .. n - 1 /\ j + 1 \in E
        BY <1>4, <1>8
      <4>2. QED
        BY <1>2, <2>1, <2>2, <4>1
    <3>4. Max(F) = m - 1
      BY <1>2, <1>3, <3>2, <3>3, LastIsMax
    <3>5. events'[m - 1] = events[m]
      BY <1>2, <3>1
    <3>6. QED
      BY <1>7, <1>10, <2>2, <3>2, <3>4, <3>5
  <2>5. QED
    BY <2>3, <2>4
<1>11. QED
  BY <1>9, <1>10

\* service.rs: one task serves the queue in its order, so of two chunks stored for
\* one slot the slot ends with the one that was recorded last.
THEOREM LinksKeepNewest == LifeSpec => LinkKeepsNewest
<1>1. LifeInv /\ [LifeNext]_lifeVars =>
        [Link => \A k \in Slot : k[1] \in Live => Newest(k)' = Newest(k)]_lifeVars
  BY LinkNewest
<1>2. QED
  BY <1>1, LifeInvariant, PTL DEF LifeSpec, LinkKeepsNewest

-----------------------------------------------------------------------------
(* The tables, whoever uses them *)

\* Counts, links and marks agree at any time, whatever downloads, collectors,
\* evictions and operators do to them at once (metadata.rs).
THEOREM TablesAgree == LifeSpec => [](RefCountExact /\ LinksResolve /\ OrphanUnreferenced)
<1>1. LifeInv => RefCountExact /\ LinksResolve /\ OrphanUnreferenced
  BY DEF LifeInv, IInv, DriftInv
<1>2. QED
  BY <1>1, LifeInvariant, PTL

\* Each step of the server is one of the catalog's, or none for it.
LEMMA LifeStepRefines ==
  ASSUME LifeInv, [LifeNext]_lifeVars
  PROVE  Catalog!CatalogNext \/ UNCHANGED <<CatalogLinks, chunks>>
<1>0. TypeOK
  BY DEF LifeInv, IInv, DriftInv
<1>1. CASE UNCHANGED metaVars
  BY <1>1 DEF metaVars, CatalogLinks
<1>2. CASE \E w \in Writer : Download(w)
  BY <1>1, <1>2 DEF Download, Fetch, Put, PutFails, Record
<1>3. CASE Link
  <2>1. PICK i \in DOMAIN events :
           \/ EnsureChunkAndLink(events[i].file, events[i].index, events[i].sha)
           \/ UNCHANGED metaVars
    BY <1>3 DEF Link
  <2>2. events[i] \in Event
    BY DEF LifeInv, LifeTypes
  <2>3. events[i].file \in FileId /\ events[i].index \in ChunkIndex /\ events[i].sha \in Sha
    BY <2>2 DEF Event
  <2>4. QED
    BY <1>0, <1>1, <2>1, <2>3, LinkRefines
<1>4. ASSUME NEW w \in Worker, Start(w) \/ Proceed(w) \/ Abandon(w)
      PROVE  Catalog!CatalogNext \/ UNCHANGED <<CatalogLinks, chunks>>
  <2>1. CASE Evict(w)
    <3>1. PICK r \in worker[w].repo : DeleteFilesById(VictimFiles(r))
      BY <2>1 DEF Evict
    <3>2. VictimFiles(r) \in SUBSET FileId
      BY DEF VictimFiles, FilesOfRepo, Live
    <3>3. QED
      BY <1>0, <3>1, <3>2, DeleteRefines
  <2>2. CASE DeleteRows(w)
    <3>1. worker[w].done \in SUBSET Sha
      BY DEF LifeInv, LifeTypes, Collector
    <3>2. DeleteChunksBatch(worker[w].done)
      BY <2>2 DEF DeleteRows
    <3>3. QED
      BY <1>0, <3>1, <3>2, DeleteBatchRefines
  <2>3. CASE Start(w) \/ List(w) \/ DeleteBlob(w) \/ Abandon(w) \/ Measure(w) \/ Choose(w)
    BY <1>1, <2>3 DEF Start, List, DeleteBlob, Abandon, Measure, Choose
  <2>4. QED
    BY <1>4, <2>1, <2>2, <2>3 DEF Proceed
<1>5. CASE Administer
  <2>1. ASSUME NEW n \in Name, AddFile(n)
        PROVE  UNCHANGED <<CatalogLinks, chunks>>
    BY <2>1 DEF AddFile, CatalogLinks
  <2>2. ASSUME NEW n \in Name, DeleteFile(n)
        PROVE  Catalog!CatalogNext
    BY <1>0, <2>2, DeleteRefines DEF DeleteFile, FilesOf
  <2>3. CASE ReconcileChunkRefs
    BY <2>3 DEF ReconcileChunkRefs, CatalogLinks
  <2>4. QED
    BY <1>5, <2>1, <2>2, <2>3 DEF Administer, ControlDelete, ControlReconcile
<1>6. CASE Crash \/ UNCHANGED lifeVars
  BY <1>1, <1>6 DEF Crash, lifeVars
<1>7. QED
  BY <1>2, <1>3, <1>4, <1>5, <1>6 DEF LifeNext, LifeStep

\* The server as a whole keeps the catalog's promise: through evictions, late events
\* and crashes a chunk leaves the database only while no file holds it.
THEOREM ServerImplementsCatalog == LifeSpec => ImplementsCatalog
<1>1. LifeInit => Catalog!CatalogInit
  BY InitRefines DEF LifeInit
<1>2. LifeInv /\ [LifeNext]_lifeVars => [Catalog!CatalogNext]_(Catalog!catalogVars)
  BY LifeStepRefines DEF Catalog!catalogVars, CatalogLinks
<1>3. QED
  BY <1>1, <1>2, LifeInvariant, PTL DEF LifeSpec, ImplementsCatalog, Catalog!CatalogSpec
=============================================================================
