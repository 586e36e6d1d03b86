------------------------ MODULE ChunkSession_proofs ------------------------
(***************************************************************************)
(* Proofs about ChunkSession: for any callers, actors, chunks and answers, *)
(* one download of a chunk runs at a time, whoever waits has the entry of  *)
(* the download it waits for, no blob is written over, and a bad copy does *)
(* not stand in the way of its replacement.                                *)
(***************************************************************************)
EXTENDS ChunkSession, TLAPS

Storing == {"exists", "put", "write", "record"}
Holding == Storing \cup {"check", "lock"}

\* A download, until its last line, is the one in the table.
TaskHasEntry == \A r \in Asker : task[r] # "none" => entry[ChunkOf[r]] = r

\* It stores what it has downloaded under the lock on that hash.
StoresLocked ==
  \A r \in Asker :
    /\ task[r] \in Holding => body[r] \in Body
    /\ task[r] \in Storing => lock[body[r]] = r

Alone(r) ==
  \A q \in Asker \ {r} : <<MapOf[q], ChunkOf[q]>> # <<MapOf[r], ChunkOf[r]>>

\* Between finding no good copy and storing a new one, cached_chunks has no hash
\* for the chunk, if nobody else in the actor asks for it.
NothingExpected ==
  \A r \in Asker : Alone(r) =>
    /\ at[r] \in {"read", "purge", "forget", "enter"} => task[r] = "none"
    /\ at[r] = "enter" \/ task[r] \in {"request", "check"} => cached[MapOf[r]][ChunkOf[r]] = None
    /\ body[r] # Mismatch

\* Whoever reads a blob has a hash to read it by.
HashIsSeen == \A r \in Asker : at[r] \in {"read", "purge"} => seen[r] \in Body

\* What a hash stands for is there, or its loss is on record.
Sound(s) == blob[s] = "whole" \/ s \in spoiled

\* So it is for what is linked and for what is about to be; and what is being written
\* is still unfinished, unless somebody has deleted it.
StoresSound ==
  /\ \A r \in Asker : task[r] = "record" => Sound(body[r])
  /\ \A r \in Asker : task[r] = "write" => blob[body[r]] = "partial" \/ body[r] \in spoiled
  /\ \A k \in Chunk : linked[k] # None => Sound(linked[k])

ChunkInv ==
  /\ ChunkTypeOK
  /\ TaskHasEntry
  /\ WaitsForEntry
  /\ HashIsSeen
  /\ StoresLocked
  /\ PutIsFresh
  /\ StoresSound
  /\ NothingExpected

-----------------------------------------------------------------------------
(* The intervals *)

LEMMA ChunkStarts ==
  ASSUME NEW k \in Chunk
  PROVE  k \in Nat /\ Start(k) \in Nat /\ Start(k) <= TotalSize - 1
<1> USE ChunkAssumption
<1> DEFINE d == (TotalSize - 1) \div ChunkSize
<1>1. d \in Nat /\ k \in Nat /\ k <= d
  BY DEF Chunk
<1>2. ChunkSize * d <= TotalSize - 1
  OBVIOUS
<1>3. ChunkSize * k <= ChunkSize * d
  <2> HIDE DEF d
  <2>1. PICK e \in Nat : d = k + e
    BY <1>1, d - k \in Nat, d = k + (d - k)
  <2>2. ChunkSize * d = ChunkSize * k + ChunkSize * e
    BY <1>1, <2>1
  <2>3. ChunkSize * e \in Nat /\ ChunkSize * k \in Nat
    BY <1>1
  <2>4. QED
    BY <2>2, <2>3
<1>4. QED
  BY <1>1, <1>2, <1>3 DEF Start

LEMMA MinOfTwo ==
  ASSUME NEW a \in Int, NEW b \in Int
  PROVE  Min({a, b}) = IF a <= b THEN a ELSE b
<1> DEFINE m == IF a <= b THEN a ELSE b
<1>1. m \in {a, b} /\ \A y \in {a, b} : m <= y
  OBVIOUS
<1>2. \A x \in {a, b} : (\A y \in {a, b} : x <= y) => x = m
  OBVIOUS
<1>3. QED
  BY <1>1, <1>2 DEF Min

LEMMA WholeIsBody == \A k \in Chunk : Whole(k) \in Body
<1> SUFFICES ASSUME NEW k \in Chunk PROVE Whole(k) \in Body
  OBVIOUS
<1> USE ChunkAssumption
<1>1. Start(k) \in Nat /\ Start(k) <= TotalSize - 1
  BY ChunkStarts
<1>2. End(k) = (IF Start(k) + ChunkSize <= TotalSize THEN Start(k) + ChunkSize ELSE TotalSize) - 1
  BY <1>1, MinOfTwo DEF End
<1>3. Start(k) \in 0 .. TotalSize /\ End(k) + 1 \in 0 .. TotalSize /\ Start(k) <= End(k) + 1
  <2> HIDE DEF Start
  <2> QED BY <1>1, <1>2
<1>4. QED
  BY <1>3 DEF Whole, Body

LEMMA AskersChunk ==
  ASSUME NEW r \in Asker
  PROVE  MapOf[r] \in CacheMap /\ ChunkOf[r] \in Chunk /\ Wanted(r) \in Body
BY ChunkAssumption, WholeIsBody DEF Chunk, Wanted

-----------------------------------------------------------------------------
(* Types *)

LEMMA FirstAttempts == 0 \in 0 .. MaxAttempts /\ 1 \in 0 .. MaxAttempts
BY ChunkAssumption

LEMMA TypeInit == ChunkInit => ChunkTypeOK
BY ChunkAssumption DEF ChunkInit, ChunkTypeOK

LEMMA AskType ==
  ASSUME ChunkTypeOK, HashIsSeen, NEW r \in Asker, Ask(r) \/ AskStep(r)
  PROVE  ChunkTypeOK'
<1> USE DEF ChunkTypeOK
<1>1. MapOf[r] \in CacheMap /\ ChunkOf[r] \in Chunk
  BY AskersChunk
<1>2. CASE Ask(r)
  BY <1>1, <1>2 DEF Ask, Goto, taskVars, storeVars, bounds
<1>3. CASE ReadCached(r)
  BY <1>3 DEF ReadCached, Goto, taskVars, storeVars, bounds
<1>4. CASE Purge(r)
  BY <1>4 DEF Purge, Goto, taskVars, bounds, HashIsSeen
<1>5. CASE Forget(r)
  <2>1. cached' \in [CacheMap -> [Chunk -> Body \cup {None}]]
    BY <1>1, <1>5 DEF Forget
  <2>2. QED
    BY <1>5, <2>1 DEF Forget, Goto, taskVars, bounds
<1>6. CASE Enter(r)
  <2>1. entry' \in [Chunk -> Asker \cup {None}]
    BY <1>1, <1>6 DEF Enter
  <2>2. entry'[ChunkOf[r]] \in Asker \cup {None}
    BY <1>1, <2>1
  <2>3. joined' \in [Asker -> Asker \cup {None}]
    BY <1>6, <2>2 DEF Enter
  <2>4. task' \in [Asker -> Running \cup {"none", "panicked"}]
    BY <1>6 DEF Enter, Running
  <2>5. attempt' \in [Asker -> 0 .. MaxAttempts]
    BY <1>6, FirstAttempts DEF Enter
  <2>6. QED
    BY <1>6, <2>1, <2>3, <2>4, <2>5 DEF Enter, Goto, storeVars, bounds
<1>7. QED
  BY <1>2, <1>3, <1>4, <1>5, <1>6 DEF AskStep

LEMMA RetryType ==
  ASSUME ChunkTypeOK, NEW r \in Asker, Retry(r), UNCHANGED <<askVars, entry, storeVars, bounds>>
  PROVE  ChunkTypeOK'
<1> USE DEF ChunkTypeOK
<1>1. CASE attempt[r] >= MaxAttempts
  BY <1>1, FirstAttempts DEF Retry, Deliver, TaskGoto, Running, askVars, storeVars, bounds
<1>2. CASE ~ (attempt[r] >= MaxAttempts)
  <2>1. attempt[r] \in 0 .. MaxAttempts /\ attempt[r] + 1 \in 0 .. MaxAttempts
    BY <1>2, ChunkAssumption
  <2>2. attempt' \in [Asker -> 0 .. MaxAttempts]
    <3> DEFINE A == 0 .. MaxAttempts
               a == attempt[r] + 1
    <3>1. attempt \in [Asker -> A] /\ attempt' = [attempt EXCEPT ![r] = a] /\ a \in A
      BY <1>2, <2>1 DEF Retry
    <3> HIDE DEF A, a
    <3>2. attempt' \in [Asker -> A]
      BY <3>1
    <3>3. QED
      BY <3>2 DEF A
  <2>3. QED
    BY <1>2, <2>2 DEF Retry, askVars, storeVars, bounds
<1>3. QED
  BY <1>1, <1>2

LEMMA DownloadedType ==
  ASSUME ChunkTypeOK, NEW r \in Asker, NEW b \in Body, Downloaded(r, b),
         UNCHANGED <<askVars, entry, storeVars, bounds>>
  PROVE  ChunkTypeOK'
BY FirstAttempts DEF ChunkTypeOK, Downloaded, TaskGoto, Running, askVars, storeVars, bounds

\* What a 200 answer is taken for is an interval of the file.
LEMMA FullBody ==
  ASSUME NEW r \in Asker, NEW n \in FileSizes
  PROVE  /\ <<0, n>> \in Body
         /\ n >= Wanted(r)[1] => <<Wanted(r)[1], Min({Wanted(r)[2], n})>> \in Body
<1>1. n \in 0 .. TotalSize /\ TotalSize \in Nat
  BY ChunkAssumption
<1>2. Wanted(r) \in Body
  BY AskersChunk
<1>3. PICK f, t \in 0 .. TotalSize : Wanted(r) = <<f, t>> /\ f <= t
  BY <1>2 DEF Body
<1>4. Min({t, n}) = IF t <= n THEN t ELSE n
  BY <1>1, MinOfTwo
<1>5. n >= f => Min({t, n}) \in 0 .. TotalSize /\ f <= Min({t, n})
  BY <1>1, <1>3, <1>4
<1>6. QED
  BY <1>1, <1>3, <1>5 DEF Body

LEMMA TaskType ==
  ASSUME ChunkTypeOK, StoresLocked, NEW r \in Asker, TaskStep(r) \/ Acquire(r)
  PROVE  ChunkTypeOK'
<1> USE DEF ChunkTypeOK
<1>1. MapOf[r] \in CacheMap /\ ChunkOf[r] \in Chunk /\ Wanted(r) \in Body
  BY AskersChunk
<1>2. CASE RequestFails(r)
  BY <1>2, RetryType DEF RequestFails
<1>3. CASE RequestRefused(r)
  BY <1>3, FirstAttempts DEF RequestRefused, Deliver, TaskGoto, Running, askVars, storeVars, bounds
<1>4. CASE PartialContent(r)
  BY <1>1, <1>4, RetryType, DownloadedType DEF PartialContent
<1>5. CASE FullContent(r)
  <2> DEFINE want == Wanted(r)
  <2>1. UNCHANGED <<askVars, entry, storeVars, bounds>>
    BY <1>5 DEF FullContent
  <2>2. PICK n \in FileSizes :
          \/ Retry(r)
          \/ Downloaded(r, <<0, n>>)
          \/ n >= want[1] /\ Downloaded(r, <<want[1], Min({want[2], n})>>)
          \/ TaskGoto(r, "panicked") /\ UNCHANGED <<attempt, body>>
    BY <1>5 DEF FullContent
  <2>3. CASE Retry(r)
    BY <2>1, <2>3, RetryType
  <2>4. CASE Downloaded(r, <<0, n>>)
    BY <2>1, <2>4, FullBody, DownloadedType
  <2>5. CASE n >= want[1] /\ Downloaded(r, <<want[1], Min({want[2], n})>>)
    BY <2>1, <2>5, FullBody, DownloadedType
  <2>6. CASE TaskGoto(r, "panicked") /\ UNCHANGED <<attempt, body>>
    BY <2>1, <2>6 DEF TaskGoto, askVars, storeVars, bounds
  <2>7. QED
    BY <2>2, <2>3, <2>4, <2>5, <2>6
<1>6. CASE Check(r)
  BY <1>6, FirstAttempts DEF Check, Deliver, TaskGoto, Running, askVars, storeVars, bounds
<1>7. CASE Acquire(r)
  BY <1>7 DEF Acquire, TaskGoto, Running, askVars, bounds
<1>8. CASE Exists(r)
  <2>1. body[r] \in Body
    BY <1>8 DEF Exists, StoresLocked, Holding, Storing
  <2>2. QED
    BY <1>8, <2>1 DEF Exists, TaskGoto, Running, askVars, storeVars, bounds
<1>9. CASE PutBegin(r)
  BY <1>9 DEF PutBegin, TaskGoto, Running, askVars, bounds
<1>10. CASE PutEnd(r)
  BY <1>10 DEF PutEnd, TaskGoto, Running, askVars, bounds
<1>11. CASE PutFails(r)
  <2>1. lock' \in [Body -> Asker \cup {None}]
    BY <1>11 DEF PutFails, Release
  <2>2. QED
    BY <1>11, <2>1, FirstAttempts DEF PutFails, Deliver, TaskGoto, Running, askVars, bounds
<1>12. CASE Record(r) /\ body[r] \in Body
  <2>1. cached' \in [CacheMap -> [Chunk -> Body \cup {None}]]
    BY <1>1, <1>12 DEF Record
  <2>2. lock' \in [Body -> Asker \cup {None}] /\ linked' \in [Chunk -> Body \cup {None}]
    BY <1>12 DEF Record, Release
  <2>3. QED
    BY <1>12, <2>1, <2>2 DEF Record, TaskGoto, Running, askVars, bounds
<1>13. CASE Send(r)
  BY <1>13 DEF Send, Dismiss, TaskGoto, Running, storeVars, bounds
<1>14. CASE Remove(r)
  BY <1>1, <1>14 DEF Remove, Dismiss, TaskGoto, Running, storeVars, bounds
<1>15. QED
  BY <1>2, <1>3, <1>4, <1>5, <1>6, <1>7, <1>8, <1>9, <1>10, <1>11, <1>12, <1>13, <1>14
  DEF TaskStep, Record, StoresLocked, Holding, Storing

LEMMA TypeStep ==
  ASSUME ChunkInv, [ChunkNext]_chunkVars
  PROVE  ChunkTypeOK'
<1> USE DEF ChunkInv
<1>1. ASSUME NEW r \in Asker, Ask(r) \/ AskStep(r) PROVE ChunkTypeOK'
  BY <1>1, AskType
<1>2. ASSUME NEW r \in Asker, TaskStep(r) \/ Acquire(r) PROVE ChunkTypeOK'
  BY <1>2, TaskType
<1>3. ASSUME NEW s \in Body, Damage(s) PROVE ChunkTypeOK'
  BY <1>3 DEF ChunkTypeOK, Damage, askVars, taskVars, bounds
<1>4. ASSUME NEW m \in CacheMap, Respawn(m) PROVE ChunkTypeOK'
  <2>1. cached' \in [CacheMap -> [Chunk -> Body \cup {None}]]
    BY <1>4 DEF Respawn, ChunkTypeOK
  <2>2. QED
    BY <1>4, <2>1 DEF ChunkTypeOK, Respawn, askVars, taskVars, bounds
<1>5. CASE UNCHANGED chunkVars
  BY <1>5 DEF ChunkTypeOK, chunkVars, askVars, taskVars, storeVars, bounds
<1>6. QED
  BY <1>1, <1>2, <1>3, <1>4, <1>5 DEF ChunkNext

-----------------------------------------------------------------------------
(* The table *)

\* What an asker or a task does to the table besides Enter, Send and Remove: the
\* asker stays out of "wait", the task goes on from a running one.
LEMMA QuietAsk ==
  ASSUME ChunkInv, NEW r \in Asker, Ask(r) \/ ReadCached(r) \/ Purge(r) \/ Forget(r)
  PROVE  /\ \E l \in {"read", "purge", "forget", "enter", "idle"} : Goto(r, l)
         /\ UNCHANGED <<joined, entry, task, attempt, body, lock>>
BY DEF Ask, ReadCached, Purge, Forget, taskVars, storeVars

Quiet(r) ==
  \/ RequestFails(r) \/ RequestRefused(r) \/ PartialContent(r) \/ FullContent(r)
  \/ Check(r) \/ Exists(r) \/ PutBegin(r) \/ PutEnd(r) \/ PutFails(r) \/ Record(r)
  \/ Acquire(r)

LEMMA QuietTask ==
  ASSUME ChunkInv, NEW r \in Asker, Quiet(r)
  PROVE  /\ task[r] \in Running
         /\ task' = task \/ \E l \in Running \cup {"panicked"} : TaskGoto(r, l)
         /\ UNCHANGED <<at, seen, joined, entry>>
<1> USE DEF Quiet, Running, askVars
<1>1. CASE RequestFails(r) \/ RequestRefused(r) \/ PartialContent(r) \/ FullContent(r)
  BY <1>1 DEF RequestFails, RequestRefused, PartialContent, FullContent, Retry, Deliver, Downloaded, TaskGoto
<1>2. CASE ~ (RequestFails(r) \/ RequestRefused(r) \/ PartialContent(r) \/ FullContent(r))
  BY <1>2 DEF Check, Exists, PutBegin, PutEnd, PutFails, Record, Acquire, Deliver
<1>3. QED
  BY <1>1, <1>2

LEMMA TableStep ==
  ASSUME ChunkInv, [ChunkNext]_chunkVars
  PROVE  TaskHasEntry' /\ WaitsForEntry'
<1> USE NullAssumption DEF TaskHasEntry, WaitsForEntry
<1>0. ChunkTypeOK /\ TaskHasEntry /\ WaitsForEntry
  BY DEF ChunkInv
<1>1. ASSUME NEW r \in Asker, Ask(r) \/ ReadCached(r) \/ Purge(r) \/ Forget(r)
      PROVE  TaskHasEntry' /\ WaitsForEntry'
  BY <1>0, <1>1, QuietAsk DEF ChunkTypeOK, Goto
<1>2. ASSUME NEW r \in Asker, Quiet(r)
      PROVE  TaskHasEntry' /\ WaitsForEntry'
  <2>1. \A q \in Asker : task'[q] # "none" => task[q] # "none"
    BY <1>0, <1>2, QuietTask DEF ChunkTypeOK, TaskGoto, Running
  <2>2. QED
    BY <1>0, <1>2, <2>1, QuietTask
<1>3. ASSUME NEW r \in Asker, Enter(r)
      PROVE  TaskHasEntry' /\ WaitsForEntry'
  <2> DEFINE k == ChunkOf[r]
  <2>1. k \in Chunk /\ \A q \in Asker : ChunkOf[q] \in Chunk
    BY AskersChunk
  <2>2. CASE Spawns(r)
    <3>1. /\ entry[k] = None
          /\ entry' = [entry EXCEPT ![k] = r]
          /\ task' = [task EXCEPT ![r] = "request"]
      BY <1>3, <2>2 DEF Enter, Spawns
    <3>2. entry'[k] = r /\ \A j \in Chunk : j # k => entry'[j] = entry[j]
      BY <1>0, <2>1, <3>1 DEF ChunkTypeOK
    <3>3. \A q \in Asker : q # r => task'[q] = task[q]
      BY <1>0, <3>1 DEF ChunkTypeOK
    <3>4. TaskHasEntry'
      BY <1>0, <2>1, <3>1, <3>2, <3>3
    <3>5. \A q \in Asker : q # r => at'[q] = at[q] /\ joined'[q] = joined[q]
      BY <1>0, <1>3 DEF Enter, Goto, ChunkTypeOK
    <3>6. at'[r] = "wait" => joined'[r] = entry'[k]
      BY <1>0, <1>3 DEF Enter, Goto, ChunkTypeOK
    <3>7. WaitsForEntry'
      BY <1>0, <2>1, <3>1, <3>2, <3>5, <3>6
    <3>8. QED
      BY <3>4, <3>7
  <2>3. CASE ~ Spawns(r)
    <3>1. entry[k] # None /\ UNCHANGED <<entry, task>>
      BY <1>3, <2>3 DEF Enter, Spawns
    <3>2. \A q \in Asker : q # r => at'[q] = at[q] /\ joined'[q] = joined[q]
      BY <1>0, <1>3 DEF Enter, Goto, ChunkTypeOK
    <3>3. at'[r] = "wait" => joined'[r] = entry'[k]
      BY <1>0, <1>3 DEF Enter, Goto, ChunkTypeOK
    <3>4. QED
      BY <1>0, <3>1, <3>2, <3>3
  <2>4. QED
    BY <2>2, <2>3
<1>4. ASSUME NEW r \in Asker, Send(r)
      PROVE  TaskHasEntry' /\ WaitsForEntry'
  <2>1. task[r] = "send" /\ task' = [task EXCEPT ![r] = "remove"] /\ UNCHANGED entry
    BY <1>4 DEF Send, TaskGoto
  <2>2. \A q \in Asker : at'[q] = "wait" => at[q] = "wait" /\ joined'[q] = joined[q]
    BY <1>4 DEF Send, Dismiss
  <2>3. QED
    BY <1>0, <2>1, <2>2 DEF ChunkTypeOK
<1>5. ASSUME NEW r \in Asker, Remove(r)
      PROVE  TaskHasEntry' /\ WaitsForEntry'
  <2> DEFINE k == ChunkOf[r]
  <2>1. k \in Chunk /\ \A q \in Asker : ChunkOf[q] \in Chunk
    BY AskersChunk
  <2>2. /\ task[r] = "remove" /\ task' = [task EXCEPT ![r] = "none"]
        /\ entry' = [entry EXCEPT ![k] = None]
    BY <1>5 DEF Remove, TaskGoto
  <2>3. entry[k] = r
    BY <1>0, <2>2
  <2>4. \A q \in Asker : at'[q] = "wait" =>
          at[q] = "wait" /\ joined'[q] = joined[q] /\ joined[q] # r
    BY <1>5 DEF Remove, Dismiss, Waiting
  <2>5. \A j \in Chunk : j # k => entry'[j] = entry[j]
    BY <1>0, <2>1, <2>2 DEF ChunkTypeOK
  <2>6. TaskHasEntry'
    BY <1>0, <2>1, <2>2, <2>3, <2>5 DEF ChunkTypeOK
  <2>7. WaitsForEntry'
    BY <1>0, <2>1, <2>3, <2>4, <2>5
  <2>8. QED
    BY <2>6, <2>7
<1>6. ASSUME UNCHANGED <<askVars, entry, taskVars>>
      PROVE  TaskHasEntry' /\ WaitsForEntry'
  BY <1>0, <1>6 DEF askVars, taskVars
<1>7. QED
  BY <1>1, <1>2, <1>3, <1>4, <1>5, <1>6
  DEF ChunkNext, AskStep, TaskStep, Quiet, Damage, Respawn, chunkVars

-----------------------------------------------------------------------------
(* The write locks *)

\* The steps of a task up to its request of the lock, and after it has given it up.
Unlocked(r) ==
  \/ RequestFails(r) \/ RequestRefused(r) \/ PartialContent(r) \/ FullContent(r)
  \/ Check(r) \/ Send(r) \/ Remove(r)

LEMMA UnlockedStep ==
  ASSUME ChunkInv, NEW r \in Asker, Unlocked(r)
  PROVE  /\ UNCHANGED <<blob, lock>>
         /\ \A q \in Asker \ {r} : task'[q] = task[q] /\ body'[q] = body[q]
         /\ task'[r] \notin Storing
         /\ task'[r] \in Holding => body'[r] \in Body
<1> USE DEF Unlocked, Storing, Holding, storeVars
<1>1. /\ task \in [Asker -> Running \cup {"none", "panicked"}]
      /\ body \in [Asker -> Body \cup {Mismatch, None}]
      /\ StoresLocked
  BY DEF ChunkInv, ChunkTypeOK
<1>2. ASSUME NEW b, Downloaded(r, b), b \in Body, UNCHANGED storeVars
      PROVE  /\ UNCHANGED <<blob, lock>>
             /\ \A q \in Asker \ {r} : task'[q] = task[q] /\ body'[q] = body[q]
             /\ task'[r] \notin Storing
             /\ task'[r] \in Holding => body'[r] \in Body
  BY <1>1, <1>2 DEF Downloaded, TaskGoto
<1>3. ASSUME Retry(r), UNCHANGED storeVars, task[r] = "request"
      PROVE  /\ UNCHANGED <<blob, lock>>
             /\ \A q \in Asker \ {r} : task'[q] = task[q] /\ body'[q] = body[q]
             /\ task'[r] \notin Holding
  BY <1>1, <1>3 DEF Retry, Deliver, TaskGoto
<1>4. CASE RequestFails(r)
  BY <1>3, <1>4 DEF RequestFails
<1>5. CASE RequestRefused(r)
  BY <1>1, <1>5 DEF RequestRefused, Deliver, TaskGoto
<1>6. CASE PartialContent(r)
  BY <1>2, <1>3, <1>6, AskersChunk DEF PartialContent
<1>7. CASE FullContent(r)
  <2> DEFINE want == Wanted(r)
  <2>1. UNCHANGED storeVars /\ task[r] = "request"
    BY <1>7 DEF FullContent
  <2>2. PICK n \in FileSizes :
          \/ Retry(r)
          \/ Downloaded(r, <<0, n>>)
          \/ n >= want[1] /\ Downloaded(r, <<want[1], Min({want[2], n})>>)
          \/ TaskGoto(r, "panicked") /\ UNCHANGED <<attempt, body>>
    BY <1>7 DEF FullContent
  <2>3. CASE Retry(r)
    BY <1>3, <2>1, <2>3
  <2>4. CASE Downloaded(r, <<0, n>>)
    BY <1>2, <2>1, <2>4, FullBody
  <2>5. CASE n >= want[1] /\ Downloaded(r, <<want[1], Min({want[2], n})>>)
    BY <1>2, <2>1, <2>5, FullBody
  <2>6. CASE TaskGoto(r, "panicked") /\ UNCHANGED <<attempt, body>>
    BY <1>1, <2>1, <2>6 DEF TaskGoto
  <2>7. QED
    BY <2>2, <2>3, <2>4, <2>5, <2>6
<1>8. CASE Check(r)
  BY <1>1, <1>8 DEF Check, Deliver, TaskGoto, StoresLocked
<1>9. CASE Send(r)
  BY <1>1, <1>9 DEF Send, TaskGoto
<1>10. CASE Remove(r)
  BY <1>1, <1>10 DEF Remove, TaskGoto
<1>11. QED
  BY <1>4, <1>5, <1>6, <1>7, <1>8, <1>9, <1>10

LEMMA LockStep ==
  ASSUME ChunkInv, [ChunkNext]_chunkVars
  PROVE  StoresLocked' /\ PutIsFresh'
<1> USE NullAssumption DEF StoresLocked, PutIsFresh, Storing, Holding
<1>0. ChunkTypeOK /\ StoresLocked /\ PutIsFresh
  BY DEF ChunkInv
<1>1. /\ task \in [Asker -> Running \cup {"none", "panicked"}]
      /\ body \in [Asker -> Body \cup {Mismatch, None}]
      /\ blob \in [Body -> {"absent", "partial", "whole"}]
      /\ lock \in [Body -> Asker \cup {None}]
  BY <1>0 DEF ChunkTypeOK
<1>2. ASSUME NEW r \in Asker, Ask(r) \/ ReadCached(r) \/ Purge(r) \/ Forget(r)
      PROVE  StoresLocked' /\ PutIsFresh'
  <2>1. \A s \in Body : blob[s] = "absent" => blob'[s] = "absent"
    BY <1>1, <1>2 DEF Ask, ReadCached, Purge, Forget, storeVars
  <2>2. QED
    BY <1>0, <1>2, <2>1, QuietAsk
<1>3. ASSUME NEW r \in Asker, Enter(r)
      PROVE  StoresLocked' /\ PutIsFresh'
  <2>1. /\ \A q \in Asker : task'[q] \in Holding => task'[q] = task[q]
        /\ UNCHANGED <<body, blob, lock>>
    BY <1>1, <1>3 DEF Enter, storeVars
  <2>2. QED
    BY <1>0, <2>1
<1>4. ASSUME NEW r \in Asker, Unlocked(r)
      PROVE  StoresLocked' /\ PutIsFresh'
  BY <1>0, <1>4, UnlockedStep
<1>5. ASSUME NEW r \in Asker, Acquire(r)
      PROVE  StoresLocked' /\ PutIsFresh'
  BY <1>0, <1>1, <1>5 DEF Acquire, FreeLock, TaskGoto
<1>6. ASSUME NEW r \in Asker, Exists(r)
      PROVE  StoresLocked' /\ PutIsFresh'
  BY <1>0, <1>1, <1>6 DEF Exists, TaskGoto, storeVars
<1>7. ASSUME NEW r \in Asker, PutBegin(r)
      PROVE  StoresLocked' /\ PutIsFresh'
  BY <1>0, <1>1, <1>7 DEF PutBegin, TaskGoto
<1>8. ASSUME NEW r \in Asker, PutEnd(r)
      PROVE  StoresLocked' /\ PutIsFresh'
  BY <1>0, <1>1, <1>8 DEF PutEnd, TaskGoto
<1>9. ASSUME NEW r \in Asker, PutFails(r)
      PROVE  StoresLocked' /\ PutIsFresh'
  BY <1>0, <1>1, <1>9 DEF PutFails, Release, Deliver, TaskGoto
<1>10. ASSUME NEW r \in Asker, Record(r)
       PROVE  StoresLocked' /\ PutIsFresh'
  BY <1>0, <1>1, <1>10 DEF Record, Release, TaskGoto
<1>11. ASSUME NEW s \in Body, Damage(s)
       PROVE  StoresLocked' /\ PutIsFresh'
  BY <1>0, <1>1, <1>11 DEF Damage, taskVars
<1>12. ASSUME UNCHANGED <<taskVars, blob, lock>>
       PROVE  StoresLocked' /\ PutIsFresh'
  BY <1>0, <1>12 DEF taskVars
<1>13. QED
  BY <1>2, <1>3, <1>4, <1>5, <1>6, <1>7, <1>8, <1>9, <1>10, <1>11, <1>12
  DEF ChunkNext, AskStep, TaskStep, Unlocked, Respawn, chunkVars, storeVars

-----------------------------------------------------------------------------
(* What is stored *)

LEMMA SeenStep ==
  ASSUME ChunkInv, [ChunkNext]_chunkVars
  PROVE  HashIsSeen'
<1> USE NullAssumption DEF HashIsSeen
<1>1. /\ at \in [Asker -> {"idle", "read", "purge", "forget", "enter", "wait"}]
      /\ seen \in [Asker -> Body \cup {None}]
      /\ cached \in [CacheMap -> [Chunk -> Body \cup {None}]]
      /\ HashIsSeen
  BY DEF ChunkInv, ChunkTypeOK
<1>2. ASSUME NEW r \in Asker, Ask(r)
      PROVE  HashIsSeen'
  <2>1. cached[MapOf[r]][ChunkOf[r]] \in Body \cup {None}
    BY <1>1, AskersChunk
  <2>2. QED
    BY <1>1, <1>2, <2>1 DEF Ask, Goto
<1>3. ASSUME NEW r \in Asker, AskStep(r)
      PROVE  HashIsSeen'
  BY <1>1, <1>3 DEF AskStep, ReadCached, Purge, Forget, Enter, Goto
<1>4. ASSUME NEW r \in Asker, Quiet(r)
      PROVE  HashIsSeen'
  BY <1>1, <1>4, QuietTask
<1>5. ASSUME NEW r \in Asker, Send(r) \/ Remove(r)
      PROVE  HashIsSeen'
  BY <1>1, <1>5 DEF Send, Remove, Dismiss
<1>6. ASSUME UNCHANGED askVars
      PROVE  HashIsSeen'
  BY <1>1, <1>6 DEF askVars
<1>7. QED
  BY <1>2, <1>3, <1>4, <1>5, <1>6
  DEF ChunkNext, TaskStep, Quiet, Damage, Respawn, chunkVars

LEMMA SoundStep ==
  ASSUME ChunkInv, [ChunkNext]_chunkVars
  PROVE  StoresSound'
<1> USE NullAssumption DEF StoresSound, Sound
<1>0. StoresLocked /\ PutIsFresh /\ StoresSound /\ HashIsSeen
  BY DEF ChunkInv
<1>1. /\ task \in [Asker -> Running \cup {"none", "panicked"}]
      /\ body \in [Asker -> Body \cup {Mismatch, None}]
      /\ blob \in [Body -> {"absent", "partial", "whole"}]
      /\ linked \in [Chunk -> Body \cup {None}]
  BY DEF ChunkInv, ChunkTypeOK
<1>2. ASSUME NEW r \in Asker, Ask(r) \/ ReadCached(r) \/ Forget(r)
      PROVE  StoresSound'
  <2>1. UNCHANGED <<task, body, linked, blob, spoiled>>
    BY <1>2 DEF Ask, ReadCached, Forget, taskVars, storeVars, bounds
  <2>2. QED
    BY <1>0, <2>1
<1>3. ASSUME NEW r \in Asker, Purge(r)
      PROVE  StoresSound'
  <2>1. seen[r] \in Body
    BY <1>0, <1>3 DEF Purge, HashIsSeen
  <2>2. QED
    BY <1>0, <1>1, <1>3, <2>1 DEF Purge, taskVars
<1>4. ASSUME NEW r \in Asker, Enter(r)
      PROVE  StoresSound'
  <2>1. /\ \A q \in Asker : task'[q] \in Storing => task'[q] = task[q]
        /\ UNCHANGED <<body, linked, blob, spoiled>>
    BY <1>1, <1>4 DEF Enter, storeVars, bounds, Storing
  <2>2. QED
    BY <1>0, <2>1 DEF Storing
<1>5. ASSUME NEW r \in Asker, Unlocked(r)
      PROVE  StoresSound'
  <2>1. UNCHANGED <<linked, spoiled>>
    BY <1>5 DEF Unlocked, RequestFails, RequestRefused, PartialContent, FullContent, Check,
                Send, Remove, storeVars, bounds
  <2>2. QED
    BY <1>0, <1>5, <2>1, UnlockedStep DEF Storing
<1>6. ASSUME NEW r \in Asker, Acquire(r) \/ PutFails(r)
      PROVE  StoresSound'
  BY <1>0, <1>1, <1>6 DEF Acquire, PutFails, Deliver, TaskGoto, bounds
<1>7. ASSUME NEW r \in Asker, Exists(r)
      PROVE  StoresSound'
  <2>1. body[r] \in Body /\ lock[body[r]] = r
    BY <1>0, <1>7 DEF Exists, StoresLocked, Holding, Storing
  <2>2. ~ Writing(body[r])
    BY <1>0, <1>7, <2>1 DEF Exists, Writing, StoresLocked, Holding, Storing
  <2>3. blob[body[r]] # "absent" => blob[body[r]] = "whole" \/ body[r] \in spoiled'
    BY <1>1, <1>7, <2>1, <2>2 DEF Exists
  <2>4. spoiled \subseteq spoiled' /\ UNCHANGED <<body, linked, blob>>
    BY <1>7 DEF Exists, storeVars
  <2>5. /\ \A q \in Asker : q # r => task'[q] = task[q]
        /\ \/ task'[r] = "record" /\ blob[body[r]] # "absent"
           \/ task'[r] = "put"
    BY <1>1, <1>7 DEF Exists, TaskGoto
  <2>6. QED
    BY <1>0, <2>3, <2>4, <2>5
<1>8. ASSUME NEW r \in Asker, PutBegin(r)
      PROVE  StoresSound'
  <2>1. body[r] \in Body /\ blob[body[r]] = "absent"
    BY <1>0, <1>8 DEF PutBegin, StoresLocked, Holding, Storing, PutIsFresh
  <2>2. QED
    BY <1>0, <1>1, <1>8, <2>1 DEF PutBegin, TaskGoto, bounds
<1>9. ASSUME NEW r \in Asker, PutEnd(r)
      PROVE  StoresSound'
  <2>1. body[r] \in Body /\ \A q \in Asker : task[q] = "write" /\ q # r => body[q] # body[r]
    BY <1>0, <1>9 DEF PutEnd, StoresLocked, Holding, Storing
  <2>2. /\ blob' = [blob EXCEPT ![body[r]] = IF @ = "partial" THEN "whole" ELSE @]
        /\ spoiled' = IF blob[body[r]] = "partial" THEN spoiled \ {body[r]} ELSE spoiled
        /\ UNCHANGED <<body, linked>>
    BY <1>9 DEF PutEnd
  <2>3. /\ blob'[body[r]] = "whole" \/ body[r] \in spoiled'
        /\ \A s \in Body : s # body[r] => blob'[s] = blob[s] /\ (s \in spoiled' <=> s \in spoiled)
    BY <1>0, <1>1, <1>9, <2>1, <2>2 DEF PutEnd
  <2>4. \A q \in Asker : task[q] \in Storing => body[q] \in Body
    BY <1>0 DEF StoresLocked, Holding
  <2>5. /\ \A q \in Asker : q # r => task'[q] = task[q]
        /\ task'[r] = "record"
    BY <1>1, <1>9 DEF PutEnd, TaskGoto
  <2>6. \A q \in Asker : task'[q] = "record" => Sound(body[q])'
    BY <1>0, <2>2, <2>3, <2>4, <2>5 DEF Storing
  <2>7. \A q \in Asker : task'[q] = "write" => (blob[body[q]] = "partial" \/ body[q] \in spoiled)'
    BY <1>0, <2>1, <2>2, <2>3, <2>4, <2>5 DEF Storing
  <2>8. \A k \in Chunk : linked'[k] # None => Sound(linked[k])'
    BY <1>0, <1>1, <2>2, <2>3
  <2>9. QED
    BY <2>6, <2>7, <2>8
<1>10. ASSUME NEW r \in Asker, Record(r)
       PROVE  StoresSound'
  BY <1>0, <1>1, <1>10 DEF Record, TaskGoto, bounds
<1>11. ASSUME NEW s \in Body, Damage(s)
       PROVE  StoresSound'
  BY <1>0, <1>1, <1>11 DEF Damage, taskVars
<1>12. ASSUME UNCHANGED <<taskVars, linked, blob, spoiled>>
       PROVE  StoresSound'
  BY <1>0, <1>12 DEF taskVars
<1>13. QED
  BY <1>2, <1>3, <1>4, <1>5, <1>6, <1>7, <1>8, <1>9, <1>10, <1>11, <1>12
  DEF ChunkNext, AskStep, TaskStep, Unlocked, Respawn, chunkVars, storeVars, bounds

-----------------------------------------------------------------------------
(* The expected hash *)

Expected(r) == cached[MapOf[r]][ChunkOf[r]]

\* The conjuncts of NothingExpected for one asker.
Clear(r) ==
  /\ at[r] \in {"read", "purge", "forget", "enter"} => task[r] = "none"
  /\ at[r] = "enter" \/ task[r] \in {"request", "check"} => Expected(r) = None
  /\ body[r] # Mismatch

\* What another asker does leaves an asker that is alone its hash, its task and what
\* that downloaded; a wait of it may end.
LEMMA OthersStep ==
  ASSUME ChunkTypeOK, NEW r \in Asker, Alone(r), Clear(r),
         NEW q \in Asker \ {r}, Ask(q) \/ AskStep(q) \/ TaskStep(q) \/ Acquire(q)
  PROVE  Clear(r)'
<1>1. /\ at \in [Asker -> {"idle", "read", "purge", "forget", "enter", "wait"}]
      /\ task \in [Asker -> Running \cup {"none", "panicked"}]
      /\ body \in [Asker -> Body \cup {Mismatch, None}]
      /\ cached \in [CacheMap -> [Chunk -> Body \cup {None}]]
  BY DEF ChunkTypeOK
<1>2. \A p \in Asker : MapOf[p] \in CacheMap /\ ChunkOf[p] \in Chunk
  BY AskersChunk
<1>3. /\ task'[r] = task[r] /\ body'[r] = body[r] /\ Expected(r)' = Expected(r)
      /\ at'[r] = at[r] \/ at'[r] = "idle"
  <2>1. CASE Ask(q) \/ ReadCached(q) \/ Purge(q) \/ Enter(q)
    BY <1>1, <2>1 DEF Ask, ReadCached, Purge, Enter, Goto, taskVars, storeVars, Expected
  <2>2. CASE Forget(q)
    BY <1>1, <1>2, <2>2 DEF Forget, Goto, taskVars, Expected, Alone
  <2>3. CASE RequestFails(q) \/ RequestRefused(q) \/ PartialContent(q) \/ FullContent(q)
    BY <1>1, <2>3 DEF RequestFails, RequestRefused, PartialContent, FullContent, Retry, Deliver,
                      Downloaded, TaskGoto, askVars, storeVars, Expected
  <2>4. CASE Check(q) \/ Exists(q) \/ PutBegin(q) \/ PutEnd(q) \/ PutFails(q) \/ Acquire(q)
    BY <1>1, <2>4 DEF Check, Exists, PutBegin, PutEnd, PutFails, Acquire, Deliver, TaskGoto,
                      askVars, storeVars, Expected
  <2>5. CASE Record(q)
    BY <1>1, <1>2, <2>5 DEF Record, TaskGoto, askVars, Expected, Alone
  <2>6. CASE Send(q) \/ Remove(q)
    BY <1>1, <2>6 DEF Send, Remove, Dismiss, TaskGoto, storeVars, Expected
  <2>7. QED
    BY <2>1, <2>2, <2>3, <2>4, <2>5, <2>6 DEF AskStep, TaskStep
<1>4. QED
  BY <1>3 DEF Clear

LEMMA OwnStep ==
  ASSUME ChunkInv, NEW r \in Asker, Clear(r),
         Ask(r) \/ AskStep(r) \/ TaskStep(r) \/ Acquire(r)
  PROVE  Clear(r)'
<1> USE NullAssumption DEF Clear
<1>1. /\ at \in [Asker -> {"idle", "read", "purge", "forget", "enter", "wait"}]
      /\ task \in [Asker -> Running \cup {"none", "panicked"}]
      /\ body \in [Asker -> Body \cup {Mismatch, None}]
      /\ cached \in [CacheMap -> [Chunk -> Body \cup {None}]]
      /\ StoresLocked
      /\ seen \in [Asker -> Body \cup {None}]
  BY DEF ChunkInv, ChunkTypeOK
<1>2. MapOf[r] \in CacheMap /\ ChunkOf[r] \in Chunk
  BY AskersChunk
<1>3. CASE Ask(r)
  BY <1>1, <1>3 DEF Ask, Goto, taskVars, storeVars, Expected
<1>4. CASE ReadCached(r)
  BY <1>1, <1>4 DEF ReadCached, Goto, taskVars, storeVars, Expected
<1>5. CASE Purge(r)
  BY <1>1, <1>5 DEF Purge, Goto, taskVars, Expected
<1>6. CASE Forget(r)
  <2>1. Expected(r)' = None
    BY <1>1, <1>2, <1>6 DEF Forget, Expected
  <2>2. QED
    BY <1>1, <1>6, <2>1 DEF Forget, Goto, taskVars
<1>7. CASE Enter(r)
  BY <1>1, <1>7 DEF Enter, Goto, storeVars, Expected
<1>8. ASSUME Retry(r), task[r] = "request", UNCHANGED <<askVars, storeVars>>
      PROVE  Clear(r)'
  BY <1>1, <1>8 DEF Retry, Deliver, TaskGoto, askVars, storeVars, Expected
<1>9. ASSUME NEW b \in Body, Downloaded(r, b), task[r] = "request",
             UNCHANGED <<askVars, storeVars>>
      PROVE  Clear(r)'
  BY <1>1, <1>9 DEF Downloaded, TaskGoto, askVars, storeVars, Expected
<1>10. CASE RequestFails(r)
  BY <1>8, <1>10 DEF RequestFails
<1>11. CASE RequestRefused(r)
  BY <1>1, <1>11 DEF RequestRefused, Deliver, TaskGoto, askVars, storeVars, Expected
<1>12. CASE PartialContent(r)
  BY <1>8, <1>9, <1>12, AskersChunk DEF PartialContent
<1>13. CASE FullContent(r)
  <2> DEFINE want == Wanted(r)
  <2>1. UNCHANGED <<askVars, storeVars>> /\ task[r] = "request"
    BY <1>13 DEF FullContent
  <2>2. PICK n \in FileSizes :
          \/ Retry(r)
          \/ Downloaded(r, <<0, n>>)
          \/ n >= want[1] /\ Downloaded(r, <<want[1], Min({want[2], n})>>)
          \/ TaskGoto(r, "panicked") /\ UNCHANGED <<attempt, body>>
    BY <1>13 DEF FullContent
  <2>3. CASE Retry(r)
    BY <1>8, <2>1, <2>3
  <2>4. CASE Downloaded(r, <<0, n>>)
    BY <1>9, <2>1, <2>4, FullBody
  <2>5. CASE n >= want[1] /\ Downloaded(r, <<want[1], Min({want[2], n})>>)
    BY <1>9, <2>1, <2>5, FullBody
  <2>6. CASE TaskGoto(r, "panicked") /\ UNCHANGED <<attempt, body>>
    BY <1>1, <2>1, <2>6 DEF TaskGoto, askVars, storeVars, Expected
  <2>7. QED
    BY <2>2, <2>3, <2>4, <2>5, <2>6
<1>14. CASE Check(r)
  BY <1>1, <1>14 DEF Check, TaskGoto, askVars, storeVars, Expected
<1>15. CASE Exists(r) \/ PutBegin(r) \/ PutEnd(r) \/ PutFails(r) \/ Acquire(r)
  BY <1>1, <1>15 DEF Exists, PutBegin, PutEnd, PutFails, Acquire, Deliver, TaskGoto,
                     askVars, storeVars, Expected
<1>16. CASE Record(r)
  BY <1>1, <1>16 DEF Record, TaskGoto, askVars
<1>17. CASE Send(r) \/ Remove(r)
  BY <1>1, <1>17 DEF Send, Remove, Dismiss, TaskGoto, storeVars, Expected
<1>18. QED
  BY <1>3, <1>4, <1>5, <1>6, <1>7, <1>10, <1>11, <1>12, <1>13, <1>14, <1>15, <1>16, <1>17
  DEF AskStep, TaskStep

LEMMA ExpectedStep ==
  ASSUME ChunkInv, [ChunkNext]_chunkVars
  PROVE  NothingExpected'
<1> SUFFICES ASSUME NEW r \in Asker, Alone(r)
             PROVE  Clear(r)'
  BY DEF NothingExpected, Clear, Expected, Alone
<1>1. ChunkTypeOK /\ Clear(r)
  BY DEF ChunkInv, NothingExpected, Clear, Expected
<1>2. ASSUME NEW q \in Asker, Ask(q) \/ AskStep(q) \/ TaskStep(q) \/ Acquire(q)
      PROVE  Clear(r)'
  <2>1. CASE q = r
    BY <1>1, <1>2, <2>1, OwnStep
  <2>2. CASE q # r
    BY <1>1, <1>2, <2>2, OthersStep
  <2>3. QED
    BY <2>1, <2>2
<1>3. ASSUME NEW m \in CacheMap, Respawn(m)
      PROVE  Clear(r)'
  <2>1. UNCHANGED <<at, task, body>>
    BY <1>3 DEF Respawn, askVars, taskVars
  <2>2. CASE MapOf[r] = m
    BY <1>1, <1>3, <2>1, <2>2 DEF Respawn, Clear
  <2>3. CASE MapOf[r] # m
    <3>1. Expected(r)' = Expected(r)
      BY <1>1, <1>3, <2>3 DEF Respawn, Expected, ChunkTypeOK
    <3>2. QED
      BY <1>1, <2>1, <3>1 DEF Clear
  <2>4. QED
    BY <2>2, <2>3
<1>4. ASSUME UNCHANGED <<at, task, body, cached>>
      PROVE  Clear(r)'
  BY <1>1, <1>4 DEF Clear, Expected
<1>5. QED
  BY <1>2, <1>3, <1>4
  DEF ChunkNext, Damage, chunkVars, askVars, taskVars, storeVars

-----------------------------------------------------------------------------
(* The theorems *)

LEMMA ChunkInitInv == ChunkInit => ChunkInv
<1> SUFFICES ASSUME ChunkInit PROVE ChunkInv
  OBVIOUS
<1>1. \A r \in Asker : MapOf[r] \in CacheMap /\ ChunkOf[r] \in Chunk
  BY AskersChunk
<1>2. NothingExpected
  BY <1>1, NullAssumption DEF ChunkInit, NothingExpected
<1>3. TaskHasEntry /\ WaitsForEntry /\ StoresLocked /\ PutIsFresh
  BY DEF ChunkInit, TaskHasEntry, WaitsForEntry, StoresLocked, Holding, Storing, PutIsFresh
<1>4. HashIsSeen /\ StoresSound
  BY DEF ChunkInit, HashIsSeen, StoresSound
<1>5. QED
  BY <1>2, <1>3, <1>4, TypeInit DEF ChunkInv

THEOREM ChunkInvariant == ChunkSpec => []ChunkInv
<1>1. ChunkInv /\ [ChunkNext]_chunkVars => ChunkInv'
  BY TypeStep, TableStep, SeenStep, LockStep, SoundStep, ExpectedStep DEF ChunkInv
<1>2. QED
  BY ChunkInitInv, <1>1, PTL DEF ChunkSpec

\* The state of callers, table, tasks and store is well typed; a body is always an
\* interval of the file, and no task goes past its last attempt (fetch_chunk).
THEOREM ChunkTypesCorrect == ChunkSpec => []ChunkTypeOK
<1>1. ChunkInv => ChunkTypeOK
  BY DEF ChunkInv
<1>2. QED
  BY <1>1, ChunkInvariant, PTL

\* At most one download of a chunk runs, whoever asks for it and however often
\* (the atomic entry of SessionTable::subscribe).
THEOREM DownloadsAreSingle == ChunkSpec => []OneDownload
<1>1. ChunkInv => OneDownload
  BY DEF ChunkInv, TaskHasEntry, OneDownload, Running
<1>2. QED
  BY <1>1, ChunkInvariant, PTL

\* Whoever waits has joined the download that the table has for the chunk: the send
\* or the removal that ends it finds every waiter (the task in subscribe).
THEOREM WaitersHaveEntry == ChunkSpec => []WaitsForEntry
<1>1. ChunkInv => WaitsForEntry
  BY DEF ChunkInv
<1>2. QED
  BY <1>1, ChunkInvariant, PTL

\* No blob that is there is written over, whatever is purged or damaged meanwhile
\* (write_locks in fetch_chunk).
THEOREM PutsAreFresh == ChunkSpec => []PutIsFresh
<1>1. ChunkInv => PutIsFresh
  BY DEF ChunkInv
<1>2. QED
  BY <1>1, ChunkInvariant, PTL

\* Whatever is linked is stored whole, for any interleaving of tasks that store the same
\* content, unless a damage, a deletion by hash or a short file that exists() took for
\* stored is on record (fetch_chunk, read_cached_chunk).
THEOREM LinkedAreStored == ChunkSpec => []StoredIsWhole
<1>1. ChunkInv => StoredIsWhole
  BY DEF ChunkInv, StoresSound, Sound, StoredIsWhole
<1>2. QED
  BY <1>1, ChunkInvariant, PTL

\* A caller that is alone with its chunk in its actor is never refused what it has
\* downloaded (subscribe clears cached_chunks, fetch_chunk compares with it).
THEOREM RefetchesRecover == ChunkSpec => []RefetchRecovers
<1>1. ChunkInv => RefetchRecovers
  BY DEF ChunkInv, NothingExpected, RefetchRecovers, Alone
<1>2. QED
  BY <1>1, ChunkInvariant, PTL
=============================================================================
