------------------------- MODULE MetadataReconcile -------------------------
(***************************************************************************)
(* How a request brings the metadata row of a file up to date with         *)
(* upstream (src/server.rs, src/service.rs): a HEAD goes through           *)
(* reconcile_metadata_singleflight, where the first request of a key leads *)
(* and the others wait for its result.  This is the component as the HEADs *)
(* alone use it; FileProxy adds the GETs, which reconcile without it.      *)
(*                                                                         *)
(* reconcile_fetched_metadata never awaits, but it takes the database lock *)
(* once per statement: requests on other threads run between its steps.    *)
(* A request can be dropped (its client went away) only where it awaits.   *)
(*                                                                         *)
(* Upstream moves through numbered versions of a file.  A row remembers    *)
(* the version its total_size came from and the version its headers (etag, *)
(* commit, content type) came from.                                        *)
(***************************************************************************)
EXTENDS Naturals

CONSTANTS
  Request,     \* requests: each may be made again once it is answered
  Head,        \* those whose method is HEAD
  Key,         \* (source, cache_name)
  KeyOf,       \* the key each request asks for
  MaxVersion,  \* bound on the versions upstream goes through
  EtagOf,      \* the etag upstream sends with each version
  NoEtag,      \* no ETag header
  Normal,      \* an etag without its W/ prefix and quotes
  NoRow        \* no files row

Version == 1 .. MaxVersion

ASSUME ReconcileAssumption ==
  /\ MaxVersion \in Nat \ {0}
  /\ Head \subseteq Request
  /\ KeyOf \in [Request -> Key]
  /\ \A v \in Version : EtagOf[v] # NoEtag => EtagOf[v] \in DOMAIN Normal
  /\ NoRow \notin [size : Version, headers : Version \cup {0}]

VARIABLES
  row,       \* the files row of each key
  upstream,  \* the version upstream has of each key
  leaders,   \* the keys of MetadataInflight.leaders
  waiters,   \* the requests whose senders the entry of a key holds
  pc,        \* what each request does next
  probed,    \* the version its probe, or its leader's, returned; 0 before
  outcome    \* the MetadataReconcileOutcome of a HEAD

reconcileVars == <<row, upstream, leaders, waiters, pc, probed, outcome>>

Row == [size : Version, headers : Version \cup {0}]
Etag(w) == IF w.headers = 0 THEN NoEtag ELSE EtagOf[w.headers]

Leading == {"probe", "lookup", "delete", "ensure", "add", "headers", "publish"}
Leader(k) == {r \in Head : KeyOf[r] = k /\ pc[r] \in Leading}

\* An entry nobody is going to remove.
Stuck(k) == k \in leaders /\ Leader(k) = {}

Init ==
  /\ row = [k \in Key |-> NoRow]
  /\ upstream = [k \in Key |-> 1]
  /\ leaders = {}
  /\ waiters = [k \in Key |-> {}]
  /\ pc = [r \in Request |-> "idle"]
  /\ probed = [r \in Request |-> 0]
  /\ outcome = [r \in Request |-> "none"]

Goto(r, label) == pc' = [pc EXCEPT ![r] = label]

\* The request is over, one way or another.
Finish(r) ==
  /\ Goto(r, "idle")
  /\ probed' = [probed EXCEPT ![r] = 0]
  /\ outcome' = [outcome EXCEPT ![r] = "none"]

-----------------------------------------------------------------------------
(* Entering *)

Arrive(r, label) ==
  /\ pc[r] = "idle"
  /\ Goto(r, label)
  /\ UNCHANGED <<row, upstream, probed, outcome>>

\* Mutant: the entry of the key is not made, every request leads.
LeadUnregistered(r) ==
  /\ r \in Head
  /\ Arrive(r, "probe")
  /\ UNCHANGED <<leaders, waiters>>

\* No entry for the key: the request becomes the leader.
Lead(r) ==
  /\ r \in Head
  /\ KeyOf[r] \notin leaders
  /\ Arrive(r, "probe")
  /\ leaders' = leaders \cup {KeyOf[r]}
  /\ UNCHANGED waiters

\* An entry for the key: the request leaves its sender there and waits.
Wait(r) ==
  /\ r \in Head
  /\ KeyOf[r] \in leaders
  /\ Arrive(r, "wait")
  /\ waiters' = [waiters EXCEPT ![KeyOf[r]] = @ \cup {r}]
  /\ UNCHANGED leaders

-----------------------------------------------------------------------------
(* probe_file_metadata *)

ProbeOk(r) ==
  /\ pc[r] = "probe"
  /\ probed' = [probed EXCEPT ![r] = upstream[KeyOf[r]]]
  /\ Goto(r, "lookup")
  /\ UNCHANGED <<row, upstream, leaders, waiters, outcome>>

\* Upstream answered with a failure: a leader has it forwarded by everyone, a
\* GET forwards it.
ProbeFailure(r) ==
  /\ pc[r] = "probe"
  /\ IF r \in Head
     THEN /\ Goto(r, "publish")
          /\ outcome' = [outcome EXCEPT ![r] = "forward"]
          /\ UNCHANGED probed
     ELSE Finish(r)
  /\ UNCHANGED <<row, upstream, leaders, waiters>>

\* No answer, or no usable size: the `?` leaves the function, and leaves the
\* leader's entry in the table.
ProbeError(r) ==
  /\ pc[r] = "probe"
  /\ Finish(r)
  /\ UNCHANGED <<row, upstream, leaders, waiters>>

-----------------------------------------------------------------------------
(* reconcile_fetched_metadata, one action per statement on the database *)

Continue(r, label) ==
  /\ Goto(r, label)
  /\ UNCHANGED <<upstream, leaders, waiters, probed, outcome>>

\* etags_equivalent
Equivalent(a, b) ==
  \/ a = NoEtag /\ b = NoEtag
  \/ a # NoEtag /\ b # NoEtag /\ Normal[a] = Normal[b]

\* Mutant: only a missing etag makes a row outdated.
OutdatedIfUnknown(w, v) ==
  \/ Etag(w) = NoEtag
  \/ EtagOf[v] = NoEtag

\* should_delete
Outdated(w, v) ==
  \/ Etag(w) = NoEtag
  \/ EtagOf[v] = NoEtag
  \/ ~ Equivalent(Etag(w), EtagOf[v])

\* The first get_file_by_name.
Lookup(r) ==
  LET w == row[KeyOf[r]] IN
  /\ pc[r] = "lookup"
  /\ Continue(r, IF w # NoRow /\ Outdated(w, probed[r]) THEN "delete" ELSE "ensure")
  /\ UNCHANGED row

\* delete_file by name: whatever row is there now.
Delete(r) ==
  /\ pc[r] = "delete"
  /\ row' = [row EXCEPT ![KeyOf[r]] = NoRow]
  /\ Continue(r, "ensure")

\* The second get_file_by_name.
Ensure(r) ==
  /\ pc[r] = "ensure"
  /\ Continue(r, IF row[KeyOf[r]] = NoRow THEN "add" ELSE "headers")
  /\ UNCHANGED row

\* add_file: the size is upstream's, the headers are still NULL.
Add(r) ==
  /\ pc[r] = "add"
  /\ row[KeyOf[r]] = NoRow
  /\ row' = [row EXCEPT ![KeyOf[r]] = [size |-> probed[r], headers |-> 0]]
  /\ Continue(r, "headers")

\* Once its headers are in, a leader publishes and a GET opens the row (see
\* FileProxy).
AfterHeaders(r) ==
  /\ Goto(r, IF r \in Head THEN "publish" ELSE "open")
  /\ outcome' = [outcome EXCEPT ![r] = IF r \in Head THEN "ready" ELSE @]
  /\ UNCHANGED <<upstream, leaders, waiters, probed>>

\* Mutant: the headers of a row that was kept are not refreshed.
HeadersOfNewRow(r) ==
  LET w == row[KeyOf[r]] IN
  /\ pc[r] = "headers"
  /\ row' = IF w # NoRow /\ w.headers = 0
            THEN [row EXCEPT ![KeyOf[r]].headers = probed[r]]
            ELSE row
  /\ AfterHeaders(r)

\* set_file_headers: an UPDATE by name, which may find no row.
SetFileHeaders(k, v) ==
  row' = IF row[k] = NoRow THEN row ELSE [row EXCEPT ![k].headers = v]

\* Then touch_repo, and the row is up to date.
Headers(r) ==
  /\ pc[r] = "headers"
  /\ SetFileHeaders(KeyOf[r], probed[r])
  /\ AfterHeaders(r)

\* Any statement can fail, add_file's for certain when another request added
\* the row first (UNIQUE): the `?` leaves the leader's entry behind.
DatabaseError(r) ==
  /\ pc[r] \in {"lookup", "delete", "ensure", "add", "headers"}
  /\ Finish(r)
  /\ UNCHANGED <<row, upstream, leaders, waiters>>

-----------------------------------------------------------------------------
(* Answering *)

\* Mutant: the senders are dropped with the entry.
ToldSelf(r) == {r}

\* Who learns the result of a flight: the leader and its waiters.
Told(r) == waiters[KeyOf[r]] \cup {r}

\* Mutant: the waiters are woken with nothing.
PublishNothing(r) ==
  /\ pc[r] = "publish"
  /\ leaders' = leaders \ {KeyOf[r]}
  /\ waiters' = [waiters EXCEPT ![KeyOf[r]] = {}]
  /\ pc' = [q \in Request |-> IF q \in Told(r) THEN "answer" ELSE pc[q]]
  /\ UNCHANGED <<row, upstream, probed, outcome>>

\* The leader takes the entry out and sends its result to the waiters.
Publish(r) ==
  /\ pc[r] = "publish"
  /\ leaders' = leaders \ {KeyOf[r]}
  /\ waiters' = [waiters EXCEPT ![KeyOf[r]] = {}]
  /\ pc' = [q \in Request |-> IF q \in Told(r) THEN "answer" ELSE pc[q]]
  /\ outcome' = [q \in Request |-> IF q \in Told(r) THEN outcome[r] ELSE outcome[q]]
  /\ probed' = [q \in Request |-> IF q \in Told(r) THEN probed[r] ELSE probed[q]]
  /\ UNCHANGED <<row, upstream>>

\* A HEAD forwards the failure or answers with the row, an error if it is gone.
Answer(r) ==
  /\ pc[r] = "answer"
  /\ Finish(r)
  /\ UNCHANGED <<row, upstream, leaders, waiters>>

\* The client went away and the future is dropped at an await: the probe, the
\* waiters' channel, or the lock of the table.  A dropped receiver makes the
\* leader's send to it a no-op; a dropped leader leaves its entry behind.
Cancel(r) ==
  /\ pc[r] \in {"probe", "wait", "publish"}
  /\ Finish(r)
  /\ waiters' = [waiters EXCEPT ![KeyOf[r]] = @ \ {r}]
  /\ UNCHANGED <<row, upstream, leaders>>

\* A new version is pushed.
UpstreamMoves(k) ==
  /\ upstream[k] < MaxVersion
  /\ upstream' = [upstream EXCEPT ![k] = @ + 1]
  /\ UNCHANGED <<row, leaders, waiters, pc, probed, outcome>>

Reconcile(r) == Lookup(r) \/ Delete(r) \/ Ensure(r) \/ Add(r) \/ Headers(r)
Probe(r) == ProbeOk(r) \/ ProbeFailure(r) \/ ProbeError(r)
Step(r) == Probe(r) \/ Reconcile(r) \/ DatabaseError(r) \/ Publish(r) \/ Answer(r)

Next ==
  \/ \E r \in Head : Lead(r) \/ Wait(r) \/ Step(r) \/ Cancel(r)
  \/ \E k \in Key : UpstreamMoves(k)

Spec == Init /\ [][Next]_reconcileVars

\* The probes carry timeouts (hf.rs, main.rs) and the rest is local, so every
\* request that can take a step takes one.
Fairness == \A r \in Head : WF_reconcileVars(Step(r))
FairSpec == Spec /\ Fairness

-----------------------------------------------------------------------------
(* Properties *)

TypeOK ==
  /\ row \in [Key -> Row \cup {NoRow}]
  /\ upstream \in [Key -> Version]
  /\ leaders \subseteq Key
  /\ waiters \in [Key -> SUBSET Head]
  /\ pc \in [Request -> Leading \cup {"idle", "wait", "answer"}]
  /\ probed \in [Request -> Version \cup {0}]
  /\ outcome \in [Request -> {"none", "ready", "forward"}]
  /\ \A r \in Head : pc[r] \in {"publish", "answer"} => outcome[r] # "none"

\* The HEADs of one file share one probe and one reconcile: at most one request
\* leads a key, and it is registered for as long as it does
\* (reconcile_metadata_singleflight).
OneLeader ==
  \A k \in Key : Leader(k) # {} => k \in leaders /\ \E r \in Head : Leader(k) = {r}

\* Every waiter is in the list of its key's flight, where the leader that
\* removes the entry will find it: no request waits for a flight that is over.
NoWaiterLost ==
  \A r \in Request : pc[r] = "wait" =>
    KeyOf[r] \in leaders /\ r \in waiters[KeyOf[r]]

\* The size and the headers of a row are of one content: a row whose etag
\* changes is deleted and made again (reconcile_fetched_metadata's cases).
RowOfOneVersion ==
  \A k \in Key : row[k] # NoRow /\ Etag(row[k]) # NoEtag =>
    Equivalent(Etag(row[k]), EtagOf[row[k].size])

\* Every HEAD of a flight that ended well answers with headers no older than its
\* leader fetched, unless a later flight is just rebuilding the row: a row whose
\* etag did not change is refreshed all the same, which is what keeps an old
\* x_repo_commit from surviving.
FreshAnswer ==
  \A r \in Head : pc[r] = "answer" /\ outcome[r] = "ready" =>
    LET w == row[KeyOf[r]] IN
    w # NoRow /\ w.headers # 0 => w.headers >= probed[r]

\* Headers never go back to an older version of upstream's.
HeadersMoveForward ==
  [][\A k \in Key :
       row[k] # NoRow /\ row'[k] # NoRow /\ row'[k].headers # 0
         => row'[k].headers >= row[k].headers]_reconcileVars

\* The entry of a key belongs to a request that will remove it.  The code
\* breaks this: a leader that fails on a `?` or is dropped leaves it behind.
NoStuckKey == \A k \in Key : ~ Stuck(k)

\* A waiter is released, unless the leader of its flight gave up.
WaiterReleased ==
  \A r \in Head : pc[r] = "wait" ~> (pc[r] # "wait" \/ Stuck(KeyOf[r]))
=============================================================================
