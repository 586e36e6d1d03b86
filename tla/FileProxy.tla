----------------------------- MODULE FileProxy -----------------------------
(***************************************************************************)
(* file_proxy_inner (src/server.rs): HEAD requests through the singleflight*)
(* of MetadataReconcile, and GET requests, which serve a complete file from*)
(* the cache after validating its etag, answer 304, or reconcile the row on*)
(* their own and stream it.  All of them work on the same rows, and so do  *)
(* the sessions that complete a file and the operators and evictions that  *)
(* delete one.                                                             *)
(***************************************************************************)
EXTENDS MetadataReconcile

CONSTANT
  Untyped      \* the versions upstream sends no Content-Type with

ASSUME UntypedAssumption == Untyped \subseteq Version

VARIABLES
  complete,   \* the keys whose row has all its chunks
  cached,     \* each GET's copy of the row (cached_file), NoRow for none
  asks,       \* its If-None-Match names the etag of that copy
  verdict     \* what validate_file_etag told it

proxyVars ==
  <<row, upstream, leaders, waiters, pc, probed, outcome,
    complete, cached, asks, verdict>>
getVars == <<cached, asks, verdict>>

Get == Request \ Head

ProxyInit ==
  /\ Init
  /\ complete = {}
  /\ cached = [r \in Request |-> NoRow]
  /\ asks = [r \in Request |-> FALSE]
  /\ verdict = [r \in Request |-> "none"]

\* Mutant: the links of a deleted row stay.
KeepLinks == complete' = complete

\* The chunk links go with a row, and a new row has none.
KeepComplete == complete' = {k \in complete : row'[k] # NoRow}

\* What the GET knew of the cache is behind it.
Forget(r) ==
  /\ cached' = [cached EXCEPT ![r] = NoRow]
  /\ asks' = [asks EXCEPT ![r] = FALSE]
  /\ verdict' = [verdict EXCEPT ![r] = "none"]

-----------------------------------------------------------------------------
(* GET: the cache side *)

\* cached_etag: what there is to validate and to compare If-None-Match with.
CachedEtag(r) == IF cached[r] = NoRow THEN NoEtag ELSE Etag(cached[r])

\* get_complete_file: the row, once the sizes of its links add up to total_size.
CompleteFile(k) == IF k \in complete THEN row[k] ELSE NoRow

\* A copy whose size the range starts past (range_stale) is of no use below, like
\* none.
Load(r) ==
  /\ pc[r] = "idle"
  /\ \E rangeStale \in BOOLEAN :
       cached' = [cached EXCEPT ![r] =
         IF rangeStale THEN NoRow ELSE CompleteFile(KeyOf[r])]
  /\ \E named \in BOOLEAN :
       asks' = [asks EXCEPT ![r] = named /\ CachedEtag(r)' # NoEtag]
  /\ UNCHANGED verdict
  /\ Goto(r, IF CachedEtag(r)' = NoEtag THEN "decide" ELSE "validate")
  /\ UNCHANGED <<row, upstream, leaders, waiters, probed, outcome, complete>>

\* The comparison of validate_file_etag: no upstream etag matches anything.
Matched(e, v) == EtagOf[v] = NoEtag \/ EtagOf[v] = e

\* The answer of upstream also brings a Content-Type the row lacks.
Backfills(r, v) ==
  cached[r].headers \in Untyped /\ v \notin Untyped

\* validate_file_etag got an answer.
Validate(r) ==
  LET now == upstream[KeyOf[r]]
      ok == Matched(CachedEtag(r), now) IN
  /\ pc[r] = "validate"
  /\ verdict' = [verdict EXCEPT ![r] = IF ok THEN "matched" ELSE "changed"]
  /\ probed' = [probed EXCEPT ![r] = now]
  /\ Goto(r, IF ~ ok THEN "invalidate"
             ELSE IF Backfills(r, now) THEN "backfill" ELSE "decide")
  /\ UNCHANGED <<row, upstream, leaders, waiters, outcome, complete, cached, asks>>

\* Timed out or failed: serve degraded.
ValidateFails(r) ==
  /\ pc[r] = "validate"
  /\ verdict' = [verdict EXCEPT ![r] = "unreachable"]
  /\ Goto(r, "decide")
  /\ UNCHANGED <<row, upstream, leaders, waiters, probed, outcome, complete, cached, asks>>

\* The headers of the GET's copy, and the new type, go to the row of that name;
\* a failure is ignored.
Backfill(r) ==
  /\ pc[r] = "backfill"
  /\ SetFileHeaders(KeyOf[r], cached[r].headers) \/ row' = row
  /\ Goto(r, "decide")
  /\ UNCHANGED <<upstream, leaders, waiters, probed, outcome, complete, getVars>>

\* delete_file by name; a failure is ignored.
Invalidate(r) ==
  /\ pc[r] = "invalidate"
  /\ \/ row' = [row EXCEPT ![KeyOf[r]] = NoRow]
     \/ row' = row
  /\ KeepComplete
  /\ Goto(r, "decide")
  /\ UNCHANGED <<upstream, leaders, waiters, probed, outcome, getVars>>

\* Mutant: etag_invalid is forgotten.
ServableAsLoaded(r) == cached[r] # NoRow

\* The cache may serve its copy.
Servable(r) == cached[r] # NoRow /\ verdict[r] # "changed"

\* 304, the cache, or upstream.
Decide(r) ==
  /\ pc[r] = "decide"
  /\ \/ asks[r] /\ Goto(r, "notModified") /\ UNCHANGED getVars
     \/ ~ asks[r] /\ Servable(r) /\ Goto(r, "hit") /\ UNCHANGED getVars
     \/ ~ asks[r] /\ ~ Servable(r) /\ Goto(r, "probe") /\ Forget(r)
  /\ UNCHANGED <<row, upstream, leaders, waiters, probed, outcome, complete>>

-----------------------------------------------------------------------------
(* GET: the answers *)

\* A response is under way: a 304, a stream from the cache, or after a
\* reconcile of its own the stream of the row it finds, an error if there is
\* none ("file disappeared after creation").
Respond(r) ==
  /\ pc[r] \in {"notModified", "hit", "open"}
  /\ Finish(r)
  /\ Forget(r)
  /\ UNCHANGED <<row, upstream, leaders, waiters, complete>>

\* The client went away during the validation.
CancelValidation(r) ==
  /\ pc[r] = "validate"
  /\ Finish(r)
  /\ Forget(r)
  /\ UNCHANGED <<row, upstream, leaders, waiters, complete>>

-----------------------------------------------------------------------------
(* Everyone else *)

\* A session stored and linked the last chunk.
Complete(k) ==
  /\ row[k] # NoRow /\ k \notin complete
  /\ complete' = complete \cup {k}
  /\ UNCHANGED <<row, upstream, leaders, waiters, pc, probed, outcome, getVars>>

\* An eviction or an operator deletes the file.
Remove(k) ==
  /\ row[k] # NoRow
  /\ row' = [row EXCEPT ![k] = NoRow]
  /\ KeepComplete
  /\ UNCHANGED <<upstream, leaders, waiters, pc, probed, outcome, getVars>>

CacheStep(r) ==
  Validate(r) \/ ValidateFails(r) \/ Backfill(r) \/ Invalidate(r) \/ Decide(r) \/ Respond(r)

\* What a HEAD does, and what a GET does from the probe on.
SharedStep(r) ==
  /\ \/ Probe(r) \/ Reconcile(r) \/ DatabaseError(r)
     \/ r \in Head /\ (Publish(r) \/ Answer(r))
  /\ KeepComplete
  /\ UNCHANGED getVars

Enter(r) ==
  \/ (Lead(r) \/ Wait(r)) /\ UNCHANGED <<complete, getVars>>
  \/ r \in Get /\ Load(r)

ProxyStep(r) == SharedStep(r) \/ (r \in Get /\ CacheStep(r))

ProxyNext ==
  \/ \E r \in Request : Enter(r) \/ ProxyStep(r)
  \/ \E r \in Request : Cancel(r) /\ UNCHANGED <<complete, getVars>>
  \/ \E r \in Get : CancelValidation(r)
  \/ \E k \in Key : UpstreamMoves(k) /\ UNCHANGED <<complete, getVars>>
  \/ \E k \in Key : Complete(k) \/ Remove(k)

ProxySpec == ProxyInit /\ [][ProxyNext]_proxyVars

\* As in MetadataReconcile: probes and validation carry timeouts.
ProxyFairness == \A r \in Request : WF_proxyVars(ProxyStep(r))
FairProxySpec == ProxySpec /\ ProxyFairness
-----------------------------------------------------------------------------
(* Properties *)

ProxyTypeOK ==
  /\ row \in [Key -> Row \cup {NoRow}]
  /\ leaders \subseteq Key
  /\ waiters \in [Key -> SUBSET Head]
  /\ \A r \in Get : pc[r] \in Leading \cup
       {"idle", "validate", "backfill", "invalidate", "decide", "notModified", "hit", "open"}
  /\ \A k \in complete : row[k] # NoRow
  /\ cached \in [Request -> Row \cup {NoRow}]
  /\ asks \in [Request -> BOOLEAN]
  /\ verdict \in [Request -> {"none", "matched", "changed", "unreachable"}]

\* The cache serves a copy only if it has no etag to check, or upstream was out
\* of reach, or upstream's etag in this very request was the copy's (or it sent
\* none): what other requests do to the row meanwhile does not matter
\* (the cache-hit branch of file_proxy_inner).
HitIsVouchedFor ==
  \A r \in Get : pc[r] = "hit" =>
    /\ cached[r] # NoRow
    /\ CASE verdict[r] = "none"        -> Etag(cached[r]) = NoEtag
         [] verdict[r] = "unreachable" -> TRUE
         [] verdict[r] = "matched"     -> Matched(Etag(cached[r]), probed[r])
         [] verdict[r] = "changed"     -> FALSE

\* A 304 is never the answer when upstream's etag changed.  The code breaks this:
\* the If-None-Match branch does not look at etag_invalid, and answers 304 for
\* the copy it just deleted.
NotModifiedIsCurrent ==
  \A r \in Get : pc[r] = "notModified" => verdict[r] # "changed"

\* Every request is answered, whatever the others do, except a HEAD that waits
\* for a leader that gave up.
EveryRequestAnswered ==
  \A r \in Request :
    pc[r] # "idle" ~> (pc[r] = "idle" \/ (pc[r] = "wait" /\ Stuck(KeyOf[r])))
=============================================================================
