-------------------------- MODULE FileProxy_proofs --------------------------
(***************************************************************************)
(* Proofs about FileProxy: for any GETs and HEADs, keys and versions, what *)
(* other requests do to a row while a GET validates its copy does not make *)
(* it serve a copy that upstream has disowned, and the flights of the      *)
(* HEADs stay those of MetadataReconcile.                                  *)
(***************************************************************************)
EXTENDS FileProxy, MetadataReconcile_proofs

HeadAt == Leading \cup {"idle", "wait", "answer"}
GetAt == Leading \cup
  {"idle", "validate", "backfill", "invalidate", "decide", "notModified", "hit", "open"}

\* What ProxyTypeOK rests on.
Typed ==
  /\ ProxyTypeOK
  /\ upstream \in [Key -> Version]
  /\ complete \subseteq Key
  /\ pc \in [Request -> HeadAt \cup GetAt]
  /\ probed \in [Request -> Version \cup {0}]
  /\ outcome \in [Request -> {"none", "ready", "forward"}]
  /\ \A r \in Head : pc[r] \in HeadAt
  /\ \A r \in Request : pc[r] \in Reconciling => probed[r] \in Version

\* The copy is fit to be served, as far as the verdict goes.
Vouched(r) ==
  /\ verdict[r] = "none" => CachedEtag(r) = NoEtag
  /\ verdict[r] = "matched" => cached[r] # NoRow /\ Matched(CachedEtag(r), probed[r])

\* The verdict of a GET, at each of its steps.
Judged(r) ==
  /\ pc[r] \in Leading \cup {"idle", "open"} => verdict[r] = "none"
  /\ pc[r] = "validate" => verdict[r] = "none" /\ CachedEtag(r) # NoEtag
  /\ pc[r] = "backfill" => verdict[r] = "matched" /\ Vouched(r)
  /\ pc[r] = "invalidate" => verdict[r] = "changed"
  /\ pc[r] = "decide" => Vouched(r)
  /\ pc[r] = "hit" => Vouched(r) /\ Servable(r)

ProxyInv == Typed /\ Flights /\ \A r \in Get : Judged(r)

-----------------------------------------------------------------------------
(* Types *)

LEMMA ProxyTypesInit == ProxyInit => Typed
<1> SUFFICES ASSUME ProxyInit PROVE Typed
  OBVIOUS
<1>1. ProxyTypeOK
  BY DEF ProxyInit, Init, ProxyTypeOK, Get
<1>2. QED
  BY <1>1, HeadsAreRequests, Versioned DEF ProxyInit, Init, Typed, HeadAt, GetAt, Reconciling

LEMMA Copies ==
  ASSUME Typed, NEW r \in Request, cached[r] # NoRow
  PROVE  cached[r] \in Row /\ cached[r].headers \in Version \cup {0}
BY Versioned DEF Typed, ProxyTypeOK

RowsTyped ==
  /\ row \in [Key -> Row \cup {NoRow}]
  /\ complete \subseteq Key
  /\ \A k \in complete : row[k] # NoRow

CopiesTyped ==
  /\ cached \in [Request -> Row \cup {NoRow}]
  /\ asks \in [Request -> BOOLEAN]
  /\ verdict \in [Request -> {"none", "matched", "changed", "unreachable"}]

\* One request moves on, with whatever it does to the rest.
LEMMA TypedMove ==
  ASSUME Typed, NEW r \in Request, NEW l, Goto(r, l),
         r \in Head => l \in HeadAt, r \in Get => l \in GetAt,
         l \in Reconciling => probed'[r] \in Version,
         \A q \in Request : q # r => probed'[q] = probed[q],
         probed' \in [Request -> Version \cup {0}],
         RowsTyped', CopiesTyped',
         leaders' \subseteq Key, waiters' \in [Key -> SUBSET Head],
         outcome' \in [Request -> {"none", "ready", "forward"}],
         UNCHANGED upstream
  PROVE  Typed'
<1>1. pc' = [pc EXCEPT ![r] = l] /\ pc \in [Request -> HeadAt \cup GetAt]
  BY DEF Typed, Goto
<1>2. pc' \in [Request -> HeadAt \cup GetAt] /\ pc'[r] = l /\ \A q \in Request : q # r => pc'[q] = pc[q]
  BY <1>1 DEF Get
<1>3. probed' \in [Request -> Version \cup {0}]
  OBVIOUS
<1>4. \A q \in Get : pc'[q] \in GetAt
  BY <1>2 DEF Typed, ProxyTypeOK, GetAt, Get
<1>5. \A q \in Head : pc'[q] \in HeadAt
  BY <1>2, HeadsAreRequests DEF Typed
<1>6. \A q \in Request : pc'[q] \in Reconciling => probed'[q] \in Version
  BY <1>2 DEF Typed
<1>7. ProxyTypeOK'
  BY <1>4 DEF ProxyTypeOK, RowsTyped, CopiesTyped, GetAt
<1>8. QED
  BY <1>2, <1>3, <1>5, <1>6, <1>7 DEF Typed, RowsTyped

\* What the steps that HEADs and GETs share do besides the table of flights.
LEMMA SharedMove ==
  ASSUME Typed, NEW r \in Request, Probe(r) \/ Reconcile(r) \/ DatabaseError(r)
  PROVE  /\ row' \in [Key -> Row \cup {NoRow}]
         /\ probed' \in [Request -> Version \cup {0}]
         /\ \A q \in Request : q # r => probed'[q] = probed[q]
         /\ pc'[r] \in Reconciling => probed'[r] \in Version
         /\ outcome' \in [Request -> {"none", "ready", "forward"}]
<1>1. /\ row \in [Key -> Row \cup {NoRow}] /\ upstream[KeyOf[r]] \in Version
      /\ probed \in [Request -> Version \cup {0}]
      /\ outcome \in [Request -> {"none", "ready", "forward"}]
      /\ pc \in [Request -> HeadAt \cup GetAt]
  BY RequestKeys DEF Typed, ProxyTypeOK
<1>2. CASE Probe(r)
  BY <1>1, <1>2 DEF Probe, ProbeOk, ProbeFailure, ProbeError, Finish, Goto, Reconciling
<1>3. CASE DatabaseError(r)
  BY <1>1, <1>3 DEF DatabaseError, Finish, Goto, Reconciling
<1>4. CASE Reconcile(r)
  <2>1. pc[r] \in Reconciling /\ UNCHANGED probed
    BY <1>4 DEF Reconcile, Lookup, Delete, Ensure, Add, Headers, AfterHeaders, Continue, Reconciling
  <2>2. probed[r] \in Version
    BY <2>1 DEF Typed
  <2>3. row' \in [Key -> Row \cup {NoRow}]
    BY <1>1, <1>4, <2>2, RowTypes
  <2>4. outcome' \in [Request -> {"none", "ready", "forward"}]
    BY <1>1, <1>4 DEF Reconcile, Lookup, Delete, Ensure, Add, Headers, AfterHeaders, Continue
  <2>5. QED
    BY <1>1, <2>1, <2>2, <2>3, <2>4
<1>5. QED
  BY <1>2, <1>3, <1>4

LEMMA SharedTyped ==
  ASSUME Typed, NEW r \in Request, Probe(r) \/ Reconcile(r) \/ DatabaseError(r),
         KeepComplete, UNCHANGED getVars
  PROVE  Typed'
<1>1. PICK l \in Leading \cup {"idle", "open"} : Goto(r, l) /\ (r \in Head => l # "open")
  BY ProbeOrReconcile
<1>2. pc'[r] = l
  BY <1>1 DEF Goto, Typed
<1>3. RowsTyped' /\ CopiesTyped'
  BY SharedMove DEF Typed, ProxyTypeOK, RowsTyped, CopiesTyped, KeepComplete, getVars
<1>4. /\ leaders' \subseteq Key /\ waiters' \in [Key -> SUBSET Head] /\ UNCHANGED upstream
      /\ r \in Head => l \in HeadAt
      /\ r \in Get => l \in GetAt
  BY <1>1, ProbeOrReconcile DEF Typed, ProxyTypeOK, HeadAt, GetAt
<1>5. QED
  BY <1>1, <1>2, <1>3, <1>4, SharedMove, TypedMove

LEMMA EnterTyped ==
  ASSUME Typed, NEW r \in Request, Enter(r)
  PROVE  Typed'
<1>1. CASE (Lead(r) \/ Wait(r)) /\ UNCHANGED <<complete, getVars>>
  <2>1. leaders' \subseteq Key /\ waiters' \in [Key -> SUBSET Head]
    BY <1>1, RequestKeys DEF Typed, ProxyTypeOK, Lead, Wait
  <2>2. PICK l \in {"probe", "wait"} : Goto(r, l)
    BY <1>1 DEF Lead, Wait, Arrive
  <2>3. r \in Head /\ l \in HeadAt /\ l \notin Reconciling
    BY <1>1 DEF Lead, Wait, HeadAt, Leading, Reconciling
  <2>4. RowsTyped' /\ CopiesTyped' /\ UNCHANGED <<upstream, probed, outcome>>
    BY <1>1 DEF Typed, ProxyTypeOK, RowsTyped, CopiesTyped, Lead, Wait, Arrive, getVars
  <2>5. QED
    BY <2>1, <2>2, <2>3, <2>4, TypedMove DEF Typed, Get
<1>2. CASE r \in Get /\ Load(r)
  <2>1. CompleteFile(KeyOf[r]) \in Row \cup {NoRow}
    BY RequestKeys DEF Typed, ProxyTypeOK, CompleteFile
  <2>2. PICK l \in {"decide", "validate"} : Goto(r, l)
    BY <1>2 DEF Load
  <2>3. r \notin Head /\ l \in GetAt /\ l \notin Reconciling
    BY <1>2 DEF Get, GetAt, Reconciling
  <2>4. CopiesTyped'
    <3>1. PICK w \in Row \cup {NoRow}, b \in BOOLEAN :
            cached' = [cached EXCEPT ![r] = w] /\ asks' = [asks EXCEPT ![r] = b]
      BY <1>2, <2>1 DEF Load
    <3>2. QED
      BY <1>2, <3>1 DEF Typed, ProxyTypeOK, CopiesTyped, Load
  <2>5. RowsTyped' /\ UNCHANGED <<leaders, waiters, upstream, probed, outcome>>
    BY <1>2 DEF Typed, ProxyTypeOK, RowsTyped, Load
  <2>6. QED
    BY <2>2, <2>3, <2>4, <2>5, TypedMove DEF Typed, ProxyTypeOK
<1>3. QED
  BY <1>1, <1>2 DEF Enter

LEMMA CacheTyped ==
  ASSUME ProxyInv, NEW r \in Get, CacheStep(r) \/ CancelValidation(r)
  PROVE  Typed'
<1>1. r \in Request /\ r \notin Head /\ KeyOf[r] \in Key /\ Typed
  BY RequestKeys DEF Get, ProxyInv
<1>2. PICK l \in {"invalidate", "backfill", "decide", "notModified", "hit", "probe", "idle"} : Goto(r, l)
  BY DEF CacheStep, Validate, ValidateFails, Backfill, Invalidate, Decide, Respond, CancelValidation, Finish
<1>3. l \in GetAt /\ l \notin Reconciling
  BY DEF GetAt, Leading, Reconciling
<1>4. CopiesTyped' /\ UNCHANGED <<leaders, waiters, upstream>>
  BY <1>1
  DEF Typed, ProxyTypeOK, CopiesTyped, CacheStep, Validate, ValidateFails, Backfill, Invalidate, Decide,
      Respond, CancelValidation, Forget, getVars
<1>5. RowsTyped'
  <2>1. RowsTyped
    BY <1>1 DEF Typed, ProxyTypeOK, RowsTyped
  <2>2. CASE Invalidate(r)
    BY <1>1, <2>1, <2>2 DEF Invalidate, KeepComplete, RowsTyped
  <2>3. CASE Backfill(r)
    <3>1. CASE SetFileHeaders(KeyOf[r], cached[r].headers)
      <4>1. cached[r] # NoRow
        BY <2>3 DEF ProxyInv, Judged, Vouched, Backfill
      <4>2. QED
        BY <1>1, <2>1, <2>3, <3>1, <4>1, SetHeaders, Copies DEF Backfill, RowsTyped
    <3>2. CASE row' = row
      BY <2>1, <2>3, <3>2 DEF Backfill, RowsTyped
    <3>3. QED
      BY <2>3, <3>1, <3>2 DEF Backfill
  <2>4. CASE ~ (Invalidate(r) \/ Backfill(r))
    <3>1. UNCHANGED <<row, complete>>
      BY <2>4 DEF CacheStep, Validate, ValidateFails, Decide, Respond, CancelValidation
    <3>2. QED
      BY <2>1, <3>1 DEF RowsTyped
  <2>5. QED
    BY <2>2, <2>3, <2>4
<1>6. /\ probed' \in [Request -> Version \cup {0}]
      /\ \A q \in Request : q # r => probed'[q] = probed[q]
      /\ outcome' \in [Request -> {"none", "ready", "forward"}]
  BY <1>1
  DEF Typed, CacheStep, Validate, ValidateFails, Backfill, Invalidate, Decide, Respond, CancelValidation,
      Finish
<1>7. QED
  BY <1>1, <1>2, <1>3, <1>4, <1>5, <1>6, TypedMove DEF Typed, ProxyTypeOK

LEMMA OthersTyped ==
  ASSUME ProxyInv, NEW r \in Request,
         \/ r \in Head /\ (Publish(r) \/ Answer(r)) /\ KeepComplete /\ UNCHANGED getVars
         \/ Cancel(r) /\ UNCHANGED <<complete, getVars>>
  PROVE  Typed'
<1>1. Typed /\ Flights /\ RowsTyped /\ CopiesTyped
  BY DEF ProxyInv, Typed, ProxyTypeOK, RowsTyped, CopiesTyped
<1>2. CASE r \in Head /\ Publish(r) /\ KeepComplete /\ UNCHANGED getVars
  <2>1. /\ \A q \in Told(r) : q \in Head /\ pc'[q] = "answer"
        /\ \A q \in Request \ Told(r) : pc'[q] = pc[q]
    BY <1>1, <1>2, PublishFlight DEF Typed
  <2>2. leaders' \subseteq Key /\ waiters' \in [Key -> SUBSET Head] /\ UNCHANGED <<row, upstream>>
    BY <1>1, <1>2 DEF Publish, Typed, ProxyTypeOK
  <2>3. /\ probed' \in [Request -> Version \cup {0}]
        /\ outcome' \in [Request -> {"none", "ready", "forward"}]
        /\ \A q \in Request \ Told(r) : probed'[q] = probed[q]
    BY <1>1, <1>2 DEF Publish, Typed
  <2>4. pc' \in [Request -> HeadAt \cup GetAt]
    BY <1>1, <1>2 DEF Publish, Typed, HeadAt
  <2>5. /\ \A q \in Head : pc'[q] \in HeadAt
        /\ \A q \in Get : pc'[q] \in GetAt
        /\ \A q \in Request : pc'[q] \in Reconciling => probed'[q] \in Version
    BY <1>1, <2>1, <2>3, HeadsAreRequests DEF Typed, ProxyTypeOK, HeadAt, GetAt, Get, Reconciling
  <2>6. RowsTyped' /\ CopiesTyped'
    BY <1>1, <1>2, <2>2 DEF RowsTyped, CopiesTyped, KeepComplete, getVars
  <2>7. ProxyTypeOK'
    BY <2>2, <2>5, <2>6 DEF ProxyTypeOK, RowsTyped, CopiesTyped, GetAt
  <2>8. QED
    BY <1>1, <2>2, <2>3, <2>4, <2>5, <2>6, <2>7 DEF Typed, RowsTyped
<1>3. CASE r \in Head /\ Answer(r) /\ KeepComplete /\ UNCHANGED getVars
  <2>1. Goto(r, "idle") /\ "idle" \in HeadAt /\ "idle" \notin Reconciling /\ r \notin Get
    BY <1>3 DEF Answer, Finish, HeadAt, Reconciling, Get
  <2>2. RowsTyped' /\ CopiesTyped'
    BY <1>1, <1>3 DEF RowsTyped, CopiesTyped, KeepComplete, getVars, Answer
  <2>3. /\ probed' \in [Request -> Version \cup {0}]
        /\ outcome' \in [Request -> {"none", "ready", "forward"}]
        /\ \A q \in Request : q # r => probed'[q] = probed[q]
        /\ UNCHANGED <<leaders, waiters, upstream>>
    BY <1>1, <1>3 DEF Answer, Finish, Typed
  <2>4. QED
    BY <1>1, <2>1, <2>2, <2>3, TypedMove DEF Flights
<1>4. CASE Cancel(r) /\ UNCHANGED <<complete, getVars>>
  <2>1. Goto(r, "idle") /\ "idle" \in HeadAt /\ "idle" \in GetAt /\ "idle" \notin Reconciling
    BY <1>4 DEF Cancel, Finish, HeadAt, GetAt, Reconciling
  <2>2. RowsTyped' /\ CopiesTyped'
    BY <1>1, <1>4 DEF RowsTyped, CopiesTyped, getVars, Cancel
  <2>3. /\ probed' \in [Request -> Version \cup {0}]
        /\ outcome' \in [Request -> {"none", "ready", "forward"}]
        /\ \A q \in Request : q # r => probed'[q] = probed[q]
        /\ leaders' = leaders /\ waiters' \in [Key -> SUBSET Head] /\ UNCHANGED upstream
    BY <1>1, <1>4, RequestKeys DEF Cancel, Finish, Typed, Flights
  <2>4. QED
    BY <1>1, <2>1, <2>2, <2>3, TypedMove DEF Flights
<1>5. QED
  BY <1>2, <1>3, <1>4

LEMMA ProxyTypesStep ==
  ASSUME ProxyInv, [ProxyNext]_proxyVars
  PROVE  Typed'
<1>1. Typed
  BY DEF ProxyInv
<1>2. ASSUME NEW r \in Request, Enter(r) PROVE Typed'
  BY <1>1, <1>2, EnterTyped
<1>3. ASSUME NEW r \in Request, SharedStep(r) PROVE Typed'
  BY <1>1, <1>3, SharedTyped, OthersTyped DEF SharedStep
<1>4. ASSUME NEW r \in Get, CacheStep(r) \/ CancelValidation(r) PROVE Typed'
  BY <1>4, CacheTyped
<1>5. ASSUME NEW r \in Request, Cancel(r), UNCHANGED <<complete, getVars>> PROVE Typed'
  BY <1>5, OthersTyped
<1>6. ASSUME NEW k \in Key, UpstreamMoves(k), UNCHANGED <<complete, getVars>> PROVE Typed'
  <2>1. upstream[k] + 1 \in Version
    BY <1>1, <1>6, ReconcileAssumption DEF Typed, UpstreamMoves, Version
  <2>2. upstream' \in [Key -> Version]
    BY <1>1, <1>6, <2>1 DEF Typed, UpstreamMoves
  <2>3. QED
    BY <1>1, <1>6, <2>2 DEF Typed, ProxyTypeOK, UpstreamMoves, getVars
<1>7. ASSUME NEW k \in Key, Complete(k) \/ Remove(k) PROVE Typed'
  <2>1. RowsTyped'
    BY <1>1, <1>7 DEF Typed, ProxyTypeOK, RowsTyped, Complete, Remove, KeepComplete
  <2>2. QED
    BY <1>1, <1>7, <2>1 DEF Typed, ProxyTypeOK, RowsTyped, Complete, Remove, getVars
<1>8. ASSUME UNCHANGED proxyVars PROVE Typed'
  BY <1>1, <1>8 DEF Typed, ProxyTypeOK, proxyVars
<1>9. QED
  BY <1>2, <1>3, <1>4, <1>5, <1>6, <1>7, <1>8 DEF ProxyNext, ProxyStep, Get

-----------------------------------------------------------------------------
(* Flights *)

LEMMA ProxyFlightsStep ==
  ASSUME ProxyInv, [ProxyNext]_proxyVars
  PROVE  Flights'
<1> DEFINE S == HeadAt \cup GetAt
<1>1. Flights /\ Typed /\ pc \in [Request -> S]
  BY DEF ProxyInv, Typed
<1> HIDE DEF S
<1>2. ASSUME NEW r \in Request, Lead(r) PROVE Flights'
  BY <1>1, <1>2, LeadFlight
<1>3. ASSUME NEW r \in Request, Wait(r) PROVE Flights'
  BY <1>1, <1>3, WaitFlight
<1>4. ASSUME NEW r \in Request, Probe(r) \/ Reconcile(r) \/ DatabaseError(r) PROVE Flights'
  <2>1. pc[r] \in Leading /\ "wait" \notin Leading /\ UNCHANGED <<leaders, waiters>>
    BY <1>4, ProbeOrReconcile DEF Leading
  <2>2. PICK l \in Leading \cup {"idle", "open"} : Goto(r, l)
    BY <1>4, ProbeOrReconcile
  <2>3. QED
    BY <1>1, <2>1, <2>2, QuietFlight
<1>5. ASSUME NEW r \in Head, Publish(r) PROVE Flights'
  BY <1>1, <1>5, PublishFlight
<1>6. ASSUME NEW r \in Head, Answer(r) PROVE Flights'
  BY <1>1, <1>6, QuietFlight, HeadsAreRequests DEF Answer, Finish, Leading
<1>7. ASSUME NEW r \in Request, Cancel(r) PROVE Flights'
  BY <1>1, <1>7, CancelFlight
<1>8. ASSUME NEW r \in Get, Load(r) \/ CacheStep(r) \/ CancelValidation(r) PROVE Flights'
  <2>1. /\ r \in Request \ Head /\ UNCHANGED <<leaders, waiters>>
        /\ pc[r] # "wait"
    BY <1>8
    DEF Get, Load, CacheStep, Validate, ValidateFails, Backfill, Invalidate, Decide, Respond,
        CancelValidation
  <2>2. PICK l \in {"invalidate", "validate", "backfill", "decide", "notModified", "hit", "probe", "idle"} : Goto(r, l)
    BY <1>8
    DEF Load, CacheStep, Validate, ValidateFails, Backfill, Invalidate, Decide, Respond,
        CancelValidation, Finish
  <2>3. QED
    BY <1>1, <2>1, <2>2, QuietFlight
<1>9. ASSUME UNCHANGED <<pc, leaders, waiters>> PROVE Flights'
  BY <1>1, <1>9 DEF Flights, NoWaiterLost
<1>10. QED
  BY <1>2, <1>3, <1>4, <1>5, <1>6, <1>7, <1>8, <1>9
  DEF ProxyNext, Enter, ProxyStep, SharedStep, UpstreamMoves, Complete, Remove, proxyVars

-----------------------------------------------------------------------------
(* Verdicts *)

\* The verdict of a GET depends on its own state only.
LEMMA JudgedAlike ==
  ASSUME NEW r \in Get, Judged(r),
         UNCHANGED <<pc[r], probed[r], cached[r], verdict[r]>>
  PROVE  Judged(r)'
BY DEF Judged, Vouched, CachedEtag, Servable

LEMMA JudgedOwn ==
  ASSUME ProxyInv, NEW r \in Get, Load(r) \/ CacheStep(r) \/ CancelValidation(r)
  PROVE  Judged(r)'
<1> USE DEF Judged
<1>1. /\ pc \in [Request -> HeadAt \cup GetAt] /\ probed \in [Request -> Version \cup {0}]
      /\ cached \in [Request -> Row \cup {NoRow}]
      /\ verdict \in [Request -> {"none", "matched", "changed", "unreachable"}]
      /\ Judged(r) /\ r \in Request
  BY DEF ProxyInv, Typed, ProxyTypeOK, Get
<1>2. CASE Load(r)
  BY <1>1, <1>2 DEF Load, Goto, Leading, Vouched
<1>3. CASE Validate(r)
  <2>1. /\ pc[r] = "validate" /\ CachedEtag(r) # NoEtag /\ UNCHANGED cached
        /\ \/ /\ Matched(CachedEtag(r), probed'[r]) /\ verdict'[r] = "matched"
              /\ pc'[r] \in {"backfill", "decide"}
           \/ verdict'[r] = "changed" /\ pc'[r] = "invalidate"
    BY <1>1, <1>3 DEF Validate, Goto
  <2>2. cached[r] # NoRow /\ CachedEtag(r)' = CachedEtag(r)
    BY <2>1 DEF CachedEtag
  <2>3. QED
    BY <2>1, <2>2 DEF Leading, Vouched, Matched
<1>4. CASE ValidateFails(r)
  BY <1>1, <1>4 DEF ValidateFails, Goto, Leading, Vouched
<1>5. CASE Backfill(r) \/ Invalidate(r)
  BY <1>1, <1>5 DEF Backfill, Invalidate, Goto, Leading, Vouched, CachedEtag, getVars
<1>6. CASE Decide(r)
  <2>1. CASE asks[r] \/ Servable(r)
    <3>1. pc'[r] \in {"notModified", "hit"} /\ (pc'[r] = "hit" => Servable(r)) /\ Vouched(r)
      BY <1>1, <1>6, <2>1 DEF Decide, Goto
    <3>2. UNCHANGED <<probed, cached, verdict>>
      BY <1>6, <2>1 DEF Decide, getVars
    <3>3. QED
      BY <3>1, <3>2 DEF Leading, Vouched, CachedEtag, Servable
  <2>2. CASE ~ (asks[r] \/ Servable(r))
    BY <1>1, <1>6, <2>2 DEF Decide, Goto, Forget, Leading
  <2>3. QED
    BY <2>1, <2>2
<1>7. CASE Respond(r) \/ CancelValidation(r)
  BY <1>1, <1>7 DEF Respond, CancelValidation, Finish, Forget, Goto, Leading
<1>8. QED
  BY <1>2, <1>3, <1>4, <1>5, <1>6, <1>7 DEF CacheStep

LEMMA JudgedStep ==
  ASSUME ProxyInv, [ProxyNext]_proxyVars, NEW r \in Get
  PROVE  Judged(r)'
<1>1. Typed /\ Flights /\ Judged(r) /\ r \in Request /\ r \notin Head
  BY DEF ProxyInv, Get
<1>2. /\ pc \in [Request -> HeadAt \cup GetAt] /\ probed \in [Request -> Version \cup {0}]
      /\ cached \in [Request -> Row \cup {NoRow}]
      /\ verdict \in [Request -> {"none", "matched", "changed", "unreachable"}]
  BY <1>1 DEF Typed, ProxyTypeOK
<1>3. ASSUME NEW q \in Request, Probe(q) \/ Reconcile(q) \/ DatabaseError(q), UNCHANGED getVars
      PROVE  Judged(r)'
  <2>1. PICK l \in Leading \cup {"idle", "open"} : Goto(q, l) /\ pc[q] \in Leading
    BY <1>3, ProbeOrReconcile
  <2>2. UNCHANGED <<cached, verdict>> /\ \A p \in Request : p # q => probed'[p] = probed[p]
    BY <1>1, <1>3, SharedMove DEF getVars
  <2>3. CASE q = r
    BY <1>1, <1>2, <2>1, <2>2, <2>3 DEF Judged, Goto, Leading
  <2>4. CASE q # r
    BY <1>1, <1>2, <2>1, <2>2, <2>4, JudgedAlike DEF Goto
  <2>5. QED
    BY <2>3, <2>4
<1>4. ASSUME NEW q \in Get, Load(q) \/ CacheStep(q) \/ CancelValidation(q)
      PROVE  Judged(r)'
  <2>1. CASE q = r
    BY <1>4, <2>1, JudgedOwn
  <2>2. CASE q # r
    <3>1. UNCHANGED <<pc[r], probed[r], cached[r], verdict[r]>>
      BY <1>1, <1>2, <1>4, <2>2
      DEF Load, CacheStep, Validate, ValidateFails, Backfill, Invalidate, Decide, Respond,
          CancelValidation, Finish, Forget, Goto, getVars
    <3>2. QED
      BY <1>1, <3>1, JudgedAlike
  <2>3. QED
    BY <2>1, <2>2
<1>5. ASSUME NEW q \in Head, Publish(q), UNCHANGED getVars
      PROVE  Judged(r)'
  <2>1. r \notin Told(q)
    BY <1>1, <1>2, <1>5, PublishFlight
  <2>2. UNCHANGED <<pc[r], probed[r], cached[r], verdict[r]>>
    BY <1>1, <1>2, <1>5, <2>1 DEF Publish, getVars
  <2>3. QED
    BY <1>1, <2>2, JudgedAlike
<1>6. ASSUME NEW q \in Head, Lead(q) \/ Wait(q) \/ Answer(q), UNCHANGED getVars
      PROVE  Judged(r)'
  <2>1. UNCHANGED <<pc[r], probed[r], cached[r], verdict[r]>>
    BY <1>1, <1>2, <1>6 DEF Lead, Wait, Arrive, Answer, Finish, Goto, getVars
  <2>2. QED
    BY <1>1, <2>1, JudgedAlike
<1>7. ASSUME NEW q \in Request, Cancel(q), UNCHANGED getVars
      PROVE  Judged(r)'
  <2>1. CASE q = r
    <3>1. pc[r] \in Leading /\ pc'[r] = "idle" /\ UNCHANGED verdict
      BY <1>1, <1>2, <1>7, <2>1 DEF Cancel, Finish, Goto, getVars, Leading, Typed, ProxyTypeOK
    <3>2. QED
      BY <1>1, <3>1 DEF Judged, Leading
  <2>2. CASE q # r
    <3>1. UNCHANGED <<pc[r], probed[r], cached[r], verdict[r]>>
      BY <1>1, <1>2, <1>7, <2>2 DEF Cancel, Finish, Goto, getVars
    <3>2. QED
      BY <1>1, <3>1, JudgedAlike
  <2>3. QED
    BY <2>1, <2>2
<1>8. ASSUME UNCHANGED <<pc, probed, getVars>>
      PROVE  Judged(r)'
  BY <1>1, <1>8, JudgedAlike DEF getVars
<1>9. ASSUME NEW q \in Request, Enter(q) PROVE Judged(r)'
  BY <1>4, <1>6, <1>9 DEF Enter, Lead, Wait
<1>10. ASSUME NEW q \in Request, ProxyStep(q) PROVE Judged(r)'
  BY <1>3, <1>4, <1>5, <1>6, <1>10 DEF ProxyStep, SharedStep
<1>11. QED
  BY <1>4, <1>7, <1>8, <1>9, <1>10
  DEF ProxyNext, UpstreamMoves, Complete, Remove, proxyVars, getVars

-----------------------------------------------------------------------------
(* The theorems *)

LEMMA ProxyInitInv == ProxyInit => ProxyInv
<1> SUFFICES ASSUME ProxyInit PROVE ProxyInv
  OBVIOUS
<1>1. \A r \in Get : Judged(r)
  BY DEF ProxyInit, Init, Judged, Get
<1>2. QED
  BY <1>1, ProxyTypesInit, FlightsInit DEF ProxyInv, ProxyInit

THEOREM ProxyInvariant == ProxySpec => []ProxyInv
<1>1. ProxyInv /\ [ProxyNext]_proxyVars => ProxyInv'
  <2> SUFFICES ASSUME ProxyInv, [ProxyNext]_proxyVars
               PROVE  ProxyInv'
    OBVIOUS
  <2>1. \A r \in Get : Judged(r)'
    BY JudgedStep
  <2>2. QED
    BY <2>1, ProxyTypesStep, ProxyFlightsStep DEF ProxyInv, Get
<1>2. QED
  BY ProxyInitInv, <1>1, PTL DEF ProxySpec

\* Rows, flights, requests and their copies are well typed together; what is complete
\* has a row (file_proxy_inner).
THEOREM ProxyTypesCorrect == ProxySpec => []ProxyTypeOK
<1>1. ProxyInv => ProxyTypeOK
  BY DEF ProxyInv, Typed
<1>2. QED
  BY <1>1, ProxyInvariant, PTL

\* A copy is served only if upstream, in this very request, has not disowned it,
\* whatever happens to the row meanwhile (the cache-hit branch of file_proxy_inner).
THEOREM HitsAreVouchedFor == ProxySpec => []HitIsVouchedFor
<1>1. ProxyInv => HitIsVouchedFor
  <2> SUFFICES ASSUME ProxyInv, NEW r \in Get, pc[r] = "hit"
               PROVE  /\ cached[r] # NoRow
                      /\ CASE verdict[r] = "none"        -> Etag(cached[r]) = NoEtag
                           [] verdict[r] = "unreachable" -> TRUE
                           [] verdict[r] = "matched"     -> Matched(Etag(cached[r]), probed[r])
                           [] verdict[r] = "changed"     -> FALSE
    BY DEF HitIsVouchedFor
  <2>1. Vouched(r) /\ Servable(r)
    BY DEF ProxyInv, Judged
  <2>2. verdict[r] \in {"none", "matched", "unreachable"}
    BY <2>1 DEF ProxyInv, Typed, ProxyTypeOK, Servable, Get
  <2>3. QED
    BY <2>1, <2>2 DEF Vouched, Servable, CachedEtag
<1>2. QED
  BY <1>1, ProxyInvariant, PTL

\* The GETs, which reconcile on their own, leave the flights of the HEADs as they are:
\* one leader a key, and nobody who waits is lost (reconcile_metadata_singleflight).
THEOREM ProxyFlights == ProxySpec => [](OneLeader /\ NoWaiterLost)
<1>1. ProxyInv => OneLeader /\ NoWaiterLost
  BY DEF ProxyInv, Flights, OneLeader, Leader
<1>2. QED
  BY <1>1, ProxyInvariant, PTL
=============================================================================
