---------------------- MODULE MetadataReconcile_proofs ----------------------
(***************************************************************************)
(* Proofs about MetadataReconcile: for any HEADs, keys and versions, the   *)
(* flights of a key do not overlap and lose nobody, and so the row of a    *)
(* file moves forward through upstream's versions.                         *)
(***************************************************************************)
EXTENDS MetadataReconcile, TLAPS

Reconciling == {"lookup", "delete", "ensure", "add", "headers"}

\* Who leads is registered, alone, and has all who wait on its list, and nobody else.
Flights ==
  /\ leaders \subseteq Key
  /\ waiters \in [Key -> SUBSET Head]
  /\ \A r \in Head : pc[r] \in Leading => KeyOf[r] \in leaders
  /\ \A q, r \in Head :
       pc[q] \in Leading /\ pc[r] \in Leading /\ KeyOf[q] = KeyOf[r] => q = r
  /\ \A k \in Key : \A q \in waiters[k] : KeyOf[q] = k /\ pc[q] = "wait"
  /\ NoWaiterLost

\* The headers of k's row, if it has a row with headers, as against version v.
NoOlder(k, v) == row[k] # NoRow /\ row[k].headers # 0 => row[k].headers >= v
NoNewer(k, v) == row[k] # NoRow => row[k].headers <= v

\* Nothing is ahead of upstream; the row is not ahead of whoever reconciles it, nor
\* behind whoever was told that it is up to date; and flights come one after the other.
Versions ==
  /\ \A k \in Key : NoNewer(k, upstream[k])
  /\ \A r \in Head : probed[r] <= upstream[KeyOf[r]]
  /\ \A r \in Head : pc[r] \in Reconciling => probed[r] \in Version /\ NoNewer(KeyOf[r], probed[r])
  /\ \A r \in Head :
       pc[r] \in {"publish", "answer"} /\ outcome[r] = "ready" => NoOlder(KeyOf[r], probed[r])
  /\ \A q, r \in Head :
       pc[r] = "answer" /\ outcome[r] = "ready" /\ pc[q] \in Reconciling /\ KeyOf[q] = KeyOf[r]
         => probed[r] <= probed[q]

\* The size of the row that is kept is of the content that was probed.
Contents ==
  /\ RowOfOneVersion
  /\ \A r \in Head :
       LET w == row[KeyOf[r]] IN
       pc[r] \in {"ensure", "headers"} /\ w # NoRow /\ EtagOf[probed[r]] # NoEtag
         => Equivalent(EtagOf[probed[r]], EtagOf[w.size])

ReconcileInv == TypeOK /\ Flights /\ Versions /\ Contents

-----------------------------------------------------------------------------
(* Constants and rows *)

LEMMA RequestKeys ==
  ASSUME NEW r \in Request
  PROVE  KeyOf[r] \in Key
BY ReconcileAssumption

LEMMA HeadsAreRequests == Head \subseteq Request
BY ReconcileAssumption

LEMMA Versioned ==
  /\ Version \subseteq Nat /\ 0 \notin Version /\ 1 \in Version
  /\ \A v \in Version \cup {0} : v \in Nat
  /\ NoRow \notin Row
  /\ \A w \in Row : w.size \in Version /\ w.headers \in Version \cup {0}
BY ReconcileAssumption DEF Version, Row

LEMMA SetHeaders ==
  ASSUME row \in [Key -> Row \cup {NoRow}], NEW k \in Key, NEW v \in Version \cup {0},
         SetFileHeaders(k, v)
  PROVE  /\ row' \in [Key -> Row \cup {NoRow}]
         /\ \A j \in Key : j # k => row'[j] = row[j]
         /\ row[k] = NoRow => row'[k] = NoRow
         /\ row[k] # NoRow => row'[k] \in Row /\ row'[k] # NoRow
                              /\ row'[k].headers = v /\ row'[k].size = row[k].size
<1>1. CASE row[k] = NoRow
  BY <1>1 DEF SetFileHeaders
<1>2. CASE row[k] # NoRow
  <2> DEFINE w == [row[k] EXCEPT !.headers = v]
  <2>1. row[k] \in Row
    BY <1>2
  <2>2. w \in Row /\ w.headers = v /\ w.size = row[k].size
    BY <2>1 DEF Row
  <2>3. row' = [row EXCEPT ![k] = w]
    BY <1>2 DEF SetFileHeaders
  <2>4. w # NoRow
    BY <2>2, Versioned
  <2> HIDE DEF w
  <2>5. QED
    BY <1>2, <2>2, <2>3, <2>4
<1>3. QED
  BY <1>1, <1>2

LEMMA AddedRow ==
  ASSUME NEW v \in Version
  PROVE  /\ [size |-> v, headers |-> 0] \in Row
         /\ [size |-> v, headers |-> 0] # NoRow
BY Versioned DEF Row

-----------------------------------------------------------------------------
(* Flights *)

LEMMA FlightsInit == Init => Flights
BY HeadsAreRequests DEF Init, Flights, NoWaiterLost, Leading

LEMMA LeadFlight ==
  ASSUME Flights, NEW S, pc \in [Request -> S], NEW r \in Request, Lead(r)
  PROVE  Flights'
<1>1. /\ r \in Head /\ KeyOf[r] \in Key /\ KeyOf[r] \notin leaders
      /\ pc[r] = "idle" /\ pc' = [pc EXCEPT ![r] = "probe"]
      /\ leaders' = leaders \cup {KeyOf[r]} /\ waiters' = waiters
  BY RequestKeys DEF Lead, Arrive, Goto
<1>2. pc'[r] = "probe" /\ \A q \in Request : q # r => pc'[q] = pc[q]
  BY <1>1
<1>3. QED
  BY <1>1, <1>2, HeadsAreRequests DEF Flights, NoWaiterLost, Leading

LEMMA WaitFlight ==
  ASSUME Flights, NEW S, pc \in [Request -> S], NEW r \in Request, Wait(r)
  PROVE  Flights'
<1>1. /\ r \in Head /\ KeyOf[r] \in Key /\ KeyOf[r] \in leaders
      /\ pc[r] = "idle" /\ pc' = [pc EXCEPT ![r] = "wait"]
      /\ leaders' = leaders /\ waiters' = [waiters EXCEPT ![KeyOf[r]] = @ \cup {r}]
  BY RequestKeys DEF Wait, Arrive, Goto
<1>2. pc'[r] = "wait" /\ \A q \in Request : q # r => pc'[q] = pc[q]
  BY <1>1
<1>3. /\ waiters' \in [Key -> SUBSET Head]
      /\ \A k \in Key : waiters[k] \subseteq waiters'[k]
      /\ \A k \in Key : \A q \in waiters'[k] : q \in waiters[k] \/ (q = r /\ k = KeyOf[r])
      /\ r \in waiters'[KeyOf[r]]
  BY <1>1 DEF Flights
<1>4. QED
  BY <1>1, <1>2, <1>3, RequestKeys, HeadsAreRequests DEF Flights, NoWaiterLost, Leading

\* A request that neither waits nor begins to wait or to lead moves on.
LEMMA QuietFlight ==
  ASSUME Flights, NEW S, pc \in [Request -> S], NEW r \in Request, NEW l, Goto(r, l),
         pc[r] # "wait", l # "wait", r \in Head /\ l \in Leading => pc[r] \in Leading,
         UNCHANGED <<leaders, waiters>>
  PROVE  Flights'
<1>1. pc'[r] = l /\ \A q \in Request : q # r => pc'[q] = pc[q]
  BY DEF Goto
<1>2. \A q \in Head : pc'[q] \in Leading => pc[q] \in Leading
  BY <1>1, HeadsAreRequests
<1>3. \A q \in Request : pc'[q] = "wait" <=> pc[q] = "wait"
  BY <1>1
<1>4. \A k \in Key : waiters[k] \subseteq Request
  BY HeadsAreRequests DEF Flights
<1>5. QED
  BY <1>2, <1>3, <1>4 DEF Flights, NoWaiterLost

LEMMA PublishFlight ==
  ASSUME Flights, NEW S, pc \in [Request -> S], NEW r \in Head, Publish(r)
  PROVE  /\ Flights'
         /\ \A q \in Told(r) : q \in Head /\ KeyOf[q] = KeyOf[r] /\ pc'[q] = "answer"
         /\ \A q \in Request \ Told(r) : pc'[q] = pc[q]
         /\ \A q \in Head : pc'[q] \in Leading => KeyOf[q] # KeyOf[r]
<1> DEFINE k == KeyOf[r]
<1>1. /\ r \in Request /\ k \in Key /\ pc[r] \in Leading
      /\ leaders' = leaders \ {k} /\ waiters' = [waiters EXCEPT ![k] = {}]
      /\ pc' = [q \in Request |-> IF q \in Told(r) THEN "answer" ELSE pc[q]]
  BY RequestKeys, HeadsAreRequests DEF Publish, Leading
<1>2. \A q \in Told(r) : q \in Head /\ KeyOf[q] = k /\ pc'[q] = "answer"
  BY <1>1, HeadsAreRequests DEF Told, Flights
<1>3. \A q \in Request \ Told(r) : pc'[q] = pc[q]
  BY <1>1
<1>4. \A q \in Head : pc'[q] \in Leading => pc[q] \in Leading /\ KeyOf[q] # k
  BY <1>1, <1>2, <1>3, HeadsAreRequests DEF Flights, Told, Leading
<1>5. /\ waiters' \in [Key -> SUBSET Head] /\ waiters'[k] = {}
      /\ \A j \in Key : j # k => waiters'[j] = waiters[j]
  BY <1>1 DEF Flights
<1>6. \A q \in Request : pc'[q] = "wait" => pc[q] = "wait" /\ KeyOf[q] # k
  BY <1>1, <1>2, <1>3 DEF Flights, NoWaiterLost, Told
<1>7. NoWaiterLost'
  BY <1>1, <1>5, <1>6, RequestKeys DEF Flights, NoWaiterLost
<1>8. \A j \in Key : \A q \in waiters'[j] : KeyOf[q] = j /\ pc'[q] = "wait"
  <2> SUFFICES ASSUME NEW j \in Key, NEW q \in waiters'[j]
               PROVE  KeyOf[q] = j /\ pc'[q] = "wait"
    OBVIOUS
  <2>1. j # k /\ q \in waiters[j] /\ KeyOf[q] = j /\ pc[q] = "wait" /\ q \in Request
    BY <1>5, HeadsAreRequests DEF Flights
  <2>2. q \notin Told(r)
    BY <1>2, <2>1
  <2>3. QED
    BY <1>3, <2>1, <2>2
<1>9. Flights'
  BY <1>1, <1>4, <1>5, <1>7, <1>8 DEF Flights
<1>10. QED
  BY <1>2, <1>3, <1>4, <1>9

LEMMA CancelFlight ==
  ASSUME Flights, NEW S, pc \in [Request -> S], NEW r \in Request, Cancel(r)
  PROVE  Flights'
<1>1. /\ KeyOf[r] \in Key
      /\ pc' = [pc EXCEPT ![r] = "idle"] /\ leaders' = leaders
      /\ waiters' = [waiters EXCEPT ![KeyOf[r]] = @ \ {r}]
  BY RequestKeys DEF Cancel, Finish, Goto
<1>2. pc'[r] = "idle" /\ \A q \in Request : q # r => pc'[q] = pc[q]
  BY <1>1
<1>3. /\ waiters' \in [Key -> SUBSET Head]
      /\ \A k \in Key : \A q \in waiters'[k] : q \in waiters[k] /\ q # r
      /\ \A k \in Key : \A q \in waiters[k] : q # r => q \in waiters'[k]
  BY <1>1 DEF Flights
<1>4. \A k \in Key : waiters[k] \subseteq Request
  BY HeadsAreRequests DEF Flights
<1>5. \A q \in Head : pc'[q] \in Leading => pc[q] \in Leading
  BY <1>2, HeadsAreRequests DEF Leading
<1>6. NoWaiterLost'
  BY <1>1, <1>2, <1>3, RequestKeys DEF Flights, NoWaiterLost
<1>7. \A k \in Key : \A q \in waiters'[k] : KeyOf[q] = k /\ pc'[q] = "wait"
  BY <1>2, <1>3, <1>4 DEF Flights
<1>8. QED
  BY <1>1, <1>3, <1>5, <1>6, <1>7 DEF Flights

\* The steps of a HEAD that leave the table of flights alone.
LEMMA ProbeOrReconcile ==
  ASSUME NEW r \in Request, Probe(r) \/ Reconcile(r) \/ DatabaseError(r)
  PROVE  /\ pc[r] \in Leading
         /\ \E l \in Leading \cup {"idle", "open"} : Goto(r, l) /\ (r \in Head => l # "open")
         /\ UNCHANGED <<leaders, waiters, upstream>>
<1> USE DEF Leading
<1>1. CASE Probe(r)
  BY <1>1 DEF Probe, ProbeOk, ProbeFailure, ProbeError, Finish
<1>2. CASE Reconcile(r)
  BY <1>2 DEF Reconcile, Lookup, Delete, Ensure, Add, Headers, AfterHeaders, Continue
<1>3. CASE DatabaseError(r)
  BY <1>3 DEF DatabaseError, Finish
<1>4. QED
  BY <1>1, <1>2, <1>3

LEMMA FlightsStep ==
  ASSUME ReconcileInv, [Next]_reconcileVars
  PROVE  Flights'
<1> DEFINE S == Leading \cup {"idle", "wait", "answer"}
<1>1. Flights /\ pc \in [Request -> S]
  BY DEF ReconcileInv, TypeOK
<1>2. ASSUME NEW r \in Head, Lead(r) PROVE Flights'
  BY <1>1, <1>2, LeadFlight, HeadsAreRequests
<1>3. ASSUME NEW r \in Head, Wait(r) PROVE Flights'
  BY <1>1, <1>3, WaitFlight, HeadsAreRequests
<1>4. ASSUME NEW r \in Head, Probe(r) \/ Reconcile(r) \/ DatabaseError(r) PROVE Flights'
  <2>1. r \in Request /\ pc[r] \in Leading /\ "wait" \notin Leading /\ UNCHANGED <<leaders, waiters>>
    BY <1>4, ProbeOrReconcile, HeadsAreRequests DEF Leading
  <2>2. PICK l \in Leading \cup {"idle", "open"} : Goto(r, l)
    BY <1>4, <2>1, ProbeOrReconcile
  <2>3. QED
    BY <1>1, <2>1, <2>2, QuietFlight
<1>5. ASSUME NEW r \in Head, Publish(r) PROVE Flights'
  BY <1>1, <1>5, PublishFlight
<1>6. ASSUME NEW r \in Head, Answer(r) PROVE Flights'
  BY <1>1, <1>6, QuietFlight, HeadsAreRequests DEF Answer, Finish, Leading
<1>7. ASSUME NEW r \in Head, Cancel(r) PROVE Flights'
  BY <1>1, <1>7, CancelFlight, HeadsAreRequests
<1>8. ASSUME UNCHANGED <<pc, leaders, waiters>> PROVE Flights'
  BY <1>1, <1>8 DEF Flights, NoWaiterLost
<1>9. QED
  BY <1>2, <1>3, <1>4, <1>5, <1>6, <1>7, <1>8
  DEF Next, Step, UpstreamMoves, reconcileVars, ReconcileInv

-----------------------------------------------------------------------------
(* Types *)

LEMMA TypeInit == Init => TypeOK
BY HeadsAreRequests, Versioned DEF Init, TypeOK

\* What the database statements do to rows, and what they leave alone.
LEMMA RowTypes ==
  ASSUME row \in [Key -> Row \cup {NoRow}], NEW r \in Request, probed[r] \in Version, Reconcile(r)
  PROVE  row' \in [Key -> Row \cup {NoRow}]
<1>1. KeyOf[r] \in Key
  BY RequestKeys
<1>2. CASE Lookup(r) \/ Ensure(r)
  BY <1>2 DEF Lookup, Ensure
<1>3. CASE Delete(r)
  BY <1>1, <1>3 DEF Delete
<1>4. CASE Add(r)
  BY <1>1, <1>4, AddedRow DEF Add
<1>5. CASE Headers(r)
  BY <1>1, <1>5, SetHeaders DEF Headers
<1>6. QED
  BY <1>2, <1>3, <1>4, <1>5 DEF Reconcile

LEMMA TypeStep ==
  ASSUME ReconcileInv, [Next]_reconcileVars
  PROVE  TypeOK'
<1> USE HeadsAreRequests DEF Leading
<1>1. TypeOK /\ Flights /\ Versions
  BY DEF ReconcileInv
<1>2. ASSUME NEW r \in Head, Lead(r) \/ Wait(r)
      PROVE  TypeOK'
  <2>1. leaders' \subseteq Key /\ waiters' \in [Key -> SUBSET Head]
    BY <1>1, <1>2, RequestKeys DEF TypeOK, Lead, Wait
  <2>2. QED
    BY <1>1, <1>2, <2>1 DEF TypeOK, Lead, Wait, Arrive, Goto
<1>3. ASSUME NEW r \in Head, Probe(r) \/ DatabaseError(r)
      PROVE  TypeOK'
  <2>1. upstream[KeyOf[r]] \in Version
    BY <1>1, RequestKeys DEF TypeOK
  <2>2. QED
    BY <1>1, <1>3, <2>1 DEF TypeOK, Probe, ProbeOk, ProbeFailure, ProbeError, DatabaseError, Finish, Goto
<1>4. ASSUME NEW r \in Head, Reconcile(r)
      PROVE  TypeOK'
  <2>1. probed[r] \in Version
    BY <1>1, <1>4 DEF Versions, Reconciling, Reconcile, Lookup, Delete, Ensure, Add, Headers
  <2>2. row' \in [Key -> Row \cup {NoRow}]
    BY <1>1, <1>4, <2>1, RowTypes DEF TypeOK
  <2>3. UNCHANGED <<upstream, leaders, waiters, probed>>
    BY <1>4 DEF Reconcile, Lookup, Delete, Ensure, Add, Headers, AfterHeaders, Continue
  <2>4. CASE ~ Headers(r)
    <3>1. /\ UNCHANGED outcome
          /\ \E l \in {"delete", "ensure", "add", "headers"} : Goto(r, l)
      BY <1>4, <2>4 DEF Reconcile, Lookup, Delete, Ensure, Add, Continue
    <3>2. QED
      BY <1>1, <2>2, <2>3, <3>1 DEF TypeOK, Goto
  <2>5. CASE Headers(r)
    BY <1>1, <2>2, <2>3, <2>5 DEF TypeOK, Headers, AfterHeaders, Goto
  <2>6. QED
    BY <2>4, <2>5
<1>5. ASSUME NEW r \in Head, Publish(r)
      PROVE  TypeOK'
  <2>1. leaders' \subseteq Key /\ waiters' \in [Key -> SUBSET Head]
    BY <1>1, <1>5 DEF TypeOK, Publish
  <2>2. outcome[r] # "none"
    BY <1>1, <1>5 DEF TypeOK, Publish
  <2>3. QED
    BY <1>1, <1>5, <2>1, <2>2 DEF TypeOK, Publish
<1>6. ASSUME NEW r \in Head, Answer(r) \/ Cancel(r)
      PROVE  TypeOK'
  <2>1. leaders' \subseteq Key /\ waiters' \in [Key -> SUBSET Head]
    BY <1>1, <1>6 DEF TypeOK, Answer, Cancel
  <2>2. QED
    BY <1>1, <1>6, <2>1 DEF TypeOK, Answer, Cancel, Finish, Goto
<1>7. ASSUME NEW k \in Key, UpstreamMoves(k)
      PROVE  TypeOK'
  <2>1. upstream[k] + 1 \in Version
    BY <1>1, <1>7, ReconcileAssumption DEF TypeOK, UpstreamMoves, Version
  <2>2. upstream' \in [Key -> Version]
    BY <1>1, <1>7, <2>1 DEF TypeOK, UpstreamMoves
  <2>3. QED
    BY <1>1, <1>7, <2>2 DEF TypeOK, UpstreamMoves
<1>8. ASSUME UNCHANGED reconcileVars
      PROVE  TypeOK'
  BY <1>1, <1>8 DEF TypeOK, reconcileVars
<1>9. QED
  BY <1>2, <1>3, <1>4, <1>5, <1>6, <1>7, <1>8 DEF Next, Step

-----------------------------------------------------------------------------
(* Versions *)

\* A statement of the leader of a key, which nobody else reconciles.
LEMMA RowStep ==
  ASSUME ReconcileInv, NEW r \in Head, Reconcile(r)
  PROVE  LET k == KeyOf[r] IN
         /\ k \in Key /\ pc[r] \in Reconciling /\ probed[r] \in Version
         /\ \A j \in Key : j # k => row'[j] = row[j]
         /\ \A q \in Head : q # r /\ pc[q] \in Leading => KeyOf[q] # k
         /\ \/ row'[k] = row[k] /\ pc'[r] \in Reconciling
            \/ row'[k] = NoRow /\ pc'[r] \in Reconciling
            \/ row'[k] # NoRow /\ row'[k].headers = 0 /\ pc'[r] \in Reconciling
            \/ /\ row'[k] # NoRow => row'[k].headers = probed[r]
               /\ pc'[r] = "publish" /\ outcome'[r] = "ready"
         /\ \A q \in Request : q # r => pc'[q] = pc[q] /\ outcome'[q] = outcome[q]
         /\ UNCHANGED <<probed, upstream>>
<1> DEFINE k == KeyOf[r]
<1> USE HeadsAreRequests DEF Reconciling
<1>1. TypeOK /\ Flights /\ Versions /\ k \in Key
  BY RequestKeys DEF ReconcileInv
<1>2. pc[r] \in Reconciling /\ UNCHANGED <<probed, upstream>>
  BY DEF Reconcile, Lookup, Delete, Ensure, Add, Headers, AfterHeaders, Continue
<1>3. probed[r] \in Version
  BY <1>1, <1>2 DEF Versions
<1>4. \A q \in Head : q # r /\ pc[q] \in Leading => KeyOf[q] # k
  BY <1>1, <1>2 DEF Flights, Leading
<1>5. \A q \in Request : q # r => pc'[q] = pc[q] /\ outcome'[q] = outcome[q]
  BY <1>1 DEF TypeOK, Reconcile, Lookup, Delete, Ensure, Add, Headers, AfterHeaders, Continue, Goto
<1>6. CASE Lookup(r) \/ Ensure(r)
  <2>1. row' = row /\ pc'[r] \in Reconciling
    BY <1>1, <1>6 DEF TypeOK, Lookup, Ensure, Continue, Goto
  <2>2. QED
    BY <1>1, <1>2, <1>3, <1>4, <1>5, <2>1
<1>7. CASE Delete(r)
  <2>1. row'[k] = NoRow /\ (\A j \in Key : j # k => row'[j] = row[j]) /\ pc'[r] \in Reconciling
    BY <1>1, <1>7 DEF TypeOK, Delete, Continue, Goto
  <2>2. QED
    BY <1>1, <1>2, <1>3, <1>4, <1>5, <2>1
<1>8. CASE Add(r)
  <2>1. /\ row'[k] = [size |-> probed[r], headers |-> 0]
        /\ \A j \in Key : j # k => row'[j] = row[j]
        /\ pc'[r] \in Reconciling
    BY <1>1, <1>8 DEF TypeOK, Add, Continue, Goto
  <2>2. row'[k] # NoRow /\ row'[k].headers = 0
    BY <1>3, <2>1, AddedRow
  <2>3. QED
    BY <1>1, <1>2, <1>3, <1>4, <1>5, <2>1, <2>2
<1>9. CASE Headers(r)
  <2>1. pc'[r] = "publish" /\ outcome'[r] = "ready"
    BY <1>1, <1>9 DEF TypeOK, Headers, AfterHeaders, Goto
  <2>2. /\ row'[k] # NoRow => row'[k].headers = probed[r]
        /\ \A j \in Key : j # k => row'[j] = row[j]
    BY <1>1, <1>3, <1>9, SetHeaders DEF TypeOK, Headers
  <2>3. QED
    BY <1>1, <1>2, <1>3, <1>4, <1>5, <2>1, <2>2
<1>10. QED
  BY <1>6, <1>7, <1>8, <1>9 DEF Reconcile

LEMMA HeadersAreNumbers ==
  ASSUME TypeOK, NEW k \in Key, row[k] # NoRow
  PROVE  row[k] \in Row /\ row[k].headers \in Nat
<1>1. row[k] \in Row
  BY DEF TypeOK
<1>2. row[k].headers \in Version \cup {0}
  BY <1>1, Versioned
<1>3. QED
  BY <1>1, <1>2, Versioned

LEMMA VersionsStep ==
  ASSUME ReconcileInv, [Next]_reconcileVars
  PROVE  Versions'
<1> USE HeadsAreRequests, Versioned DEF Versions
<1>1. TypeOK /\ Flights /\ Versions
  BY DEF ReconcileInv
<1>2. /\ pc \in [Request -> Leading \cup {"idle", "wait", "answer"}]
      /\ outcome \in [Request -> {"none", "ready", "forward"}]
      /\ probed \in [Request -> Version \cup {0}]
      /\ upstream \in [Key -> Version]
      /\ row \in [Key -> Row \cup {NoRow}]
  BY <1>1 DEF TypeOK
<1>3. ASSUME NEW r \in Head, Lead(r) \/ Wait(r) \/ Probe(r) \/ DatabaseError(r) \/ Answer(r) \/ Cancel(r)
      PROVE  Versions'
  <2>1. /\ UNCHANGED <<row, upstream>> /\ KeyOf[r] \in Key
        /\ \A q \in Head : q # r => /\ pc'[q] = pc[q] /\ probed'[q] = probed[q]
                                    /\ outcome'[q] = outcome[q]
    BY <1>2, <1>3, RequestKeys
    DEF Lead, Wait, Arrive, Probe, ProbeOk, ProbeFailure, ProbeError, DatabaseError, Answer, Cancel,
        Finish, Goto
  <2>2. \/ /\ pc'[r] \notin Reconciling /\ probed'[r] \in {0, probed[r]}
           /\ pc'[r] \in {"publish", "answer"} => outcome'[r] = "forward"
        \/ pc'[r] = "lookup" /\ probed'[r] = upstream[KeyOf[r]]
    BY <1>2, <1>3
    DEF Lead, Wait, Arrive, Probe, ProbeOk, ProbeFailure, ProbeError, DatabaseError, Answer, Cancel,
        Finish, Goto, Reconciling
  <2>3. CASE pc'[r] = "lookup" /\ probed'[r] = upstream[KeyOf[r]]
    <3> DEFINE k == KeyOf[r]
    <3>1. upstream[k] \in Version /\ upstream[k] \in Nat /\ NoNewer(k, upstream[k])
      BY <1>1, <1>2, <2>1
    <3>2. \A q \in Head : probed'[q] <= upstream'[KeyOf[q]]
      BY <1>1, <2>1, <2>3, <3>1
    <3>3. \A q \in Head : pc'[q] \in Reconciling => probed'[q] \in Version /\ NoNewer(KeyOf[q], probed[q])'
      BY <1>1, <2>1, <2>3, <3>1 DEF NoNewer
    <3>4. \A q \in Head : pc'[q] \in {"publish", "answer"} /\ outcome'[q] = "ready"
                            => NoOlder(KeyOf[q], probed[q])'
      BY <1>1, <2>1, <2>3 DEF NoOlder
    <3>5. \A p, q \in Head :
            pc'[q] = "answer" /\ outcome'[q] = "ready" /\ pc'[p] \in Reconciling /\ KeyOf[p] = KeyOf[q]
              => probed'[q] <= probed'[p]
      BY <1>1, <2>1, <2>3
    <3>6. \A j \in Key : NoNewer(j, upstream[j])'
      BY <1>1, <2>1 DEF NoNewer
    <3>7. QED
      BY <3>2, <3>3, <3>4, <3>5, <3>6
  <2>4. CASE /\ pc'[r] \notin Reconciling /\ probed'[r] \in {0, probed[r]}
             /\ pc'[r] \in {"publish", "answer"} => outcome'[r] = "forward"
    <3>1. probed'[r] <= upstream[KeyOf[r]]
      <4>1. upstream[KeyOf[r]] \in Nat
        BY <1>2, <2>1
      <4>2. QED
        BY <1>1, <2>4, <4>1
    <3>2. \A q \in Head : probed'[q] <= upstream'[KeyOf[q]]
      BY <1>1, <2>1, <3>1
    <3>3. \A q \in Head : pc'[q] \in Reconciling => probed'[q] \in Version /\ NoNewer(KeyOf[q], probed[q])'
      BY <1>1, <2>1, <2>4 DEF NoNewer
    <3>4. \A q \in Head : pc'[q] \in {"publish", "answer"} /\ outcome'[q] = "ready"
                            => NoOlder(KeyOf[q], probed[q])'
      BY <1>1, <2>1, <2>4 DEF NoOlder
    <3>5. \A p, q \in Head :
            pc'[q] = "answer" /\ outcome'[q] = "ready" /\ pc'[p] \in Reconciling /\ KeyOf[p] = KeyOf[q]
              => probed'[q] <= probed'[p]
      BY <1>1, <2>1, <2>4
    <3>6. \A j \in Key : NoNewer(j, upstream[j])'
      BY <1>1, <2>1 DEF NoNewer
    <3>7. QED
      BY <3>2, <3>3, <3>4, <3>5, <3>6
  <2>5. QED
    BY <2>2, <2>3, <2>4
<1>4. ASSUME NEW r \in Head, Reconcile(r)
      PROVE  Versions'
  <2> DEFINE k == KeyOf[r]
  <2>1. /\ k \in Key /\ pc[r] \in Reconciling /\ probed[r] \in Version
        /\ \A j \in Key : j # k => row'[j] = row[j]
        /\ \A q \in Head : q # r /\ pc[q] \in Leading => KeyOf[q] # k
        /\ \A q \in Request : q # r => pc'[q] = pc[q] /\ outcome'[q] = outcome[q]
        /\ UNCHANGED <<probed, upstream>>
    BY <1>4, RowStep
  <2>2. probed[r] <= upstream[k] /\ NoNewer(k, upstream[k]) /\ NoNewer(k, probed[r])
    BY <1>1, <2>1
  <2>3. NoNewer(k, probed[r])' /\ NoNewer(k, upstream[k])'
    <3>1. probed[r] \in Nat /\ upstream[k] \in Nat
      BY <1>2, <2>1
    <3>2. \/ row'[k] = row[k] \/ row'[k] = NoRow \/ row'[k].headers \in {0, probed[r]}
      BY <1>4, RowStep
    <3>3. QED
      BY <2>1, <2>2, <3>1, <3>2 DEF NoNewer
  <2>4. ASSUME NEW q \in Head, KeyOf[q] = k, pc'[q] \in {"publish", "answer"}, outcome'[q] = "ready"
        PROVE  NoOlder(k, probed[q])'
    <3>1. CASE q = r
      <4>1. row'[k] # NoRow => row'[k].headers = probed[r]
        BY <1>4, <2>4, <3>1, RowStep DEF Reconciling
      <4>2. probed[r] \in Nat
        BY <2>1
      <4>3. QED
        BY <2>1, <3>1, <4>1, <4>2 DEF NoOlder
    <3>2. CASE q # r
      <4>1. pc[q] = "answer" /\ outcome[q] = "ready"
        BY <2>1, <2>4, <3>2 DEF Leading
      <4>2. NoOlder(k, probed[q]) /\ probed[q] <= probed[r]
        BY <1>1, <2>1, <2>4, <4>1
      <4>3. \/ row'[k] = row[k] \/ row'[k] = NoRow \/ row'[k].headers \in {0, probed[r]}
        BY <1>4, RowStep
      <4>4. probed[r] \in Nat /\ probed[q] \in Version \cup {0}
        BY <1>2, <2>1
      <4>5. probed[q] \in Nat
        BY <4>4
      <4>6. QED
        BY <2>1, <4>2, <4>3, <4>4, <4>5 DEF NoOlder
    <3>3. QED
      BY <3>1, <3>2
  <2>5. ASSUME NEW q \in Head, KeyOf[q] # k
        PROVE  /\ pc'[q] = pc[q] /\ outcome'[q] = outcome[q]
               /\ row'[KeyOf[q]] = row[KeyOf[q]] /\ KeyOf[q] \in Key
    BY <2>1, <2>5, RequestKeys
  <2>6. \A j \in Key : NoNewer(j, upstream[j])'
    BY <1>1, <2>1, <2>3 DEF NoNewer
  <2>7. \A q \in Head : pc'[q] \in Reconciling => probed[q] \in Version /\ NoNewer(KeyOf[q], probed[q])'
    <3> SUFFICES ASSUME NEW q \in Head, pc'[q] \in Reconciling
                 PROVE  probed[q] \in Version /\ NoNewer(KeyOf[q], probed[q])'
      OBVIOUS
    <3>1. CASE q = r
      BY <2>1, <2>3, <3>1
    <3>2. CASE q # r
      <4>1. KeyOf[q] # k /\ pc[q] \in Reconciling
        BY <2>1, <3>2 DEF Reconciling, Leading
      <4>2. QED
        BY <1>1, <2>1, <2>5, <4>1 DEF NoNewer
    <3>3. QED
      BY <3>1, <3>2
  <2>8. \A q \in Head : pc'[q] \in {"publish", "answer"} /\ outcome'[q] = "ready"
                          => NoOlder(KeyOf[q], probed[q])'
    <3> SUFFICES ASSUME NEW q \in Head, pc'[q] \in {"publish", "answer"}, outcome'[q] = "ready"
                 PROVE  NoOlder(KeyOf[q], probed[q])'
      OBVIOUS
    <3>1. CASE KeyOf[q] = k
      BY <2>4, <3>1
    <3>2. CASE KeyOf[q] # k
      BY <1>1, <2>1, <2>5, <3>2 DEF NoOlder
    <3>3. QED
      BY <3>1, <3>2
  <2>9. \A p, q \in Head :
          pc'[q] = "answer" /\ outcome'[q] = "ready" /\ pc'[p] \in Reconciling /\ KeyOf[p] = KeyOf[q]
            => probed[q] <= probed[p]
    <3>1. \A q \in Head : /\ pc'[q] \in Reconciling => pc[q] \in Reconciling
                          /\ pc'[q] = "answer" => pc[q] = "answer" /\ outcome'[q] = outcome[q]
      BY <1>4, <2>1, RowStep DEF Reconciling
    <3>2. QED
      BY <1>1, <3>1
  <2>10. QED
    BY <1>1, <2>1, <2>6, <2>7, <2>8, <2>9
<1>5. ASSUME NEW r \in Head, Publish(r)
      PROVE  Versions'
  <2> DEFINE k == KeyOf[r]
  <2>1. /\ \A q \in Told(r) : q \in Head /\ KeyOf[q] = k /\ pc'[q] = "answer"
        /\ \A q \in Request \ Told(r) : pc'[q] = pc[q]
        /\ \A q \in Head : pc'[q] \in Leading => KeyOf[q] # k
    BY <1>1, <1>2, <1>5, PublishFlight
  <2>2. /\ pc[r] = "publish" /\ UNCHANGED <<row, upstream>>
        /\ \A q \in Head : q \in Told(r) => outcome'[q] = outcome[r] /\ probed'[q] = probed[r]
        /\ \A q \in Head : q \notin Told(r) => outcome'[q] = outcome[q] /\ probed'[q] = probed[q]
    BY <1>5 DEF Publish
  <2>3. \A q \in Head : probed'[q] <= upstream'[KeyOf[q]]
    BY <1>1, <2>1, <2>2
  <2>4. \A q \in Head : pc'[q] \in Reconciling => probed'[q] \in Version /\ NoNewer(KeyOf[q], probed[q])'
    BY <1>1, <2>1, <2>2 DEF NoNewer, Reconciling
  <2>5. \A q \in Head : pc'[q] \in {"publish", "answer"} /\ outcome'[q] = "ready"
                          => NoOlder(KeyOf[q], probed[q])'
    BY <1>1, <2>1, <2>2 DEF NoOlder
  <2>6. \A p, q \in Head :
          pc'[q] = "answer" /\ outcome'[q] = "ready" /\ pc'[p] \in Reconciling /\ KeyOf[p] = KeyOf[q]
            => probed'[q] <= probed'[p]
    <3> SUFFICES ASSUME NEW p \in Head, NEW q \in Head, pc'[q] = "answer", outcome'[q] = "ready",
                        pc'[p] \in Reconciling, KeyOf[p] = KeyOf[q]
                 PROVE  probed'[q] <= probed'[p]
      OBVIOUS
    <3>1. KeyOf[p] # k /\ p \notin Told(r) /\ q \notin Told(r)
      BY <2>1 DEF Reconciling, Leading
    <3>2. QED
      BY <1>1, <2>1, <2>2, <3>1
  <2>7. \A j \in Key : NoNewer(j, upstream[j])'
    BY <1>1, <2>2 DEF NoNewer
  <2>8. QED
    BY <2>3, <2>4, <2>5, <2>6, <2>7
<1>6. ASSUME NEW j \in Key, UpstreamMoves(j)
      PROVE  Versions'
  <2>1. /\ UNCHANGED <<row, pc, probed, outcome>>
        /\ \A k \in Key : upstream'[k] >= upstream[k] /\ upstream[k] \in Nat /\ upstream'[k] \in Nat
    <3>1. \A k \in Key : upstream[k] \in Nat
      BY <1>2
    <3>2. QED
      BY <1>2, <1>6, <3>1 DEF UpstreamMoves
  <2>2. \A k \in Key : NoNewer(k, upstream[k])'
    <3> SUFFICES ASSUME NEW k \in Key, row[k] # NoRow
                 PROVE  row[k].headers <= upstream'[k]
      BY <2>1 DEF NoNewer
    <3>1. row[k].headers \in Nat /\ row[k].headers <= upstream[k]
      BY <1>1, HeadersAreNumbers DEF NoNewer
    <3>2. QED
      BY <2>1, <3>1
  <2>3. \A r \in Head : probed[r] <= upstream'[KeyOf[r]]
    <3> SUFFICES ASSUME NEW r \in Head
                 PROVE  probed[r] <= upstream'[KeyOf[r]]
      OBVIOUS
    <3>1. probed[r] \in Version \cup {0} /\ probed[r] <= upstream[KeyOf[r]] /\ KeyOf[r] \in Key
      BY <1>1, <1>2, RequestKeys
    <3>2. probed[r] \in Nat
      BY <3>1
    <3>3. QED
      BY <2>1, <3>1, <3>2
  <2>4. QED
    BY <1>1, <2>1, <2>2, <2>3 DEF NoNewer, NoOlder
<1>7. ASSUME UNCHANGED reconcileVars
      PROVE  Versions'
  BY <1>1, <1>7 DEF reconcileVars, NoNewer, NoOlder
<1>8. QED
  BY <1>3, <1>4, <1>5, <1>6, <1>7 DEF Next, Step

-----------------------------------------------------------------------------
(* Contents *)

OfOneVersion(k) ==
  row[k] # NoRow /\ Etag(row[k]) # NoEtag => Equivalent(Etag(row[k]), EtagOf[row[k].size])

\* The size of k's row is of the content of version v.
Fits(k, v) ==
  row[k] # NoRow /\ EtagOf[v] # NoEtag => Equivalent(EtagOf[v], EtagOf[row[k].size])

LEMMA ContentsByKey ==
  Contents <=> /\ \A k \in Key : OfOneVersion(k)
               /\ \A r \in Head : pc[r] \in {"ensure", "headers"} => Fits(KeyOf[r], probed[r])
BY DEF Contents, RowOfOneVersion, OfOneVersion, Fits

LEMMA ContentsStep ==
  ASSUME ReconcileInv, [Next]_reconcileVars
  PROVE  Contents'
<1> USE HeadsAreRequests
<1>1. TypeOK /\ Flights /\ Versions
  BY DEF ReconcileInv
<1>2. /\ \A k \in Key : OfOneVersion(k)
      /\ \A r \in Head : pc[r] \in {"ensure", "headers"} => Fits(KeyOf[r], probed[r])
  BY ContentsByKey DEF ReconcileInv
<1> SUFFICES /\ \A k \in Key : OfOneVersion(k)'
             /\ \A r \in Head : pc'[r] \in {"ensure", "headers"} => Fits(KeyOf[r], probed[r])'
  BY DEF Contents, RowOfOneVersion, OfOneVersion, Fits
<1>3. /\ pc \in [Request -> Leading \cup {"idle", "wait", "answer"}]
      /\ probed \in [Request -> Version \cup {0}]
      /\ row \in [Key -> Row \cup {NoRow}]
  BY <1>1 DEF TypeOK
<1>4. ASSUME UNCHANGED row,
             \A q \in Head : pc'[q] \in {"ensure", "headers"} => pc'[q] = pc[q] /\ probed'[q] = probed[q]
      PROVE  /\ \A k \in Key : OfOneVersion(k)'
             /\ \A r \in Head : pc'[r] \in {"ensure", "headers"} => Fits(KeyOf[r], probed[r])'
  BY <1>2, <1>4 DEF OfOneVersion, Fits
<1>5. ASSUME NEW r \in Head, Lead(r) \/ Wait(r) \/ Probe(r) \/ DatabaseError(r) \/ Answer(r) \/ Cancel(r)
      PROVE  /\ UNCHANGED row
             /\ \A q \in Head : pc'[q] \in {"ensure", "headers"} => pc'[q] = pc[q] /\ probed'[q] = probed[q]
  BY <1>3, <1>5
  DEF Lead, Wait, Arrive, Probe, ProbeOk, ProbeFailure, ProbeError, DatabaseError, Answer, Cancel,
      Finish, Goto
<1>6. ASSUME NEW r \in Head, Publish(r)
      PROVE  /\ UNCHANGED row
             /\ \A q \in Head : pc'[q] \in {"ensure", "headers"} => pc'[q] = pc[q] /\ probed'[q] = probed[q]
  BY <1>6 DEF Publish
<1>7. ASSUME NEW r \in Head, Reconcile(r)
      PROVE  /\ \A k \in Key : OfOneVersion(k)'
             /\ \A q \in Head : pc'[q] \in {"ensure", "headers"} => Fits(KeyOf[q], probed[q])'
  <2> DEFINE k == KeyOf[r]
             v == probed[r]
  <2>1. /\ k \in Key /\ v \in Version /\ UNCHANGED probed
        /\ \A j \in Key : j # k => row'[j] = row[j]
        /\ \A q \in Head : q # r /\ pc[q] \in Leading => KeyOf[q] # k
        /\ \A q \in Request : q # r => pc'[q] = pc[q]
    BY <1>7, RowStep
  <2>2. v # 0 /\ OfOneVersion(k)
    BY <1>2, <2>1, Versioned
  <2>3. OfOneVersion(k)' /\ (pc'[r] \in {"ensure", "headers"} => Fits(k, v)')
    <3>1. CASE Lookup(r)
      <4>1. UNCHANGED row /\ (pc'[r] \in {"ensure", "headers"} => row[k] = NoRow \/ ~ Outdated(row[k], v))
        BY <1>3, <3>1 DEF Lookup, Continue, Goto
      <4>2. QED
        BY <2>1, <2>2, <4>1 DEF OfOneVersion, Fits, Outdated, Equivalent
    <3>2. CASE Delete(r)
      BY <1>3, <2>1, <3>2 DEF Delete, OfOneVersion, Fits
    <3>3. CASE Ensure(r)
      <4>1. UNCHANGED row /\ Fits(k, v)
        BY <1>2, <3>3 DEF Ensure
      <4>2. QED
        BY <2>1, <2>2, <4>1 DEF OfOneVersion, Fits
    <3>4. CASE Add(r)
      <4>1. row'[k] = [size |-> v, headers |-> 0]
        BY <1>3, <2>1, <3>4 DEF Add
      <4>2. QED
        BY <2>1, <4>1 DEF OfOneVersion, Fits, Etag, Equivalent
    <3>5. CASE Headers(r)
      <4>1. Fits(k, v)
        BY <1>2, <3>5 DEF Headers
      <4>2. /\ row'[k] # NoRow => row[k] # NoRow /\ row'[k].headers = v /\ row'[k].size = row[k].size
            /\ pc'[r] = "publish"
        BY <1>3, <2>1, <3>5, SetHeaders DEF Headers, AfterHeaders, Goto
      <4>3. QED
        BY <2>2, <4>1, <4>2 DEF OfOneVersion, Fits, Etag
    <3>6. QED
      BY <1>7, <3>1, <3>2, <3>3, <3>4, <3>5 DEF Reconcile
  <2>4. \A j \in Key : OfOneVersion(j)'
    BY <1>2, <2>1, <2>3 DEF OfOneVersion
  <2>5. ASSUME NEW q \in Head, pc'[q] \in {"ensure", "headers"}
        PROVE  Fits(KeyOf[q], probed[q])'
    <3>1. CASE q = r
      BY <2>1, <2>3, <2>5, <3>1 DEF Fits
    <3>2. CASE q # r
      <4>1. pc[q] \in {"ensure", "headers"} /\ KeyOf[q] \in Key \ {k}
        BY <2>1, <2>5, <3>2, RequestKeys DEF Leading
      <4>2. QED
        BY <1>2, <2>1, <4>1 DEF Fits
    <3>3. QED
      BY <3>1, <3>2
  <2>6. QED
    BY <2>4, <2>5
<1>8. ASSUME UNCHANGED <<row, pc, probed>>
      PROVE  /\ UNCHANGED row
             /\ \A q \in Head : pc'[q] \in {"ensure", "headers"} => pc'[q] = pc[q] /\ probed'[q] = probed[q]
  BY <1>8
<1>9. QED
  BY <1>4, <1>5, <1>6, <1>7, <1>8 DEF Next, Step, UpstreamMoves, reconcileVars

\* No statement of a flight takes a row that has headers back to older ones.
LEMMA HeadersStep ==
  ASSUME ReconcileInv, [Next]_reconcileVars, NEW k \in Key,
         row[k] # NoRow, row'[k] # NoRow, row'[k].headers # 0
  PROVE  row'[k].headers >= row[k].headers
<1>1. TypeOK /\ Versions /\ row[k].headers \in Nat
  BY HeadersAreNumbers DEF ReconcileInv
<1>2. ASSUME NEW r \in Head, Reconcile(r)
      PROVE  row'[k].headers >= row[k].headers
  <2>1. CASE k = KeyOf[r]
    <3>1. \/ row'[k] = row[k]
          \/ row'[k].headers = probed[r]
      BY <1>2, <2>1, RowStep
    <3>2. probed[r] >= row[k].headers
      <4>1. pc[r] \in Reconciling /\ probed[r] \in Version
        BY <1>2, RowStep
      <4>2. NoNewer(k, probed[r]) /\ probed[r] \in Nat
        BY <1>1, <2>1, <4>1, Versioned DEF Versions
      <4>3. QED
        BY <1>1, <4>2 DEF NoNewer
    <3>3. QED
      BY <1>1, <3>1, <3>2
  <2>2. CASE k # KeyOf[r]
    BY <1>1, <1>2, <2>2, RowStep
  <2>3. QED
    BY <2>1, <2>2
<1>3. CASE UNCHANGED row
  BY <1>1, <1>3
<1>4. QED
  BY <1>2, <1>3
  DEF Next, Step, Probe, ProbeOk, ProbeFailure, ProbeError, DatabaseError, Lead, Wait, Arrive, Publish,
      Answer, Cancel, UpstreamMoves, reconcileVars

-----------------------------------------------------------------------------
(* The theorems *)

LEMMA ReconcileInit == Init => ReconcileInv
<1> SUFFICES ASSUME Init PROVE ReconcileInv
  OBVIOUS
<1>1. Versions
  <2>1. \A r \in Head : probed[r] = 0 /\ upstream[KeyOf[r]] = 1 /\ pc[r] = "idle"
    BY HeadsAreRequests, RequestKeys DEF Init
  <2>2. QED
    BY <2>1 DEF Init, Versions, NoNewer, NoOlder, Reconciling
<1>2. Contents
  BY HeadsAreRequests DEF Init, Contents, RowOfOneVersion
<1>3. QED
  BY <1>1, <1>2, TypeInit, FlightsInit DEF ReconcileInv

THEOREM ReconcileInvariant == Spec => []ReconcileInv
<1>1. ReconcileInv /\ [Next]_reconcileVars => ReconcileInv'
  BY TypeStep, FlightsStep, VersionsStep, ContentsStep DEF ReconcileInv
<1>2. QED
  BY ReconcileInit, <1>1, PTL DEF Spec

\* Rows, flights and requests are well typed; whoever publishes or answers has an
\* outcome (reconcile_metadata_singleflight).
THEOREM ReconcileTypesCorrect == Spec => []TypeOK
<1>1. ReconcileInv => TypeOK
  BY DEF ReconcileInv
<1>2. QED
  BY <1>1, ReconcileInvariant, PTL

\* However many HEADs of a file come at a time, fail or are dropped, one of them at
\* most probes and reconciles (the entry in MetadataInflight.leaders).
THEOREM LeadersAreSingle == Spec => []OneLeader
<1>1. ReconcileInv => OneLeader
  BY DEF ReconcileInv, Flights, OneLeader, Leader
<1>2. QED
  BY <1>1, ReconcileInvariant, PTL

\* Whoever waits is on the list of the flight it waits for (the waiters of the entry).
THEOREM WaitersAreKept == Spec => []NoWaiterLost
<1>1. ReconcileInv => NoWaiterLost
  BY DEF ReconcileInv, Flights
<1>2. QED
  BY <1>1, ReconcileInvariant, PTL

\* As long as HEADs alone reconcile it, the size and the headers of a row are of one
\* content (should_delete in reconcile_fetched_metadata).
THEOREM RowsAreOfOneVersion == Spec => []RowOfOneVersion
<1>1. ReconcileInv => RowOfOneVersion
  BY DEF ReconcileInv, Contents
<1>2. QED
  BY <1>1, ReconcileInvariant, PTL

\* Whoever is told that the row is up to date finds headers no older than were
\* fetched for it, whatever flights follow (reconcile_fetched_metadata).
THEOREM AnswersAreFresh == Spec => []FreshAnswer
<1>1. ReconcileInv => FreshAnswer
  BY DEF ReconcileInv, Versions, NoOlder, FreshAnswer
<1>2. QED
  BY <1>1, ReconcileInvariant, PTL

\* The headers of a row never go back to those of an older version.
THEOREM HeadersOnlyMoveForward == Spec => HeadersMoveForward
<1>1. ReconcileInv /\ [Next]_reconcileVars =>
        [\A k \in Key :
           row[k] # NoRow /\ row'[k] # NoRow /\ row'[k].headers # 0
             => row'[k].headers >= row[k].headers]_reconcileVars
  BY HeadersStep
<1>2. QED
  BY <1>1, ReconcileInvariant, PTL DEF Spec, HeadersMoveForward
=============================================================================
