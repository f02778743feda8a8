----------------------------- MODULE AgentProofs -----------------------------
(* Theorems about the resident agent, for every set of workers, connections,  *)
(* grant ids, nonces, boxes and requests, every limit, timeout and bound:     *)
(* first about its grants (AgentGrants, and its refinement of GrantLedger),   *)
(* then about the composed agent (Agent) and its listener (AgentServer).      *)
EXTENDS Agent, AgentServer, FiniteSetTheorems, TLAPS

-----------------------------------------------------------------------------
(* Lemmas on the helpers *)

\* What purge leaves of the grant map is a grant map.
LEMMA PurgedGrantsType ==
    ASSUME NEW g \in [Scopes -> Entry \union {None}], NEW a, NEW t
    PROVE  PurgedGrants(g, a, t) \in [Scopes -> Entry \union {None}]
BY DEF PurgedGrants

\* What purge leaves of the nonce memory is a nonce memory.
LEMMA PurgedNoncesType ==
    ASSUME NEW u \in [Nonces -> Int \union {None}], NEW t
    PROVE  PurgedNonces(u, t) \in [Nonces -> Int \union {None}]
BY DEF PurgedNonces

\* The DEK a grant handler is at is one of its request's.
LEMMA CurrentDekType ==
    ASSUME TypeOK, NEW w \in Workers,
           pc[w] \in InGrant, pc[w] # "publish"
    PROVE  /\ CurrentDek(w) \in DekInput
           /\ req[w] \in GrantRequest
<1>1. /\ req[w] \in GrantRequest
      /\ acc[w].done \in Nat
      /\ acc[w].done < Len(req[w].deks)
  BY RequestsAssumption DEF TypeOK, Acc
<1>2. req[w].deks \in Seq(DekInput)
  BY <1>1 DEF GrantRequest
<1>. QED
  BY <1>1, <1>2 DEF CurrentDek

\* A grant handler starts from nothing gathered.
LEMMA NoAccType == NoAcc \in Acc
BY DEF NoAcc, Acc, NoDeks, NoNonces

-----------------------------------------------------------------------------
(* Type correctness *)

\* The part of TypeOK about worker w's locals, at instant t.
LocalOK(p, r, a, s, t) ==
    /\ p \in {"idle"} \union InGrant \union InUse
    /\ r \in GrantRequests \union UseRequests \union {None}
    /\ a \in Acc
    /\ s \in Entry \union {None}
    /\ p \in InGrant => /\ r \in GrantRequests
                        /\ a.instant <= t
                        /\ a.done \in 0..Len(r.deks)
                        /\ p # "publish" => a.done < Len(r.deks)
    /\ p \in InUse => r \in UseRequests
    /\ p \notin InGrant => a = NoAcc
    /\ s # None <=> p = "open"

SharedOK ==
    /\ now \in Nat
    /\ offset \in Int
    /\ keypair \in Nat
    /\ grants \in [Scopes -> Entry \union {None}]
    /\ used_grant_nonces \in [Nonces -> Int \union {None}]
    /\ last_activity \in 0..now
    /\ consumed \in [Boxes -> [times: Nat, until: Int \union {None}]]

LocalsAreFunctions ==
    /\ pc = [w \in Workers |-> pc[w]]
    /\ req = [w \in Workers |-> req[w]]
    /\ acc = [w \in Workers |-> acc[w]]
    /\ snap = [w \in Workers |-> snap[w]]

LocalsOK == \A w \in Workers : LocalOK(pc[w], req[w], acc[w], snap[w], now)

\* TypeOK in parts: the shared state, that the locals are functions, and each
\* worker's locals.
LEMMA TypeOKSplit == TypeOK <=> SharedOK /\ LocalsAreFunctions /\ LocalsOK
BY DEF TypeOK, SharedOK, LocalsAreFunctions, LocalsOK, LocalOK

\* A step that changes at most worker w's locals.
LEMMA OneWorkerMoves ==
    ASSUME TypeOK, NEW w \in Workers,
           NEW p, NEW r, NEW a, NEW s,
           pc' = [pc EXCEPT ![w] = p],
           req' = [req EXCEPT ![w] = r],
           acc' = [acc EXCEPT ![w] = a],
           snap' = [snap EXCEPT ![w] = s],
           now' \in Nat, now <= now',
           LocalOK(p, r, a, s, now'),
           SharedOK'
    PROVE  TypeOK'
<1>1. LocalsAreFunctions'
  BY TypeOKSplit DEF LocalsAreFunctions
<1>2. ASSUME NEW v \in Workers
      PROVE  LocalOK(pc[v], req[v], acc[v], snap[v], now)'
  <2>1. LocalOK(pc[v], req[v], acc[v], snap[v], now) /\ now \in Nat
    BY TypeOKSplit DEF LocalsOK, SharedOK
  <2>2. CASE v = w
    <3>1. /\ pc'[v] = p /\ req'[v] = r /\ acc'[v] = a /\ snap'[v] = s
      BY <2>2 DEF TypeOK
    <3>. QED
      BY <3>1 DEF LocalOK
  <2>3. CASE v # w
    <3>1. /\ pc'[v] = pc[v] /\ req'[v] = req[v]
          /\ acc'[v] = acc[v] /\ snap'[v] = snap[v]
      BY <2>3 DEF TypeOK
    <3>2. acc[v].instant \in Nat
      BY DEF TypeOK, Acc
    <3>. QED
      BY <2>1, <3>1, <3>2 DEF LocalOK
  <2>. QED
    BY <2>2, <2>3
<1>3. LocalsOK'
  BY <1>2 DEF LocalsOK
<1>4. (TypeOK <=> SharedOK /\ LocalsAreFunctions /\ LocalsOK)'
  BY TypeOKSplit, PTL
<1>. QED
  BY <1>1, <1>3, <1>4

\* A step that changes no worker's locals.
LEMMA NoLocalMoves ==
    ASSUME TypeOK, UNCHANGED <<pc, req, acc, snap>>,
           now' \in Nat, now <= now', SharedOK'
    PROVE  TypeOK'
<1>1. LocalsAreFunctions'
  BY TypeOKSplit DEF LocalsAreFunctions
<1>2. ASSUME NEW v \in Workers
      PROVE  LocalOK(pc[v], req[v], acc[v], snap[v], now)'
  <2>1. LocalOK(pc[v], req[v], acc[v], snap[v], now) /\ now \in Nat
    BY TypeOKSplit DEF LocalsOK, SharedOK
  <2>2. acc[v].instant \in Nat
    BY DEF TypeOK, Acc
  <2>. QED
    BY <2>1, <2>2 DEF LocalOK
<1>3. LocalsOK'
  BY <1>2 DEF LocalsOK
<1>4. (TypeOK <=> SharedOK /\ LocalsAreFunctions /\ LocalsOK)'
  BY TypeOKSplit, PTL
<1>. QED
  BY <1>1, <1>3, <1>4

\* An idle worker without a request has well-typed locals.
LEMMA IdleOK ==
    ASSUME NEW t
    PROVE  LocalOK("idle", None, NoAcc, None, t)
BY NoAccType DEF LocalOK, InGrant, InUse

\* A handler that gives up or is done.
LEMMA AbortType ==
    ASSUME TypeOK, NEW w \in Workers, Abort(w),
           now' \in Nat, now <= now', SharedOK'
    PROVE  TypeOK'
BY OneWorkerMoves, IdleOK DEF Abort

\* A step that leaves the shared state alone.
LEMMA SharedUnchanged ==
    ASSUME TypeOK, UNCHANGED <<clocks, keypair, state, consumed>>
    PROVE  SharedOK' /\ now' \in Nat /\ now <= now'
BY DEF TypeOK, SharedOK, clocks, state

\* The part of a worker's locals that a step does not mention.
LEMMA SameLocal ==
    ASSUME TypeOK, NEW w \in Workers
    PROVE  /\ pc = [pc EXCEPT ![w] = pc[w]]
           /\ req = [req EXCEPT ![w] = req[w]]
           /\ acc = [acc EXCEPT ![w] = acc[w]]
           /\ snap = [snap EXCEPT ![w] = snap[w]]
           /\ LocalOK(pc[w], req[w], acc[w], snap[w], now)
BY TypeOKSplit DEF TypeOK, LocalsOK

\* Accepting a grant frame keeps TypeOK.
LEMMA GrantBeginType ==
    ASSUME TypeOK, NEW w \in Workers, NEW r \in GrantRequests, GrantBegin(w, r)
    PROVE  TypeOK'
<1>. DEFINE a == [NoAcc EXCEPT !.expires_at = now + r.ttl]
<1>1. r \in GrantRequest /\ now \in Nat
  BY RequestsAssumption DEF TypeOK
<1>2. a \in Acc /\ a.instant = 0 /\ a.done = 0
  BY <1>1, NoAccType DEF GrantRequest, Acc, NoAcc
<1>3. r.deks \in Seq(DekInput) /\ r.deks # <<>>
  BY <1>1 DEF GrantRequest, GrantBegin
<1>4. Len(r.deks) \in Nat /\ 0 < Len(r.deks)
  BY <1>3
<1>5. snap[w] = None /\ snap' = [snap EXCEPT ![w] = snap[w]]
  BY SameLocal DEF GrantBegin, TypeOK
<1>6. SharedOK' /\ now' \in Nat /\ now <= now' /\ now' = now
  BY SharedUnchanged DEF GrantBegin, clocks
<1>7. LocalOK("validate", r, a, None, now')
  BY <1>1, <1>2, <1>4, <1>6 DEF LocalOK, InGrant, InUse
<1>. QED
  BY <1>5, <1>6, <1>7, OneWorkerMoves DEF GrantBegin

\* validate_approval_not_expired keeps TypeOK.
LEMMA ValidateApprovalType ==
    ASSUME TypeOK, NEW w \in Workers, ValidateApproval(w)
    PROVE  TypeOK'
<1>1. SharedOK' /\ now' \in Nat /\ now <= now' /\ now' = now
  BY SharedUnchanged DEF ValidateApproval, clocks
<1>2. CASE Abort(w)
  BY <1>1, <1>2, AbortType
<1>3. CASE pc' = [pc EXCEPT ![w] = "instant"] /\ UNCHANGED <<req, acc, snap>>
  <2>1. LocalOK("instant", req[w], acc[w], snap[w], now')
    BY <1>1, SameLocal DEF LocalOK, InGrant, InUse, ValidateApproval
  <2>2. /\ req' = [req EXCEPT ![w] = req[w]]
        /\ acc' = [acc EXCEPT ![w] = acc[w]]
        /\ snap' = [snap EXCEPT ![w] = snap[w]]
    BY <1>3, SameLocal
  <2>3. pc' = [pc EXCEPT ![w] = pc'[w]] /\ LocalOK(pc'[w], req[w], acc[w], snap[w], now')
    BY <1>3, <2>1 DEF TypeOK
  <2>. QED
    BY <1>1, <2>2, <2>3, OneWorkerMoves
<1>. QED
  BY <1>2, <1>3 DEF ValidateApproval

\* Reading the monotonic clock in approval_expiry_instant keeps TypeOK.
LEMMA ReadInstantType ==
    ASSUME TypeOK, NEW w \in Workers, ReadInstant(w)
    PROVE  TypeOK'
<1>. DEFINE a == [acc[w] EXCEPT !.instant = now]
<1>1. SharedOK' /\ now' \in Nat /\ now <= now' /\ now' = now
  BY SharedUnchanged DEF ReadInstant, clocks
<1>2. acc' = [acc EXCEPT ![w] = a]
  BY DEF ReadInstant, TypeOK
<1>3. acc[w] \in Acc /\ now \in Nat
  BY DEF TypeOK
<1>4. a \in Acc /\ a.instant = now /\ a.done = acc[w].done
  BY <1>3 DEF Acc
<1>5. LocalOK("wall", req[w], a, snap[w], now')
  BY <1>1, <1>4, SameLocal DEF LocalOK, InGrant, InUse, ReadInstant
<1>6. /\ pc' = [pc EXCEPT ![w] = "wall"]
      /\ req' = [req EXCEPT ![w] = req[w]]
      /\ snap' = [snap EXCEPT ![w] = snap[w]]
  BY SameLocal DEF ReadInstant
<1>. HIDE DEF a
<1>. QED
  BY <1>1, <1>2, <1>5, <1>6, OneWorkerMoves

\* Opening a blind box and gathering its DEK keeps TypeOK.
LEMMA AddDekType ==
    ASSUME TypeOK, NEW w \in Workers, AddDek(w)
    PROVE  TypeOK'
<1>1. SharedOK' /\ now' \in Nat /\ now <= now' /\ now' = now
  BY SharedUnchanged DEF AddDek, clocks
<1>2. CASE Abort(w)
  BY <1>1, <1>2, AbortType
<1>3. CASE ~Abort(w)
  <2>. DEFINE d == CurrentDek(w)
              a == [done |-> acc[w].done + 1,
                    instant |-> acc[w].instant,
                    expires_at |-> Min2(acc[w].expires_at, ApprovalExpiry(w)),
                    deks |-> [acc[w].deks EXCEPT ![d.key] = d.box],
                    nonces |-> [acc[w].nonces EXCEPT ![d.nonce] =
                                    ApprovalExpiry(w)]]
              next == IF acc[w].done + 1 = Len(req[w].deks)
                      THEN "publish" ELSE "validate"
  <2>1. /\ pc[w] = "wall"
        /\ acc' = [acc EXCEPT ![w] = a]
        /\ pc' = [pc EXCEPT ![w] = next]
        /\ UNCHANGED <<req, snap>>
    BY <1>3 DEF AddDek
  <2>2. d \in DekInput /\ req[w] \in GrantRequest
    BY <2>1, CurrentDekType DEF InGrant
  <2>3. acc[w] \in Acc /\ now \in Nat /\ offset \in Int
    BY DEF TypeOK
  <2>4. ApprovalExpiry(w) \in Int
    BY <2>2, <2>3 DEF ApprovalExpiry, DekInput, Acc, Wall
  <2>5. Min2(acc[w].expires_at, ApprovalExpiry(w)) \in Int
    BY <2>3, <2>4 DEF Min2, Acc
  <2>6. a \in Acc
    BY <2>2, <2>3, <2>4, <2>5 DEF Acc, DekInput
  <2>7. /\ req[w] \in GrantRequests
        /\ acc[w].instant <= now
        /\ acc[w].done \in Nat
        /\ acc[w].done < Len(req[w].deks)
        /\ snap[w] = None
    BY <2>1, <2>3 DEF TypeOK, InGrant, Acc
  <2>8. Len(req[w].deks) \in Nat
    BY <2>2 DEF GrantRequest
  <2>9. LocalOK(next, req[w], a, snap[w], now')
    BY <1>1, <2>6, <2>7, <2>8 DEF LocalOK, InGrant, InUse
  <2>. HIDE DEF a, next
  <2>10. /\ req' = [req EXCEPT ![w] = req[w]]
         /\ snap' = [snap EXCEPT ![w] = snap[w]]
    BY <2>1, SameLocal
  <2>. QED
    BY <1>1, <2>1, <2>9, <2>10, OneWorkerMoves
<1>. QED
  BY <1>2, <1>3

\* publish_grant keeps TypeOK.
LEMMA PublishGrantType ==
    ASSUME TypeOK, NEW w \in Workers, PublishGrant(w)
    PROVE  TypeOK'
<1>1. /\ now \in Nat /\ now' \in Nat /\ now <= now'
      /\ last_activity \in 0..now
      /\ offset' = offset /\ keypair' = keypair
  BY NumbersAssumption DEF PublishGrant, Later, TypeOK
<1>2. PurgedGrants(grants, last_activity, now) \in [Scopes -> Entry \union {None}]
  BY PurgedGrantsType DEF TypeOK
<1>3. PurgedNonces(used_grant_nonces, now) \in [Nonces -> Int \union {None}]
  BY PurgedNoncesType DEF TypeOK
<1>4. acc[w] \in Acc
  BY DEF TypeOK
<1>5. req[w] \in GrantRequest
  BY RequestsAssumption DEF TypeOK, PublishGrant, InGrant
<1>6. grants' \in [Scopes -> Entry \union {None}]
  <2>1. [expires_at |-> acc[w].expires_at, deks |-> acc[w].deks] \in Entry
    BY <1>4 DEF Acc, Entry
  <2>. QED
    BY <1>2, <1>5, <2>1 DEF PublishGrant, GrantRequest
<1>7. used_grant_nonces' \in [Nonces -> Int \union {None}]
  BY <1>3, <1>4 DEF PublishGrant, Acc
<1>8. last_activity' \in 0..now'
  BY <1>1 DEF PublishGrant
<1>9. consumed' \in [Boxes -> [times: Nat, until: Int \union {None}]]
  <2>1. \A b \in Boxes : acc[w].nonces[b.nonce] \in Int \union {None}
    BY <1>4, BoxesAssumption DEF Acc, Box
  <2>2. consumed \in [Boxes -> [times: Nat, until: Int \union {None}]]
    BY DEF TypeOK
  <2>. QED
    BY <2>1, <2>2 DEF PublishGrant
<1>10. SharedOK'
  BY <1>1, <1>6, <1>7, <1>8, <1>9 DEF SharedOK, TypeOK
<1>. QED
  BY <1>1, <1>10, AbortType DEF PublishGrant

\* release and revoke keep TypeOK.
LEMMA ReleaseType ==
    ASSUME TypeOK, NEW w \in Workers, NEW s \in Scopes, Release(w, s)
    PROVE  TypeOK'
<1>. DEFINE purged == PurgedGrants(grants, last_activity, now)
            nonces == PurgedNonces(used_grant_nonces, now)
<1>1. /\ now \in Nat /\ now' \in Nat /\ now <= now'
      /\ last_activity \in 0..now
      /\ offset' = offset /\ keypair' = keypair /\ consumed' = consumed
  BY NumbersAssumption DEF Release, Later, TypeOK
<1>2. purged \in [Scopes -> Entry \union {None}]
  BY PurgedGrantsType DEF TypeOK
<1>3. nonces \in [Nonces -> Int \union {None}]
  BY PurgedNoncesType DEF TypeOK
<1>4. [purged EXCEPT ![s] = None] \in [Scopes -> Entry \union {None}]
  BY <1>2
<1>. HIDE DEF purged, nonces
<1>5. /\ grants' \in [Scopes -> Entry \union {None}]
      /\ used_grant_nonces' \in [Nonces -> Int \union {None}]
      /\ last_activity' \in 0..now'
  <2>1. CASE /\ grants' = purged /\ used_grant_nonces' = nonces
             /\ UNCHANGED <<now, last_activity>>
    BY <1>1, <1>2, <1>3, <2>1
  <2>2. CASE \E t \in now..now' :
                /\ grants' = PurgedGrants([purged EXCEPT ![s] = None],
                                          last_activity, t)
                /\ used_grant_nonces' = PurgedNonces(nonces, t)
                /\ last_activity' = now'
    <3>1. PICK t \in now..now' :
                /\ grants' = PurgedGrants([purged EXCEPT ![s] = None],
                                          last_activity, t)
                /\ used_grant_nonces' = PurgedNonces(nonces, t)
                /\ last_activity' = now'
      BY <2>2
    <3>2. grants' \in [Scopes -> Entry \union {None}]
      BY <1>4, <3>1, PurgedGrantsType
    <3>3. used_grant_nonces' \in [Nonces -> Int \union {None}]
      BY <1>3, <3>1, PurgedNoncesType
    <3>4. last_activity' \in 0..now'
      BY <1>1, <3>1
    <3>. QED
      BY <3>2, <3>3, <3>4
  <2>. QED
    BY <2>1, <2>2 DEF Release, purged, nonces
<1>6. SharedOK'
  BY <1>1, <1>5 DEF SharedOK, TypeOK
<1>. QED
  BY <1>1, <1>6, SameLocal, NoLocalMoves DEF Release, locals

\* Accepting a delivery or sign frame keeps TypeOK.
LEMMA UseBeginType ==
    ASSUME TypeOK, NEW w \in Workers, NEW r \in UseRequests, UseBegin(w, r)
    PROVE  TypeOK'
<1>. DEFINE next == IF r.master THEN "master" ELSE "snapshot"
<1>1. SharedOK' /\ now' \in Nat /\ now <= now'
  BY SharedUnchanged DEF UseBegin, clocks
<1>2. next \in {"master", "snapshot"}
  OBVIOUS
<1>3. pc' = [pc EXCEPT ![w] = next] /\ req' = [req EXCEPT ![w] = r]
  BY DEF UseBegin
<1>. HIDE DEF next
<1>4. LocalOK(next, r, acc[w], snap[w], now')
  BY <1>2, SameLocal DEF LocalOK, InGrant, InUse, UseBegin
<1>5. /\ acc' = [acc EXCEPT ![w] = acc[w]]
      /\ snap' = [snap EXCEPT ![w] = snap[w]]
  BY SameLocal DEF UseBegin
<1>. QED
  BY <1>1, <1>3, <1>4, <1>5, OneWorkerMoves

\* The return of master.get keeps TypeOK.
LEMMA MasterReturnsType ==
    ASSUME TypeOK, NEW w \in Workers, MasterReturns(w)
    PROVE  TypeOK'
<1>1. SharedOK' /\ now' \in Nat /\ now <= now'
  BY SharedUnchanged DEF MasterReturns
<1>2. CASE Abort(w)
  BY <1>1, <1>2, AbortType
<1>3. CASE pc' = [pc EXCEPT ![w] = "snapshot"] /\ UNCHANGED <<req, acc, snap>>
  <2>1. LocalOK("snapshot", req[w], acc[w], snap[w], now')
    BY SameLocal DEF LocalOK, InGrant, InUse, MasterReturns
  <2>2. /\ req' = [req EXCEPT ![w] = req[w]]
        /\ acc' = [acc EXCEPT ![w] = acc[w]]
        /\ snap' = [snap EXCEPT ![w] = snap[w]]
    BY <1>3, SameLocal
  <2>3. pc' = [pc EXCEPT ![w] = pc'[w]] /\ LocalOK(pc'[w], req[w], acc[w], snap[w], now')
    BY <1>3, <2>1 DEF TypeOK
  <2>. QED
    BY <1>1, <2>2, <2>3, OneWorkerMoves
<1>. QED
  BY <1>2, <1>3 DEF MasterReturns

\* Cloning the grant after the master load keeps TypeOK.
LEMMA SnapshotType ==
    ASSUME TypeOK, NEW w \in Workers, Snapshot(w)
    PROVE  TypeOK'
<1>1. SharedOK' /\ now' \in Nat /\ now <= now'
  BY SharedUnchanged DEF Snapshot
<1>2. CASE Abort(w)
  BY <1>1, <1>2, AbortType
<1>3. CASE ~Abort(w)
  <2>. DEFINE s == grants[req[w].scope]
  <2>1. /\ LiveGrant(req[w].scope)
        /\ pc' = [pc EXCEPT ![w] = "open"]
        /\ snap' = [snap EXCEPT ![w] = s]
        /\ UNCHANGED <<req, acc>>
    BY <1>3 DEF Snapshot
  <2>2. req[w].scope \in Scopes
    BY RequestsAssumption DEF TypeOK, Snapshot, InUse, UseRequest
  <2>3. s \in Entry \union {None} /\ s # None
    BY <2>1, <2>2 DEF TypeOK, LiveGrant
  <2>4. LocalOK("open", req[w], acc[w], s, now')
    BY <2>3, SameLocal DEF LocalOK, InGrant, InUse, Snapshot
  <2>5. /\ req' = [req EXCEPT ![w] = req[w]]
        /\ acc' = [acc EXCEPT ![w] = acc[w]]
    BY <2>1, SameLocal
  <2>. HIDE DEF s
  <2>. QED
    BY <1>1, <2>1, <2>4, <2>5, OneWorkerMoves
<1>. QED
  BY <1>2, <1>3

\* The crypto of open_with_grant keeps TypeOK.
LEMMA OpenEnvelopesType ==
    ASSUME TypeOK, NEW w \in Workers, OpenEnvelopes(w)
    PROVE  TypeOK'
<1>1. SharedOK' /\ now' \in Nat /\ now <= now'
  BY SharedUnchanged DEF OpenEnvelopes
<1>2. CASE Abort(w)
  BY <1>1, <1>2, AbortType
<1>3. CASE /\ pc' = [pc EXCEPT ![w] = "record"]
           /\ snap' = [snap EXCEPT ![w] = None]
           /\ UNCHANGED <<req, acc>>
  <2>1. LocalOK("record", req[w], acc[w], None, now')
    BY SameLocal DEF LocalOK, InGrant, InUse, OpenEnvelopes
  <2>2. /\ req' = [req EXCEPT ![w] = req[w]]
        /\ acc' = [acc EXCEPT ![w] = acc[w]]
    BY <1>3, SameLocal
  <2>. QED
    BY <1>1, <1>3, <2>1, <2>2, OneWorkerMoves
<1>. QED
  BY <1>2, <1>3 DEF OpenEnvelopes

\* record_activity keeps TypeOK.
LEMMA RecordActivityType ==
    ASSUME TypeOK, NEW w \in Workers, RecordActivity(w)
    PROVE  TypeOK'
<1>1. /\ now \in Nat /\ now' \in Nat /\ now <= now'
      /\ last_activity' \in 0..now'
      /\ offset' = offset /\ keypair' = keypair /\ consumed' = consumed
  BY NumbersAssumption DEF RecordActivity, Later, TypeOK
<1>2. /\ grants' \in [Scopes -> Entry \union {None}]
      /\ used_grant_nonces' \in [Nonces -> Int \union {None}]
  BY PurgedGrantsType, PurgedNoncesType DEF TypeOK, RecordActivity
<1>3. SharedOK'
  BY <1>1, <1>2 DEF SharedOK, TypeOK
<1>4. LocalOK("io", req[w], acc[w], snap[w], now')
  BY SameLocal DEF LocalOK, InGrant, InUse, RecordActivity
<1>5. /\ pc' = [pc EXCEPT ![w] = "io"]
      /\ req' = [req EXCEPT ![w] = req[w]]
      /\ acc' = [acc EXCEPT ![w] = acc[w]]
      /\ snap' = [snap EXCEPT ![w] = snap[w]]
  BY SameLocal DEF RecordActivity
<1>. QED
  BY <1>1, <1>3, <1>4, <1>5, OneWorkerMoves

\* The listener's purge keeps TypeOK.
LEMMA MaintainType ==
    ASSUME TypeOK, Maintain
    PROVE  TypeOK'
<1>1. /\ grants' \in [Scopes -> Entry \union {None}]
      /\ used_grant_nonces' \in [Nonces -> Int \union {None}]
  BY PurgedGrantsType, PurgedNoncesType DEF TypeOK, Maintain
<1>2. SharedOK' /\ now' \in Nat /\ now <= now'
  BY <1>1 DEF SharedOK, TypeOK, Maintain, clocks
<1>. QED
  BY <1>2, NoLocalMoves DEF Maintain, locals

\* Init and Restart put every worker in the same place.
LEMMA FreshType ==
    ASSUME SharedOK, pc = AllIdle, req = NoRequests,
           acc = NoAccs, snap = NoRequests
    PROVE  TypeOK
<1>1. LocalsAreFunctions
  BY DEF LocalsAreFunctions, AllIdle, NoRequests, NoAccs
<1>2. LocalsOK
  BY IdleOK DEF LocalsOK, AllIdle, NoRequests, NoAccs
<1>. QED
  BY <1>1, <1>2, TypeOKSplit

\* A restart of the agent keeps TypeOK.
LEMMA RestartType ==
    ASSUME TypeOK, Restart
    PROVE  TypeOK'
<1>1. SharedOK'
  BY DEF SharedOK, TypeOK, Restart, NoGrants, NoNonces, clocks
<1>2. (SharedOK /\ pc = AllIdle /\ req = NoRequests /\ acc = NoAccs
            /\ snap = NoRequests => TypeOK)'
  BY FreshType, PTL
<1>. QED
  BY <1>1, <1>2 DEF Restart, AllIdle, NoRequests, NoAccs

\* Time passing and the wall clock being set keep TypeOK.
LEMMA ClockType ==
    ASSUME TypeOK, Tick \/ StepWall
    PROVE  TypeOK'
<1>1. SharedOK' /\ now' \in Nat /\ now <= now'
  BY NumbersAssumption DEF SharedOK, TypeOK, Tick, StepWall, state
<1>. QED
  BY <1>1, NoLocalMoves DEF Tick, StepWall, locals

\* Type correctness: a handler's locals exist only while the handler runs, and
\* in particular a cloned grant only between the snapshot and the end of the
\* crypto.
THEOREM TypeCorrect == Spec => []TypeOK
<1>1. Init => TypeOK
  <2>1. Init => SharedOK
    BY DEF Init, SharedOK, NoGrants, NoNonces
  <2>. QED
    BY <2>1, FreshType DEF Init
<1>2. TypeOK /\ [Next]_vars => TypeOK'
  <2>1. ASSUME TypeOK, Next PROVE TypeOK'
    <3>1. ASSUME NEW w \in Workers, Step(w) PROVE TypeOK'
      BY <2>1, <3>1, ValidateApprovalType, ReadInstantType, AddDekType,
         PublishGrantType, SnapshotType, OpenEnvelopesType,
         RecordActivityType DEF Step
    <3>2. ASSUME NEW w \in Workers, FinishIO(w) PROVE TypeOK'
      BY <2>1, <3>2, SharedUnchanged, AbortType DEF FinishIO
    <3>. QED
      BY <2>1, <3>1, <3>2, GrantBeginType, UseBeginType, ReleaseType,
         MasterReturnsType, MaintainType, RestartType, ClockType DEF Next
  <2>2. ASSUME TypeOK, UNCHANGED vars PROVE TypeOK'
    BY <2>2 DEF TypeOK, vars, clocks, state, locals
  <2>. QED
    BY <2>1, <2>2
<1>. QED
  BY <1>1, <1>2, PTL DEF Spec

-----------------------------------------------------------------------------
(***************************************************************************)
(* The inductive invariant behind the promises about approvals.  None of   *)
(* them is inductive alone: what publish_grant may rely on is what the     *)
(* handler's loop gathered in its locals, long before the lock is taken,   *)
(* and what the nonce memory still knows when it is.                       *)
(***************************************************************************)

\* A `grant` handler's locals: every DEK gathered so far was sealed to this
\* request and this process, its nonce is among the pending ones, and the
\* grant-to-be ends no later than any pending nonce's expiry or than the ttl.
PendingOK(r, a, kp, t) ==
    /\ a.expires_at <= t + r.ttl
    /\ \A k \in DekKeys : a.deks[k] # None =>
        /\ a.deks[k].scope = r.scope
        /\ a.deks[k].key = k
        /\ a.deks[k].ttl = r.ttl
        /\ a.deks[k].agent = kp
        /\ a.nonces[a.deks[k].nonce] # None
        /\ a.expires_at <= a.nonces[a.deks[k].nonce]

Pending ==
    \A w \in Workers :
        pc[w] \in InGrant => PendingOK(req[w], acc[w], keypair, now)

\* GrantMatchesApproval and ApprovalsBackOneGrant of any grants g and nonces u.
Matching(g, kp, t) ==
    \A s \in Scopes : g[s] # None =>
        \A k \in DekKeys : g[s].deks[k] # None =>
            /\ g[s].deks[k].scope = s
            /\ g[s].deks[k].key = k
            /\ g[s].deks[k].agent = kp
            /\ g[s].expires_at <= t + g[s].deks[k].ttl

Backed(g, u) ==
    \A s \in Scopes : g[s] # None =>
        \A k \in DekKeys : g[s].deks[k] # None =>
            /\ u[g[s].deks[k].nonce] # None
            /\ u[g[s].deks[k].nonce] >= g[s].expires_at
            /\ \A t \in Scopes \ {s} : g[t] # None =>
                \A l \in DekKeys : g[t].deks[l] # None =>
                    g[t].deks[l].nonce # g[s].deks[k].nonce

\* A box that has been published cannot be again, because it was sealed to an
\* earlier process or its nonce is remembered, until its expiry has passed.
Remembered(c, u, kp, t) ==
    \A b \in Boxes :
        /\ c[b].until \in Int
        /\ c[b].times = 0 => c[b].until = 0
        /\ c[b].times > 0 =>
            /\ b.agent <= kp
            /\ \/ b.agent < kp
               \/ c[b].until <= t
               \/ u[b.nonce] # None /\ u[b.nonce] >= c[b].until

\* What the shared state satisfies besides its type.
LedgerInv ==
    /\ Matching(grants, keypair, now)
    /\ Backed(grants, used_grant_nonces)
    /\ Remembered(consumed, used_grant_nonces, keypair, now)

ApprovalInv == TypeOK /\ Pending /\ LedgerInv

\* A box names its nonce, its process and its ttl.
LEMMA BoxFields ==
    ASSUME NEW b \in Boxes
    PROVE  b.nonce \in Nonces /\ b.agent \in Nat /\ b.ttl \in Nat /\ b # None
BY BoxesAssumption, NoneAssumption DEF Box

\* purge takes grants out and never brings one in or alters one.
LEMMA PurgedGrantKept ==
    ASSUME NEW g \in [Scopes -> Entry \union {None}], NEW a \in Int, NEW t \in Int,
           NEW s \in Scopes, PurgedGrants(g, a, t)[s] # None
    PROVE  /\ PurgedGrants(g, a, t)[s] = g[s]
           /\ g[s] # None
           /\ g[s].expires_at > t
<1>1. g[s] # None /\ ~Lapsed(g[s], a, t) /\ PurgedGrants(g, a, t)[s] = g[s]
  BY DEF PurgedGrants
<1>2. g[s].expires_at \in Int
  BY <1>1 DEF Entry
<1>. QED
  BY <1>1, <1>2 DEF Lapsed

\* purge forgets a nonce exactly when its instant has passed.
LEMMA PurgedNonceKept ==
    ASSUME NEW u \in [Nonces -> Int \union {None}], NEW t \in Int,
           NEW n \in Nonces, u[n] # None
    PROVE  IF u[n] > t THEN PurgedNonces(u, t)[n] = u[n]
                       ELSE PurgedNonces(u, t)[n] = None /\ u[n] <= t
BY DEF PurgedNonces

\* Purging grants and nonces at one instant keeps every remaining grant backed:
\* a nonce outlives the grants made from it.
LEMMA PurgeKeepsBacked ==
    ASSUME NEW g \in [Scopes -> Entry \union {None}],
           NEW u \in [Nonces -> Int \union {None}],
           NEW a \in Int, NEW t \in Int, Backed(g, u)
    PROVE  Backed(PurgedGrants(g, a, t), PurgedNonces(u, t))
<1>. DEFINE h == PurgedGrants(g, a, t)
            v == PurgedNonces(u, t)
<1>1. \A s \in Scopes : h[s] # None =>
            h[s] = g[s] /\ g[s] # None /\ g[s].expires_at > t
  BY PurgedGrantKept
<1>2. SUFFICES ASSUME NEW s \in Scopes, h[s] # None,
                      NEW k \in DekKeys, h[s].deks[k] # None
               PROVE  /\ v[h[s].deks[k].nonce] # None
                      /\ v[h[s].deks[k].nonce] >= h[s].expires_at
                      /\ \A r \in Scopes \ {s} : h[r] # None =>
                            \A l \in DekKeys : h[r].deks[l] # None =>
                                h[r].deks[l].nonce # h[s].deks[k].nonce
  BY DEF Backed
<1>. HIDE DEF h
<1>3. h[s] = g[s] /\ g[s] # None /\ g[s].expires_at > t /\ g[s] \in Entry
  BY <1>1, <1>2
<1>4. g[s].deks[k] \in Boxes /\ g[s].expires_at \in Int
  BY <1>2, <1>3 DEF Entry
<1>5. g[s].deks[k].nonce \in Nonces
  BY <1>4, BoxFields
<1>6. /\ u[g[s].deks[k].nonce] # None
      /\ u[g[s].deks[k].nonce] >= g[s].expires_at
      /\ \A r \in Scopes \ {s} : g[r] # None =>
            \A l \in DekKeys : g[r].deks[l] # None =>
                g[r].deks[l].nonce # g[s].deks[k].nonce
  BY <1>2, <1>3 DEF Backed
<1>7. u[g[s].deks[k].nonce] > t
  BY <1>3, <1>4, <1>5, <1>6
<1>8. v[g[s].deks[k].nonce] = u[g[s].deks[k].nonce]
  BY <1>5, <1>6, <1>7, PurgedNonceKept
<1>. HIDE DEF v
<1>. QED
  BY <1>1, <1>3, <1>6, <1>8

\* purge: the grants that stay still match their approvals.
LEMMA PurgeKeepsMatching ==
    ASSUME NEW g \in [Scopes -> Entry \union {None}],
           NEW a \in Int, NEW t \in Int, NEW kp \in Nat,
           NEW m \in Nat, NEW n \in Nat, m <= n, Matching(g, kp, m)
    PROVE  Matching(PurgedGrants(g, a, t), kp, n)
<1>. DEFINE h == PurgedGrants(g, a, t)
<1>1. \A s \in Scopes : h[s] # None => h[s] = g[s] /\ g[s] # None
  BY PurgedGrantKept
<1>. HIDE DEF h
<1>2. SUFFICES ASSUME NEW s \in Scopes, h[s] # None,
                      NEW k \in DekKeys, h[s].deks[k] # None
               PROVE  /\ h[s].deks[k].scope = s
                      /\ h[s].deks[k].key = k
                      /\ h[s].deks[k].agent = kp
                      /\ h[s].expires_at <= n + h[s].deks[k].ttl
  BY DEF Matching, h
<1>3. h[s] = g[s] /\ g[s] \in Entry
  BY <1>1, <1>2
<1>4. g[s].expires_at \in Int /\ g[s].deks[k] \in Boxes
  BY <1>2, <1>3 DEF Entry
<1>5. g[s].deks[k].ttl \in Nat
  BY <1>4, BoxFields
<1>. QED
  BY <1>1, <1>2, <1>3, <1>4, <1>5 DEF Matching

\* Purging at an instant that is no later than the new time forgets nothing
\* that is still needed.
LEMMA PurgeKeepsRemembered ==
    ASSUME NEW u \in [Nonces -> Int \union {None}], NEW c, NEW kp \in Nat,
           NEW m \in Nat, NEW t \in Int, NEW n \in Nat, m <= n, t <= n,
           Remembered(c, u, kp, m)
    PROVE  Remembered(c, PurgedNonces(u, t), kp, n)
<1>. DEFINE v == PurgedNonces(u, t)
<1>1. SUFFICES ASSUME NEW b \in Boxes, c[b].times > 0
               PROVE  /\ b.agent <= kp
                      /\ \/ b.agent < kp
                         \/ c[b].until <= n
                         \/ v[b.nonce] # None /\ v[b.nonce] >= c[b].until
  BY DEF Remembered
<1>2. b.nonce \in Nonces /\ c[b].until \in Int
  BY BoxFields DEF Remembered
<1>3. b.agent <= kp /\ (\/ b.agent < kp
                        \/ c[b].until <= m
                        \/ u[b.nonce] # None /\ u[b.nonce] >= c[b].until)
  BY <1>1 DEF Remembered
<1>4. CASE u[b.nonce] # None /\ u[b.nonce] >= c[b].until
  <2>1. IF u[b.nonce] > t THEN v[b.nonce] = u[b.nonce] ELSE u[b.nonce] <= t
    BY <1>2, <1>4, PurgedNonceKept
  <2>. HIDE DEF v
  <2>2. u[b.nonce] \in Int
    BY <1>2, <1>4
  <2>. QED
    BY <1>2, <1>3, <1>4, <2>1, <2>2
<1>. QED
  BY <1>2, <1>3, <1>4

\* release: taking a grant out keeps the others as they were.
LEMMA RemoveKeeps ==
    ASSUME NEW g \in [Scopes -> Entry \union {None}], NEW s \in Scopes,
           NEW u, NEW kp, NEW t, Backed(g, u), Matching(g, kp, t)
    PROVE  /\ [g EXCEPT ![s] = None] \in [Scopes -> Entry \union {None}]
           /\ Backed([g EXCEPT ![s] = None], u)
           /\ Matching([g EXCEPT ![s] = None], kp, t)
<1>. DEFINE h == [g EXCEPT ![s] = None]
<1>1. \A r \in Scopes : h[r] # None => h[r] = g[r] /\ g[r] # None
  OBVIOUS
<1>2. h \in [Scopes -> Entry \union {None}]
  OBVIOUS
<1>. HIDE DEF h
<1>3. Backed(h, u)
  BY <1>1 DEF Backed
<1>4. Matching(h, kp, t)
  BY <1>1 DEF Matching
<1>. QED
  BY <1>2, <1>3, <1>4 DEF h

\* A purge, alone or as part of a step that changes nothing else shared.
LEMMA PurgeStep ==
    ASSUME TypeOK, LedgerInv, NEW t \in Int, t <= now', now <= now', now' \in Nat,
           grants' = PurgedGrants(grants, last_activity, t),
           used_grant_nonces' = PurgedNonces(used_grant_nonces, t),
           UNCHANGED <<keypair, consumed>>
    PROVE  LedgerInv'
<1>1. /\ grants \in [Scopes -> Entry \union {None}]
      /\ used_grant_nonces \in [Nonces -> Int \union {None}]
      /\ last_activity \in Int /\ now \in Nat /\ keypair \in Nat
  BY DEF TypeOK
<1>2. Matching(grants', keypair', now')
  BY <1>1, PurgeKeepsMatching DEF LedgerInv
<1>3. Backed(grants', used_grant_nonces')
  BY <1>1, PurgeKeepsBacked DEF LedgerInv
<1>4. Remembered(consumed', used_grant_nonces', keypair', now')
  BY <1>1, PurgeKeepsRemembered DEF LedgerInv
<1>. QED
  BY <1>2, <1>3, <1>4 DEF LedgerInv, Matching, Backed, Remembered

\* Time passing, or a step that only moves a worker.
LEMMA QuietStep ==
    ASSUME TypeOK, LedgerInv, now <= now', now' \in Nat,
           UNCHANGED <<grants, used_grant_nonces, keypair, consumed>>
    PROVE  LedgerInv'
<1>1. /\ grants \in [Scopes -> Entry \union {None}]
      /\ now \in Nat /\ keypair \in Nat
  BY DEF TypeOK
<1>2. Matching(grants, keypair, now')
  <2>1. SUFFICES ASSUME NEW s \in Scopes, grants[s] # None,
                        NEW k \in DekKeys, grants[s].deks[k] # None
                 PROVE  grants[s].expires_at <= now' + grants[s].deks[k].ttl
    BY DEF LedgerInv, Matching
  <2>2. grants[s] \in Entry
    BY <1>1, <2>1
  <2>3. grants[s].expires_at \in Int /\ grants[s].deks[k] \in Boxes
    BY <2>1, <2>2 DEF Entry
  <2>4. grants[s].deks[k].ttl \in Nat
    BY <2>3, BoxFields
  <2>5. grants[s].expires_at <= now + grants[s].deks[k].ttl
    BY <2>1 DEF LedgerInv, Matching
  <2>. QED
    BY <1>1, <2>3, <2>4, <2>5
<1>3. Remembered(consumed, used_grant_nonces, keypair, now')
  <2>1. SUFFICES ASSUME NEW b \in Boxes, consumed[b].until <= now
                 PROVE  consumed[b].until <= now'
    BY DEF LedgerInv, Remembered
  <2>. QED
    BY <1>1, <2>1 DEF LedgerInv, Remembered
<1>. QED
  BY <1>2, <1>3 DEF LedgerInv, Matching, Backed, Remembered

\* A step of worker w that leaves the other workers' locals alone.
LEMMA PendingOneWorker ==
    ASSUME TypeOK, Pending, NEW w \in Workers, NEW p, NEW r, NEW a,
           pc' = [pc EXCEPT ![w] = p],
           req' = [req EXCEPT ![w] = r],
           acc' = [acc EXCEPT ![w] = a],
           keypair' = keypair, now <= now', now' \in Nat,
           p \in InGrant => PendingOK(r, a, keypair, now')
    PROVE  Pending'
<1>1. SUFFICES ASSUME NEW v \in Workers, pc'[v] \in InGrant
               PROVE  PendingOK(req'[v], acc'[v], keypair', now')
  BY DEF Pending, PendingOK
<1>2. CASE v = w
  <2>1. pc'[v] = p /\ req'[v] = r /\ acc'[v] = a
    BY <1>2 DEF TypeOK
  <2>. QED
    BY <1>1, <2>1
<1>3. CASE v # w
  <2>1. pc'[v] = pc[v] /\ req'[v] = req[v] /\ acc'[v] = acc[v]
    BY <1>3 DEF TypeOK
  <2>2. PendingOK(req[v], acc[v], keypair, now)
    BY <1>1, <2>1 DEF Pending
  <2>3. req[v] \in GrantRequest /\ acc[v] \in Acc /\ now \in Nat
    BY <1>1, <2>1, RequestsAssumption DEF TypeOK
  <2>4. req[v].ttl \in Nat /\ acc[v].expires_at \in Int
    BY <2>3 DEF GrantRequest, Acc
  <2>5. acc[v].expires_at <= now' + req[v].ttl
    <3>1. acc[v].expires_at <= now + req[v].ttl
      BY <2>2 DEF PendingOK
    <3>. QED
      BY <2>3, <2>4, <3>1
  <2>6. PendingOK(req[v], acc[v], keypair, now')
    BY <2>2, <2>5 DEF PendingOK
  <2>. QED
    BY <2>1, <2>6
<1>. QED
  BY <1>2, <1>3

\* A handler that gives up has nothing pending.
LEMMA PendingAbort ==
    ASSUME TypeOK, Pending, NEW w \in Workers, Abort(w),
           keypair' = keypair, now <= now', now' \in Nat
    PROVE  Pending'
<1>1. "idle" \notin InGrant
  BY DEF InGrant
<1>2. /\ pc' = [pc EXCEPT ![w] = "idle"]
      /\ req' = [req EXCEPT ![w] = None]
      /\ acc' = [acc EXCEPT ![w] = NoAcc]
  BY DEF Abort
<1>. QED
  BY <1>1, <1>2, PendingOneWorker

\* No worker moves.
LEMMA PendingQuiet ==
    ASSUME TypeOK, Pending, UNCHANGED <<pc, req, acc, keypair>>,
           now <= now', now' \in Nat
    PROVE  Pending'
<1>1. SUFFICES ASSUME NEW v \in Workers, pc[v] \in InGrant
               PROVE  PendingOK(req[v], acc[v], keypair, now')
  BY DEF Pending, PendingOK
<1>2. PendingOK(req[v], acc[v], keypair, now)
  BY <1>1 DEF Pending
<1>3. req[v] \in GrantRequest /\ acc[v] \in Acc /\ now \in Nat
  BY <1>1, RequestsAssumption DEF TypeOK
<1>4. req[v].ttl \in Nat /\ acc[v].expires_at \in Int
  BY <1>3 DEF GrantRequest, Acc
<1>5. acc[v].expires_at <= now' + req[v].ttl
  BY <1>2, <1>3, <1>4 DEF PendingOK
<1>. QED
  BY <1>2, <1>5 DEF PendingOK

\* A grant handler that has gathered nothing has nothing to prove.
LEMMA GrantBeginPending ==
    ASSUME TypeOK, Pending, NEW w \in Workers, NEW r \in GrantRequests,
           GrantBegin(w, r)
    PROVE  Pending'
<1>. DEFINE a == [NoAcc EXCEPT !.expires_at = now + r.ttl]
<1>1. now \in Nat /\ now' = now /\ keypair' = keypair
  BY DEF TypeOK, GrantBegin, clocks
<1>2. r.ttl \in Nat
  BY RequestsAssumption DEF GrantRequest
<1>3. a.expires_at = now + r.ttl /\ a.deks = NoDeks
  BY DEF NoAcc
<1>4. PendingOK(r, a, keypair, now')
  BY <1>1, <1>2, <1>3 DEF PendingOK, NoDeks
<1>5. /\ pc' = [pc EXCEPT ![w] = "validate"]
      /\ req' = [req EXCEPT ![w] = r]
      /\ acc' = [acc EXCEPT ![w] = a]
  BY DEF GrantBegin
<1>. HIDE DEF a
<1>6. now <= now' /\ now' \in Nat
  BY <1>1
<1>. QED
  BY <1>1, <1>4, <1>5, <1>6, PendingOneWorker

\* The steps of a grant handler that only read: the locals the invariant
\* speaks of stay as they are.
LEMMA ValidateApprovalPending ==
    ASSUME TypeOK, Pending, NEW w \in Workers, ValidateApproval(w)
    PROVE  Pending'
<1>1. now' \in Nat /\ now <= now' /\ now' = now /\ keypair' = keypair
  BY DEF TypeOK, ValidateApproval, clocks
<1>2. CASE Abort(w)
  BY <1>1, <1>2, PendingAbort
<1>3. CASE pc' = [pc EXCEPT ![w] = "instant"] /\ UNCHANGED <<req, acc, snap>>
  <2>1. PendingOK(req[w], acc[w], keypair, now')
    BY <1>1 DEF Pending, ValidateApproval, InGrant
  <2>2. /\ pc' = [pc EXCEPT ![w] = "instant"]
        /\ req' = [req EXCEPT ![w] = req[w]]
        /\ acc' = [acc EXCEPT ![w] = acc[w]]
    BY <1>3, SameLocal
  <2>. QED
    BY <1>1, <2>1, <2>2, PendingOneWorker
<1>. QED
  BY <1>2, <1>3 DEF ValidateApproval

\* Reading the clock gathers nothing.
LEMMA ReadInstantPending ==
    ASSUME TypeOK, Pending, NEW w \in Workers, ReadInstant(w)
    PROVE  Pending'
<1>. DEFINE a == [acc[w] EXCEPT !.instant = now]
<1>1. now' \in Nat /\ now <= now' /\ now' = now /\ keypair' = keypair
  BY DEF TypeOK, ReadInstant, clocks
<1>2. acc[w] \in Acc
  BY DEF TypeOK
<1>3. a.deks = acc[w].deks /\ a.nonces = acc[w].nonces
      /\ a.expires_at = acc[w].expires_at
  BY <1>2 DEF Acc
<1>4. PendingOK(req[w], acc[w], keypair, now)
  BY DEF Pending, ReadInstant, InGrant
<1>5. /\ pc' = [pc EXCEPT ![w] = "wall"]
      /\ req' = [req EXCEPT ![w] = req[w]]
      /\ acc' = [acc EXCEPT ![w] = a]
  BY SameLocal DEF ReadInstant, TypeOK
<1>. HIDE DEF a
<1>6. PendingOK(req[w], a, keypair, now')
  BY <1>1, <1>3, <1>4 DEF PendingOK
<1>. QED
  BY <1>1, <1>5, <1>6, PendingOneWorker

\* The loop's body: the presented nonce is new to this request, so no DEK
\* gathered before loses its own nonce's expiry.
LEMMA AddDekPending ==
    ASSUME TypeOK, Pending, NEW w \in Workers, AddDek(w)
    PROVE  Pending'
<1>1. now' \in Nat /\ now <= now' /\ now' = now /\ keypair' = keypair
  BY DEF TypeOK, AddDek, clocks
<1>2. CASE Abort(w)
  BY <1>1, <1>2, PendingAbort
<1>3. CASE ~Abort(w)
  <2>. DEFINE d == CurrentDek(w)
              x == ApprovalExpiry(w)
              a == [done |-> acc[w].done + 1,
                    instant |-> acc[w].instant,
                    expires_at |-> Min2(acc[w].expires_at, x),
                    deks |-> [acc[w].deks EXCEPT ![d.key] = d.box],
                    nonces |-> [acc[w].nonces EXCEPT ![d.nonce] = x]]
              next == IF acc[w].done + 1 = Len(req[w].deks)
                      THEN "publish" ELSE "validate"
  <2>1. /\ pc[w] = "wall"
        /\ DekAccepted(w)
        /\ acc' = [acc EXCEPT ![w] = a]
        /\ pc' = [pc EXCEPT ![w] = next]
        /\ req' = [req EXCEPT ![w] = req[w]]
    BY <1>3, SameLocal DEF AddDek
  <2>2. d \in DekInput /\ req[w] \in GrantRequest
    BY <2>1, CurrentDekType DEF InGrant
  <2>3. acc[w] \in Acc /\ now \in Nat /\ offset \in Int
    BY DEF TypeOK
  <2>4. x \in Int
    BY <2>2, <2>3 DEF ApprovalExpiry, DekInput, Acc, Wall
  <2>5. /\ acc[w].nonces[d.nonce] = None
        /\ d.box.nonce = d.nonce /\ d.box.scope = req[w].scope
        /\ d.box.key = d.key /\ d.box.ttl = req[w].ttl /\ d.box.agent = keypair
    BY <2>1 DEF DekAccepted, BlindBoxContext
  <2>6. PendingOK(req[w], acc[w], keypair, now)
    BY <2>1 DEF Pending, InGrant
  <2>7. /\ acc[w].expires_at \in Int /\ req[w].ttl \in Nat
        /\ d.key \in DekKeys /\ d.nonce \in Nonces /\ d.box \in Boxes
        /\ acc[w].deks \in [DekKeys -> Boxes \union {None}]
        /\ acc[w].nonces \in [Nonces -> Int \union {None}]
    BY <2>2, <2>3 DEF Acc, GrantRequest, DekInput
  <2>8. /\ a.expires_at \in Int
        /\ a.expires_at <= acc[w].expires_at
        /\ a.expires_at <= x
    BY <2>4, <2>7 DEF Min2
  <2>9. /\ a.deks = [acc[w].deks EXCEPT ![d.key] = d.box]
        /\ a.nonces = [acc[w].nonces EXCEPT ![d.nonce] = x]
    OBVIOUS
  <2>. HIDE DEF a, next, x, d
  <2>10. a.expires_at <= now' + req[w].ttl
    BY <1>1, <2>3, <2>6, <2>7, <2>8 DEF PendingOK
  <2>11. ASSUME NEW k \in DekKeys, a.deks[k] # None
         PROVE  /\ a.deks[k].scope = req[w].scope
                /\ a.deks[k].key = k
                /\ a.deks[k].ttl = req[w].ttl
                /\ a.deks[k].agent = keypair
                /\ a.nonces[a.deks[k].nonce] # None
                /\ a.expires_at <= a.nonces[a.deks[k].nonce]
    <3>1. CASE k = d.key
      <4>1. a.deks[k] = d.box
        BY <2>7, <2>9, <3>1
      <4>2. a.nonces[d.nonce] = x
        BY <2>7, <2>9
      <4>3. x # None
        BY <2>4, NoneAssumption
      <4>. QED
        BY <2>5, <2>8, <3>1, <4>1, <4>2, <4>3
    <3>2. CASE k # d.key
      <4>. DEFINE b == acc[w].deks[k]
      <4>1. a.deks[k] = b /\ b # None
        BY <2>7, <2>9, <2>11, <3>2
      <4>2. /\ b.scope = req[w].scope /\ b.key = k
            /\ b.ttl = req[w].ttl /\ b.agent = keypair
            /\ acc[w].nonces[b.nonce] # None
            /\ acc[w].expires_at <= acc[w].nonces[b.nonce]
        BY <2>6, <4>1 DEF PendingOK
      <4>3. b \in Boxes
        BY <2>7, <4>1
      <4>4. b.nonce \in Nonces /\ b.nonce # d.nonce
        BY <2>5, <4>2, <4>3, BoxFields
      <4>. HIDE DEF b
      <4>5. a.nonces[b.nonce] = acc[w].nonces[b.nonce]
        BY <2>7, <2>9, <4>4
      <4>6. acc[w].nonces[b.nonce] \in Int
        BY <2>7, <4>2, <4>4
      <4>7. a.expires_at <= a.nonces[b.nonce]
        BY <2>7, <2>8, <4>2, <4>5, <4>6
      <4>. QED
        BY <4>1, <4>2, <4>5, <4>7
    <3>. QED
      BY <3>1, <3>2
  <2>12. PendingOK(req[w], a, keypair, now')
    BY <2>10, <2>11 DEF PendingOK
  <2>. QED
    BY <1>1, <2>1, <2>12, PendingOneWorker
<1>. QED
  BY <1>2, <1>3

\* Publishing worker w's pending nonces: none of them is remembered as of now.
LEMMA PublishableNonces ==
    ASSUME TypeOK, NEW w \in Workers, NEW t, Publishable(w, t),
           NEW n \in Nonces, acc[w].nonces[n] # None,
           used_grant_nonces[n] # None
    PROVE  used_grant_nonces[n] <= now
<1>1. /\ used_grant_nonces \in [Nonces -> Int \union {None}]
      /\ now \in Int
  BY DEF TypeOK
<1>2. PurgedNonces(used_grant_nonces, now)[n] = None
  BY DEF Publishable
<1>3. IF used_grant_nonces[n] > now
      THEN PurgedNonces(used_grant_nonces, now)[n] = used_grant_nonces[n]
      ELSE used_grant_nonces[n] <= now
  BY <1>1, PurgedNonceKept
<1>. QED
  BY <1>2, <1>3

\* publish_grant, when it publishes.
LEMMA PublishLedger ==
    ASSUME TypeOK, Pending, LedgerInv, NEW w \in Workers,
           PublishGrant(w), Publishable(w, now')
    PROVE  LedgerInv'
<1>. DEFINE purged == PurgedGrants(grants, last_activity, now)
            nonces == PurgedNonces(used_grant_nonces, now)
            z == req[w].scope
            e == [expires_at |-> acc[w].expires_at, deks |-> acc[w].deks]
<1>1. /\ now \in Nat /\ now' \in Nat /\ now <= now' /\ keypair \in Nat
      /\ keypair' = keypair /\ last_activity \in Int
      /\ grants \in [Scopes -> Entry \union {None}]
      /\ used_grant_nonces \in [Nonces -> Int \union {None}]
  BY NumbersAssumption DEF PublishGrant, Later, TypeOK
<1>2. /\ purged \in [Scopes -> Entry \union {None}]
      /\ nonces \in [Nonces -> Int \union {None}]
  BY <1>1, PurgedGrantsType, PurgedNoncesType
<1>3. /\ Matching(purged, keypair, now')
      /\ Backed(purged, nonces)
      /\ Remembered(consumed, nonces, keypair, now')
  BY <1>1, PurgeKeepsMatching, PurgeKeepsBacked, PurgeKeepsRemembered
     DEF LedgerInv
<1>4. /\ grants' = [purged EXCEPT ![z] = e]
      /\ used_grant_nonces' =
            [n \in Nonces |-> IF acc[w].nonces[n] # None
                              THEN acc[w].nonces[n] ELSE nonces[n]]
      /\ consumed' = [b \in Boxes |->
            IF b \in Held(acc[w].deks)
            THEN [times |-> consumed[b].times + 1,
                  until |-> acc[w].nonces[b.nonce]]
            ELSE consumed[b]]
  BY DEF PublishGrant
<1>5. /\ PendingOK(req[w], acc[w], keypair, now)
      /\ req[w] \in GrantRequest /\ acc[w] \in Acc
  BY RequestsAssumption DEF Pending, PublishGrant, InGrant, TypeOK
<1>6. /\ z \in Scopes /\ req[w].ttl \in Nat
      /\ acc[w].expires_at \in Int
      /\ acc[w].deks \in [DekKeys -> Boxes \union {None}]
      /\ acc[w].nonces \in [Nonces -> Int \union {None}]
  BY <1>5 DEF GrantRequest, Acc
<1>7. \A n \in Nonces : acc[w].nonces[n] # None => nonces[n] = None
  BY DEF Publishable
<1>. HIDE DEF purged, nonces, z
<1>8. ASSUME NEW s \in Scopes
      PROVE  grants'[s] = IF s = z THEN e ELSE purged[s]
  BY <1>2, <1>4
<1>9. ASSUME NEW n \in Nonces
      PROVE  used_grant_nonces'[n] = IF acc[w].nonces[n] # None
                                     THEN acc[w].nonces[n] ELSE nonces[n]
  BY <1>4
<1>10. /\ e.expires_at = acc[w].expires_at
       /\ e.deks = acc[w].deks
  OBVIOUS
<1>. HIDE DEF e
\* A pending DEK: its nonce is used' as of its approval's expiry.
<1>11. ASSUME NEW k \in DekKeys, acc[w].deks[k] # None
       PROVE  /\ acc[w].deks[k] \in Boxes
              /\ acc[w].deks[k].nonce \in Nonces
              /\ acc[w].deks[k].scope = z
              /\ acc[w].deks[k].key = k
              /\ acc[w].deks[k].agent = keypair
              /\ acc[w].deks[k].ttl = req[w].ttl
              /\ acc[w].nonces[acc[w].deks[k].nonce] # None
              /\ acc[w].nonces[acc[w].deks[k].nonce] \in Int
              /\ acc[w].expires_at <= acc[w].nonces[acc[w].deks[k].nonce]
              /\ used_grant_nonces'[acc[w].deks[k].nonce]
                    = acc[w].nonces[acc[w].deks[k].nonce]
  <2>1. acc[w].deks[k] \in Boxes /\ acc[w].deks[k].nonce \in Nonces
    BY <1>6, <1>11, BoxFields
  <2>2. /\ acc[w].deks[k].scope = z
        /\ acc[w].deks[k].key = k
        /\ acc[w].deks[k].agent = keypair
        /\ acc[w].deks[k].ttl = req[w].ttl
        /\ acc[w].nonces[acc[w].deks[k].nonce] # None
        /\ acc[w].expires_at <= acc[w].nonces[acc[w].deks[k].nonce]
    BY <1>5, <1>11 DEF PendingOK, z
  <2>. QED
    BY <1>6, <1>9, <2>1, <2>2
\* A DEK of a grant that stays: its nonce is remembered, hence not pending.
<1>12. ASSUME NEW s \in Scopes, purged[s] # None,
              NEW k \in DekKeys, purged[s].deks[k] # None
       PROVE  /\ purged[s].deks[k].nonce \in Nonces
              /\ acc[w].nonces[purged[s].deks[k].nonce] = None
              /\ used_grant_nonces'[purged[s].deks[k].nonce]
                    = nonces[purged[s].deks[k].nonce]
  <2>1. purged[s] \in Entry
    BY <1>2, <1>12
  <2>2. purged[s].deks[k] \in Boxes
    BY <1>12, <2>1 DEF Entry
  <2>3. purged[s].deks[k].nonce \in Nonces
    BY <2>2, BoxFields
  <2>4. nonces[purged[s].deks[k].nonce] # None
    BY <1>3, <1>12 DEF Backed
  <2>. QED
    BY <1>7, <1>9, <2>3, <2>4
<1>13. Matching(grants', keypair, now')
  <2>1. SUFFICES ASSUME NEW s \in Scopes, grants'[s] # None,
                        NEW k \in DekKeys, grants'[s].deks[k] # None
                 PROVE  /\ grants'[s].deks[k].scope = s
                        /\ grants'[s].deks[k].key = k
                        /\ grants'[s].deks[k].agent = keypair
                        /\ grants'[s].expires_at <= now' + grants'[s].deks[k].ttl
    BY DEF Matching
  <2>2. CASE s = z
    <3>1. grants'[s] = e
      BY <1>8, <2>2
    <3>2. acc[w].expires_at <= now + req[w].ttl
      BY <1>5 DEF PendingOK
    <3>3. acc[w].expires_at <= now' + req[w].ttl
      BY <1>1, <1>6, <3>2
    <3>. QED
      BY <1>10, <1>11, <2>1, <2>2, <3>1, <3>3
  <2>3. CASE s # z
    <3>1. grants'[s] = purged[s]
      BY <1>8, <2>3
    <3>. QED
      BY <1>3, <2>1, <3>1 DEF Matching
  <2>. QED
    BY <2>2, <2>3
<1>14. Backed(grants', used_grant_nonces')
  <2>1. SUFFICES ASSUME NEW s \in Scopes, grants'[s] # None,
                        NEW k \in DekKeys, grants'[s].deks[k] # None
                 PROVE  /\ used_grant_nonces'[grants'[s].deks[k].nonce] # None
                        /\ used_grant_nonces'[grants'[s].deks[k].nonce]
                                >= grants'[s].expires_at
                        /\ \A r \in Scopes \ {s} : grants'[r] # None =>
                            \A l \in DekKeys : grants'[r].deks[l] # None =>
                                grants'[r].deks[l].nonce
                                    # grants'[s].deks[k].nonce
    BY DEF Backed
  <2>2. CASE s = z
    <3>1. grants'[s] = e
      BY <1>8, <2>2
    <3>2. \A r \in Scopes \ {s} : grants'[r] = purged[r]
      BY <1>8, <2>2
    <3>3. /\ used_grant_nonces'[grants'[s].deks[k].nonce] # None
          /\ used_grant_nonces'[grants'[s].deks[k].nonce]
                >= grants'[s].expires_at
      BY <1>6, <1>10, <1>11, <2>1, <3>1
    <3>4. acc[w].nonces[grants'[s].deks[k].nonce] # None
      BY <1>10, <1>11, <2>1, <3>1
    <3>5. ASSUME NEW r \in Scopes \ {s}, grants'[r] # None,
                 NEW l \in DekKeys, grants'[r].deks[l] # None
          PROVE  grants'[r].deks[l].nonce # grants'[s].deks[k].nonce
      <4>1. grants'[r] = purged[r]
        BY <3>2
      <4>2. acc[w].nonces[purged[r].deks[l].nonce] = None
        BY <1>12, <3>5, <4>1
      <4>. QED
        BY <3>4, <4>1, <4>2
    <3>. QED
      BY <3>3, <3>5
  <2>3. CASE s # z
    <3>1. grants'[s] = purged[s]
      BY <1>8, <2>3
    <3>2. /\ used_grant_nonces'[grants'[s].deks[k].nonce] # None
          /\ used_grant_nonces'[grants'[s].deks[k].nonce]
                >= grants'[s].expires_at
      BY <1>3, <1>12, <2>1, <3>1 DEF Backed
    <3>3. ASSUME NEW r \in Scopes \ {s}, grants'[r] # None,
                 NEW l \in DekKeys, grants'[r].deks[l] # None
          PROVE  grants'[r].deks[l].nonce # grants'[s].deks[k].nonce
      <4>1. CASE r = z
        <5>1. grants'[r] = e
          BY <1>8, <4>1
        <5>2. acc[w].nonces[grants'[r].deks[l].nonce] # None
          BY <1>10, <1>11, <3>3, <5>1
        <5>. QED
          BY <1>12, <2>1, <3>1, <5>2
      <4>2. CASE r # z
        <5>1. grants'[r] = purged[r]
          BY <1>8, <4>2
        <5>. QED
          BY <1>3, <2>1, <3>1, <3>3, <5>1 DEF Backed
      <4>. QED
        BY <4>1, <4>2
    <3>. QED
      BY <3>2, <3>3
  <2>. QED
    BY <2>2, <2>3
<1>15. Remembered(consumed', used_grant_nonces', keypair, now')
  <2>1. SUFFICES ASSUME NEW b \in Boxes
                 PROVE  /\ consumed'[b].until \in Int
                        /\ consumed'[b].times = 0 => consumed'[b].until = 0
                        /\ consumed'[b].times > 0 =>
                            /\ b.agent <= keypair
                            /\ \/ b.agent < keypair
                               \/ consumed'[b].until <= now'
                               \/ /\ used_grant_nonces'[b.nonce] # None
                                  /\ used_grant_nonces'[b.nonce]
                                        >= consumed'[b].until
    BY DEF Remembered
  <2>2. consumed[b].times \in Nat
    BY DEF TypeOK
  <2>3. CASE b \in Held(acc[w].deks)
    <3>1. PICK k \in DekKeys : acc[w].deks[k] = b /\ b # None
      BY <2>3 DEF Held
    <3>2. /\ consumed'[b].times = consumed[b].times + 1
          /\ consumed'[b].until = acc[w].nonces[b.nonce]
      BY <1>4, <2>3
    <3>3. /\ b.agent = keypair
          /\ acc[w].nonces[b.nonce] \in Int
          /\ acc[w].nonces[b.nonce] # None
          /\ used_grant_nonces'[b.nonce] = acc[w].nonces[b.nonce]
      BY <1>11, <3>1
    <3>. QED
      BY <1>1, <2>2, <3>2, <3>3
  <2>4. CASE b \notin Held(acc[w].deks)
    <3>1. consumed'[b] = consumed[b]
      BY <1>4, <2>4
    <3>2. b.nonce \in Nonces
      BY BoxFields
    <3>3. CASE acc[w].nonces[b.nonce] = None
      <4>1. used_grant_nonces'[b.nonce] = nonces[b.nonce]
        BY <1>9, <3>2, <3>3
      <4>. QED
        BY <1>3, <3>1, <4>1 DEF Remembered
    <3>4. CASE acc[w].nonces[b.nonce] # None
      <4>1. nonces[b.nonce] = None
        BY <1>7, <3>2, <3>4
      <4>. QED
        BY <1>3, <3>1, <4>1 DEF Remembered
    <3>. QED
      BY <3>3, <3>4
  <2>. QED
    BY <2>3, <2>4
<1>. QED
  BY <1>1, <1>13, <1>14, <1>15 DEF LedgerInv, Matching, Backed, Remembered

\* release and revoke, with the two purges around the removal.
LEMMA ReleaseLedger ==
    ASSUME TypeOK, LedgerInv, NEW w \in Workers, NEW s \in Scopes, Release(w, s)
    PROVE  LedgerInv'
<1>. DEFINE purged == PurgedGrants(grants, last_activity, now)
            nonces == PurgedNonces(used_grant_nonces, now)
            rest == [purged EXCEPT ![s] = None]
<1>1. /\ now \in Nat /\ now' \in Nat /\ now <= now' /\ keypair \in Nat
      /\ keypair' = keypair /\ consumed' = consumed /\ last_activity \in Int
      /\ grants \in [Scopes -> Entry \union {None}]
      /\ used_grant_nonces \in [Nonces -> Int \union {None}]
  BY NumbersAssumption DEF Release, Later, TypeOK
<1>2. /\ purged \in [Scopes -> Entry \union {None}]
      /\ nonces \in [Nonces -> Int \union {None}]
  BY <1>1, PurgedGrantsType, PurgedNoncesType
<1>3. /\ Matching(purged, keypair, now')
      /\ Backed(purged, nonces)
      /\ Remembered(consumed, nonces, keypair, now')
  BY <1>1, PurgeKeepsMatching, PurgeKeepsBacked, PurgeKeepsRemembered
     DEF LedgerInv
<1>4. /\ rest \in [Scopes -> Entry \union {None}]
      /\ Matching(rest, keypair, now')
      /\ Backed(rest, nonces)
  BY <1>2, <1>3, RemoveKeeps
<1>. HIDE DEF purged, nonces, rest
<1>5. CASE grants' = purged /\ used_grant_nonces' = nonces
  <2>1. /\ Matching(grants', keypair', now') /\ Backed(grants', used_grant_nonces')
        /\ Remembered(consumed', used_grant_nonces', keypair', now')
    BY <1>1, <1>3, <1>5
  <2>. QED
    BY <2>1 DEF LedgerInv, Matching, Backed, Remembered
<1>6. CASE \E t \in now..now' :
                /\ grants' = PurgedGrants(rest, last_activity, t)
                /\ used_grant_nonces' = PurgedNonces(nonces, t)
  <2>1. PICK t \in now..now' :
                /\ grants' = PurgedGrants(rest, last_activity, t)
                /\ used_grant_nonces' = PurgedNonces(nonces, t)
    BY <1>6
  <2>2. t \in Int /\ t <= now'
    BY <1>1, <2>1
  <2>3. Matching(grants', keypair, now')
    BY <1>1, <1>4, <2>1, <2>2, PurgeKeepsMatching
  <2>4. Backed(grants', used_grant_nonces')
    BY <1>1, <1>2, <1>4, <2>1, <2>2, PurgeKeepsBacked
  <2>5. Remembered(consumed, used_grant_nonces', keypair, now')
    BY <1>1, <1>2, <1>3, <2>1, <2>2, PurgeKeepsRemembered
  <2>6. /\ Matching(grants', keypair', now') /\ Backed(grants', used_grant_nonces')
        /\ Remembered(consumed', used_grant_nonces', keypair', now')
    BY <1>1, <2>3, <2>4, <2>5
  <2>. QED
    BY <2>6 DEF LedgerInv, Matching, Backed, Remembered
<1>. QED
  BY <1>5, <1>6 DEF Release, purged, nonces, rest

\* publish_grant, publishing or refusing, keeps the ledger.
LEMMA PublishStep ==
    ASSUME TypeOK, Pending, LedgerInv, NEW w \in Workers, PublishGrant(w)
    PROVE  Pending' /\ LedgerInv'
<1>1. now \in Nat /\ now' \in Nat /\ now <= now' /\ keypair' = keypair
  BY NumbersAssumption DEF PublishGrant, Later, TypeOK
<1>2. Pending'
  BY <1>1, PendingAbort DEF PublishGrant
<1>3. CASE Publishable(w, now')
  BY <1>2, <1>3, PublishLedger
<1>4. CASE ~Publishable(w, now')
  <2>1. /\ grants' = PurgedGrants(grants, last_activity, now)
        /\ used_grant_nonces' = PurgedNonces(used_grant_nonces, now)
        /\ consumed' = consumed
    BY <1>4 DEF PublishGrant
  <2>. QED
    BY <1>1, <1>2, <2>1, PurgeStep
<1>. QED
  BY <1>3, <1>4

\* The handler of `deliver.*` and `sign` never enters the grant handler.
LEMMA UsePending ==
    ASSUME TypeOK, Pending, NEW w \in Workers,
           \/ \E r \in UseRequests : UseBegin(w, r)
           \/ MasterReturns(w) \/ Snapshot(w) \/ OpenEnvelopes(w)
           \/ RecordActivity(w) \/ FinishIO(w)
    PROVE  Pending'
<1>1. now \in Nat /\ now' \in Nat /\ now <= now' /\ keypair' = keypair
  BY NumbersAssumption DEF UseBegin, MasterReturns, Snapshot, OpenEnvelopes,
     RecordActivity, FinishIO, Later, TypeOK, clocks
<1>2. CASE Abort(w)
  BY <1>1, <1>2, PendingAbort
<1>3. CASE ~Abort(w)
  <2>1. \E p \in {"master", "snapshot", "open", "record", "io"} :
            pc' = [pc EXCEPT ![w] = p]
    BY <1>3 DEF UseBegin, MasterReturns, Snapshot, OpenEnvelopes,
       RecordActivity, FinishIO
  <2>2. PICK p \in {"master", "snapshot", "open", "record", "io"} :
            pc' = [pc EXCEPT ![w] = p]
    BY <2>1
  <2>3. p \notin InGrant
    BY DEF InGrant
  <2>4. acc' = [acc EXCEPT ![w] = acc[w]]
    BY <1>3, SameLocal DEF UseBegin, MasterReturns, Snapshot, OpenEnvelopes,
       RecordActivity, FinishIO
  <2>5. \E r : req' = [req EXCEPT ![w] = r]
    <3>1. req' = req \/ \E r : req' = [req EXCEPT ![w] = r]
      BY <1>3 DEF UseBegin, MasterReturns, Snapshot, OpenEnvelopes,
         RecordActivity, FinishIO
    <3>. QED
      BY <3>1, SameLocal
  <2>6. PICK r : req' = [req EXCEPT ![w] = r]
    BY <2>5
  <2>. QED
    BY <1>1, <2>2, <2>3, <2>4, <2>6, PendingOneWorker
<1>. QED
  BY <1>2, <1>3

\* The inductive step.
LEMMA ApprovalStep ==
    ASSUME TypeOK, Pending, LedgerInv, Next
    PROVE  Pending' /\ LedgerInv'
<1>. USE DEF clocks, state
<1>1. now \in Nat /\ keypair \in Nat /\ last_activity \in Int
  BY DEF TypeOK
<1>2. ASSUME NEW w \in Workers, NEW r \in GrantRequests, GrantBegin(w, r)
      PROVE  Pending' /\ LedgerInv'
  <2>1. /\ now' \in Nat /\ now <= now'
        /\ UNCHANGED <<grants, used_grant_nonces, keypair, consumed>>
    BY <1>1, <1>2 DEF GrantBegin
  <2>. QED
    BY <1>2, <2>1, GrantBeginPending, QuietStep
<1>3. ASSUME NEW w \in Workers, ValidateApproval(w)
      PROVE  Pending' /\ LedgerInv'
  <2>1. /\ now' \in Nat /\ now <= now'
        /\ UNCHANGED <<grants, used_grant_nonces, keypair, consumed>>
    BY <1>1, <1>3 DEF ValidateApproval
  <2>. QED
    BY <1>3, <2>1, ValidateApprovalPending, QuietStep
<1>4. ASSUME NEW w \in Workers, ReadInstant(w)
      PROVE  Pending' /\ LedgerInv'
  <2>1. /\ now' \in Nat /\ now <= now'
        /\ UNCHANGED <<grants, used_grant_nonces, keypair, consumed>>
    BY <1>1, <1>4 DEF ReadInstant
  <2>. QED
    BY <1>4, <2>1, ReadInstantPending, QuietStep
<1>5. ASSUME NEW w \in Workers, AddDek(w)
      PROVE  Pending' /\ LedgerInv'
  <2>1. /\ now' \in Nat /\ now <= now'
        /\ UNCHANGED <<grants, used_grant_nonces, keypair, consumed>>
    BY <1>1, <1>5 DEF AddDek
  <2>. QED
    BY <1>5, <2>1, AddDekPending, QuietStep
<1>6. ASSUME NEW w \in Workers, PublishGrant(w)
      PROVE  Pending' /\ LedgerInv'
  BY <1>6, PublishStep
<1>7. ASSUME NEW w \in Workers, NEW s \in Scopes, Release(w, s)
      PROVE  Pending' /\ LedgerInv'
  <2>1. now' \in Nat /\ now <= now' /\ UNCHANGED <<pc, req, acc, keypair>>
    BY <1>1, <1>7, NumbersAssumption DEF Release, Later, locals
  <2>. QED
    BY <1>7, <2>1, ReleaseLedger, PendingQuiet
<1>8. ASSUME NEW w \in Workers,
             \/ \E r \in UseRequests : UseBegin(w, r)
             \/ MasterReturns(w) \/ Snapshot(w) \/ OpenEnvelopes(w)
             \/ FinishIO(w)
      PROVE  Pending' /\ LedgerInv'
  <2>1. /\ now' = now
        /\ UNCHANGED <<grants, used_grant_nonces, keypair, consumed>>
    BY <1>8 DEF UseBegin, MasterReturns, Snapshot, OpenEnvelopes, FinishIO
  <2>2. now' \in Nat /\ now <= now'
    BY <1>1, <2>1
  <2>3. LedgerInv'
    BY <2>1, <2>2, QuietStep
  <2>4. Pending'
    BY <1>8, UsePending
  <2>. QED
    BY <2>3, <2>4
<1>9. ASSUME NEW w \in Workers, RecordActivity(w)
      PROVE  Pending' /\ LedgerInv'
  <2>1. /\ now' \in Nat /\ now <= now' /\ UNCHANGED <<keypair, consumed>>
        /\ grants' = PurgedGrants(grants, last_activity, now)
        /\ used_grant_nonces' = PurgedNonces(used_grant_nonces, now)
    BY <1>1, <1>9, NumbersAssumption DEF RecordActivity, Later
  <2>2. LedgerInv'
    BY <1>1, <2>1, PurgeStep
  <2>3. Pending'
    BY <1>9, UsePending
  <2>. QED
    BY <2>2, <2>3
<1>10. ASSUME Maintain PROVE Pending' /\ LedgerInv'
  <2>1. /\ now' = now /\ UNCHANGED <<keypair, consumed, pc, req, acc>>
        /\ grants' = PurgedGrants(grants, last_activity, now)
        /\ used_grant_nonces' = PurgedNonces(used_grant_nonces, now)
    BY <1>10 DEF Maintain, locals
  <2>2. LedgerInv'
    BY <1>1, <2>1, PurgeStep
  <2>3. Pending'
    BY <1>1, <2>1, PendingQuiet
  <2>. QED
    BY <2>2, <2>3
<1>11. ASSUME Restart PROVE Pending' /\ LedgerInv'
  <2>1. /\ now' = now /\ keypair' = keypair + 1 /\ consumed' = consumed
        /\ grants' = NoGrants /\ pc' = AllIdle
    BY <1>11 DEF Restart
  <2>2. Pending'
    BY <2>1 DEF Pending, AllIdle, InGrant
  <2>3. Matching(grants, keypair, now)' /\ Backed(grants, used_grant_nonces)'
    BY <2>1 DEF Matching, Backed, NoGrants
  <2>4. Remembered(consumed, used_grant_nonces, keypair, now)'
    <3>1. \A b \in Boxes : b.agent \in Nat
      BY BoxFields
    <3>2. ASSUME NEW b \in Boxes, consumed[b].times > 0
          PROVE  b.agent < keypair + 1 /\ b.agent <= keypair + 1
      <4>1. b.agent <= keypair
        BY <3>2 DEF LedgerInv, Remembered
      <4>. QED
        BY <1>1, <3>1, <4>1
    <3>. QED
      BY <2>1, <3>2 DEF LedgerInv, Remembered
  <2>. QED
    BY <2>2, <2>3, <2>4 DEF LedgerInv
<1>12. ASSUME Tick \/ StepWall PROVE Pending' /\ LedgerInv'
  <2>1. /\ now' \in Nat /\ now <= now'
        /\ UNCHANGED <<grants, used_grant_nonces, keypair, consumed,
                       pc, req, acc>>
    BY <1>1, <1>12 DEF Tick, StepWall, locals
  <2>. QED
    BY <2>1, QuietStep, PendingQuiet
<1>. QED
  BY <1>2, <1>3, <1>4, <1>5, <1>6, <1>7, <1>8, <1>9, <1>10, <1>11, <1>12
     DEF Next, Step

\* A stuttering step changes nothing the invariant speaks of.
LEMMA ApprovalStutter ==
    ASSUME Pending, LedgerInv, UNCHANGED vars
    PROVE  Pending' /\ LedgerInv'
BY DEF Pending, PendingOK, LedgerInv, Matching, Backed, Remembered, vars,
       clocks, state, locals

\* The inductive invariant holds in every reachable state.
THEOREM ApprovalInvariant == Spec => []ApprovalInv
<1>1. Init => Pending /\ LedgerInv
  <2>1. Init => Pending
    BY DEF Init, Pending, AllIdle, InGrant
  <2>2. Init => Matching(grants, keypair, now) /\ Backed(grants, used_grant_nonces)
    BY DEF Init, Matching, Backed, NoGrants
  <2>3. Init => Remembered(consumed, used_grant_nonces, keypair, now)
    BY DEF Init, Remembered
  <2>. QED
    BY <2>1, <2>2, <2>3 DEF LedgerInv
<1>2. TypeOK /\ Pending /\ LedgerInv /\ [Next]_vars => (Pending /\ LedgerInv)'
  BY ApprovalStep, ApprovalStutter
<1>. QED
  BY <1>1, <1>2, TypeCorrect, PTL DEF Spec, ApprovalInv

\* GrantMatchesApproval for every instance: a cached DEK is usable only under
\* the grant id, key, process and ttl its approver sealed it to.
THEOREM GrantsMatchApprovals == Spec => []GrantMatchesApproval
<1>1. ApprovalInv => GrantMatchesApproval
  BY DEF ApprovalInv, LedgerInv, Matching, GrantMatchesApproval
<1>. QED
  BY <1>1, ApprovalInvariant, PTL

\* ApprovalsBackOneGrant for every instance: no interleaving of grants,
\* releases and purges lets one approval back two grants.
THEOREM ApprovalsNeverShared == Spec => []ApprovalsBackOneGrant
<1>1. ASSUME ApprovalInv PROVE ApprovalsBackOneGrant
  <2>1. ASSUME NEW s \in Scopes, NEW b \in HeldIn(grants[s])
        PROVE  grants[s] # None /\ \E k \in DekKeys : grants[s].deks[k] = b /\ b # None
    BY <2>1 DEF HeldIn, Held
  <2>2. Backed(grants, used_grant_nonces)
    BY <1>1 DEF ApprovalInv, LedgerInv
  <2>3. ASSUME NEW s \in Scopes, NEW b \in HeldIn(grants[s])
        PROVE  /\ used_grant_nonces[b.nonce] # None
               /\ used_grant_nonces[b.nonce] >= grants[s].expires_at
               /\ \A t \in Scopes \ {s} :
                    \A c \in HeldIn(grants[t]) : c.nonce # b.nonce
    <3>1. PICK k \in DekKeys : grants[s].deks[k] = b /\ b # None
      BY <2>1, <2>3
    <3>2. grants[s] # None
      BY <2>1, <2>3
    <3>3. ASSUME NEW t \in Scopes \ {s}, NEW c \in HeldIn(grants[t])
          PROVE  c.nonce # b.nonce
      <4>1. PICK l \in DekKeys : grants[t].deks[l] = c /\ c # None
        BY <2>1, <3>3
      <4>2. grants[t] # None
        BY <2>1, <3>3
      <4>. QED
        BY <2>2, <3>1, <3>2, <4>1, <4>2 DEF Backed
    <3>. QED
      BY <2>2, <3>1, <3>2, <3>3 DEF Backed
  <2>. QED
    BY <2>3 DEF ApprovalsBackOneGrant
<1>. QED
  BY <1>1, ApprovalInvariant, PTL

\* A box whose approval publish_grant takes had none remembered to a later
\* time, and the handler still has its DEK gathered.
LEMMA TakenAfterExpiry ==
    ASSUME ApprovalInv, NEW w \in Workers, PublishGrant(w), Publishable(w, now'),
           NEW b \in Held(acc[w].deks)
    PROVE  consumed[b].until <= now'
<1>1. PICK k \in DekKeys : acc[w].deks[k] = b /\ b # None
  BY DEF Held
<1>2. b \in Boxes
  BY <1>1 DEF ApprovalInv, TypeOK, Acc
<1>3. PendingOK(req[w], acc[w], keypair, now)
  BY DEF ApprovalInv, Pending, PublishGrant, InGrant
<1>4. b.agent = keypair /\ acc[w].nonces[b.nonce] # None
  BY <1>1, <1>3 DEF PendingOK
<1>5. /\ consumed[b].until \in Int
      /\ consumed[b].times = 0 => consumed[b].until = 0
      /\ consumed[b].times > 0 =>
            \/ b.agent < keypair
            \/ consumed[b].until <= now
            \/ /\ used_grant_nonces[b.nonce] # None
               /\ used_grant_nonces[b.nonce] >= consumed[b].until
  BY <1>2 DEF ApprovalInv, LedgerInv, Remembered
<1>6. /\ now \in Nat /\ now' \in Nat /\ now <= now' /\ keypair \in Nat
      /\ consumed[b].times \in Nat
      /\ used_grant_nonces \in [Nonces -> Int \union {None}]
  BY <1>2, NumbersAssumption DEF ApprovalInv, TypeOK, PublishGrant, Later
<1>7. b.nonce \in Nonces
  BY <1>2, BoxFields
<1>8. used_grant_nonces[b.nonce] # None => used_grant_nonces[b.nonce] <= now
  BY <1>4, <1>7, PublishableNonces DEF ApprovalInv
<1>9. used_grant_nonces[b.nonce] # None => used_grant_nonces[b.nonce] \in Int
  BY <1>6, <1>7
<1>. QED
  BY <1>4, <1>5, <1>6, <1>8, <1>9

\* ApprovalReusedOnlyAfterExpiry for every instance: over any number of
\* restarts, a box is published again only after its computed expiry.
THEOREM ReuseOnlyAfterExpiry == Spec => ApprovalReusedOnlyAfterExpiry
<1>. DEFINE Reuse == \A b \in Boxes : consumed'[b].times # consumed[b].times =>
                        consumed[b].until <= now'
<1>1. ASSUME ApprovalInv, Next PROVE Reuse
  <2>1. ASSUME NEW w \in Workers, PublishGrant(w), Publishable(w, now'),
               NEW b \in Boxes, consumed'[b].times # consumed[b].times
        PROVE  consumed[b].until <= now'
    <3>1. b \in Held(acc[w].deks)
      BY <2>1 DEF PublishGrant
    <3>. QED
      BY <1>1, <2>1, <3>1, TakenAfterExpiry
  <2>2. CASE \E w \in Workers : PublishGrant(w) /\ Publishable(w, now')
    BY <2>1, <2>2
  <2>3. CASE consumed' = consumed
    BY <2>3
  <2>4. \/ consumed' = consumed
        \/ \E w \in Workers : PublishGrant(w) /\ Publishable(w, now')
    BY <1>1 DEF Next, Step, GrantBegin, ValidateApproval, ReadInstant, AddDek,
       PublishGrant, Release, UseBegin, MasterReturns, Snapshot, OpenEnvelopes,
       RecordActivity, FinishIO, Maintain, Restart, Tick, StepWall
  <2>. QED
    BY <2>2, <2>3, <2>4
<1>2. ApprovalInv /\ [Next]_vars => [Reuse]_vars
  BY <1>1
<1>. QED
  BY <1>2, ApprovalInvariant, PTL DEF Spec, ApprovalReusedOnlyAfterExpiry

-----------------------------------------------------------------------------
(***************************************************************************)
(* What a step may do to the grants.  Only publish_grant brings one in;    *)
(* every other step leaves a grant as it is or takes it out, and purges    *)
(* before it stamps the idle clock, so a grant that can be used afterwards *)
(* could be used before.                                                   *)
(***************************************************************************)

Published == \E w \in Workers : PublishGrant(w) /\ Publishable(w, now')

Shrinks ==
    /\ consumed' = consumed
    /\ \A s \in Scopes : grants'[s] \in {grants[s], None}
    /\ \A n \in Nonces : used_grant_nonces'[n] \in {used_grant_nonces[n], None}
    /\ \A s \in Scopes : LiveGrant(s)' => LiveGrant(s) /\ grants'[s] = grants[s]
    /\ last_activity' # last_activity =>
        \/ \E w \in Workers : pc[w] = "record" /\ pc'[w] = "io"
        \/ \E s \in Scopes : LiveGrant(s) /\ grants'[s] = None
        \/ keypair' # keypair

\* Time passing makes no lapsed grant usable.
LEMMA LapsedStays ==
    ASSUME NEW e \in Entry, NEW a \in Int, NEW t \in Int, NEW u \in Int, t <= u,
           Lapsed(e, a, t)
    PROVE  Lapsed(e, a, u)
<1>1. e.expires_at \in Int
  BY DEF Entry
<1>. QED
  BY <1>1, NumbersAssumption DEF Lapsed

\* A step that leaves the grant state alone.
LEMMA QuietShrinks ==
    ASSUME TypeOK, now' \in Nat, now <= now',
           UNCHANGED <<grants, used_grant_nonces, last_activity, consumed>>
    PROVE  Shrinks
<1>1. ASSUME NEW s \in Scopes, LiveGrant(s)' PROVE LiveGrant(s)
  <2>1. grants[s] # None /\ ~Lapsed(grants[s], last_activity, now')
    BY <1>1 DEF LiveGrant, Lapsed
  <2>2. /\ grants[s] \in Entry /\ last_activity \in Int
        /\ now \in Int /\ now' \in Int
    BY <2>1 DEF TypeOK
  <2>3. ~Lapsed(grants[s], last_activity, now)
    BY <2>1, <2>2, LapsedStays
  <2>. QED
    BY <2>1, <2>3 DEF LiveGrant
<1>. QED
  BY <1>1 DEF Shrinks

\* purge, and whatever is stamped after it.
LEMMA PurgeShrinks ==
    ASSUME TypeOK, consumed' = consumed,
           grants' = PurgedGrants(grants, last_activity, now),
           used_grant_nonces' = PurgedNonces(used_grant_nonces, now),
           \/ last_activity' = last_activity
           \/ \E w \in Workers : pc[w] = "record" /\ pc'[w] = "io"
    PROVE  Shrinks
<1>1. \A s \in Scopes : grants'[s] = IF LiveGrant(s) THEN grants[s] ELSE None
  BY DEF PurgedGrants, LiveGrant
<1>2. \A n \in Nonces : used_grant_nonces'[n] \in {used_grant_nonces[n], None}
  BY DEF PurgedNonces
<1>3. \A s \in Scopes : LiveGrant(s)' => grants'[s] # None
  BY DEF LiveGrant
<1>. QED
  BY <1>1, <1>2, <1>3 DEF Shrinks

\* release and revoke.
LEMMA ReleaseShrinks ==
    ASSUME TypeOK, NEW w \in Workers, NEW s \in Scopes, Release(w, s)
    PROVE  Shrinks
<1>. DEFINE purged == PurgedGrants(grants, last_activity, now)
            nonces == PurgedNonces(used_grant_nonces, now)
            rest == [purged EXCEPT ![s] = None]
<1>1. consumed' = consumed
  BY DEF Release
<1>2. CASE grants' = purged /\ used_grant_nonces' = nonces /\ UNCHANGED last_activity
  BY <1>1, <1>2, PurgeShrinks
<1>3. CASE /\ purged[s] # None
           /\ \E t \in now..now' :
                /\ grants' = PurgedGrants(rest, last_activity, t)
                /\ used_grant_nonces' = PurgedNonces(nonces, t)
  <2>1. PICK t \in now..now' : /\ grants' = PurgedGrants(rest, last_activity, t)
                               /\ used_grant_nonces' = PurgedNonces(nonces, t)
    BY <1>3
  <2>2. \A z \in Scopes : purged[z] = IF LiveGrant(z) THEN grants[z] ELSE None
    BY DEF PurgedGrants, LiveGrant
  <2>3. DOMAIN purged = Scopes
    BY DEF PurgedGrants
  <2>4. \A z \in Scopes : rest[z] = IF z = s THEN None ELSE purged[z]
    BY <2>3
  <2>5. \A z \in Scopes : grants'[z] \in {rest[z], None}
    BY <2>1 DEF PurgedGrants
  <2>6. \A n \in Nonces : nonces[n] \in {used_grant_nonces[n], None}
    BY DEF PurgedNonces
  <2>7. \A n \in Nonces : used_grant_nonces'[n] \in {nonces[n], None}
    BY <2>1 DEF PurgedNonces
  <2>8. LiveGrant(s) /\ grants'[s] = None
    BY <1>3, <2>2, <2>4, <2>5
  <2>9. \A z \in Scopes : LiveGrant(z)' => grants'[z] # None
    BY DEF LiveGrant
  <2>. HIDE DEF purged, nonces, rest
  <2>. QED
    BY <1>1, <2>2, <2>4, <2>5, <2>6, <2>7, <2>8, <2>9 DEF Shrinks
<1>. QED
  BY <1>2, <1>3 DEF Release

\* The agent's new process starts with nothing.
LEMMA RestartShrinks ==
    ASSUME TypeOK, Restart
    PROVE  Shrinks
<1>1. /\ consumed' = consumed /\ grants' = NoGrants /\ used_grant_nonces' = NoNonces
      /\ keypair' # keypair
  BY DEF Restart, TypeOK
<1>2. \A s \in Scopes : grants'[s] = None /\ ~LiveGrant(s)'
  BY <1>1 DEF NoGrants, LiveGrant
<1>3. \A n \in Nonces : used_grant_nonces'[n] = None
  BY <1>1 DEF NoNonces
<1>. QED
  BY <1>1, <1>2, <1>3 DEF Shrinks

\* A step that leaves the grant state and the clocks alone.
LEMMA HandlerShrinks ==
    ASSUME TypeOK, NEW w \in Workers,
           \/ \E r \in GrantRequests : GrantBegin(w, r)
           \/ ValidateApproval(w) \/ ReadInstant(w) \/ AddDek(w)
           \/ \E r \in UseRequests : UseBegin(w, r)
           \/ MasterReturns(w) \/ Snapshot(w) \/ OpenEnvelopes(w) \/ FinishIO(w)
    PROVE  Shrinks /\ UNCHANGED <<clocks, keypair, state, consumed>>
<1>1. UNCHANGED <<clocks, keypair, state, consumed>>
  BY DEF GrantBegin, ValidateApproval, ReadInstant, AddDek, UseBegin, MasterReturns,
     Snapshot, OpenEnvelopes, FinishIO
<1>2. /\ now' \in Nat /\ now <= now'
      /\ UNCHANGED <<grants, used_grant_nonces, last_activity, consumed>>
  BY <1>1 DEF clocks, state, TypeOK
<1>. QED
  BY <1>1, <1>2, QuietShrinks

LEMMA StepShrinks ==
    ASSUME TypeOK, Next
    PROVE  Published \/ Shrinks
<1>1. ASSUME NEW w \in Workers, PublishGrant(w), ~Publishable(w, now')
      PROVE  Shrinks
  BY <1>1, PurgeShrinks DEF PublishGrant
<1>2. ASSUME NEW w \in Workers, RecordActivity(w)
      PROVE  Shrinks
  <2>1. pc[w] = "record" /\ pc'[w] = "io"
    BY <1>2 DEF RecordActivity, TypeOK
  <2>. QED
    BY <1>2, <2>1, PurgeShrinks DEF RecordActivity
<1>3. Maintain => Shrinks
  BY PurgeShrinks DEF Maintain
<1>4. Tick \/ StepWall => Shrinks
  BY QuietShrinks DEF Tick, StepWall, state, TypeOK
<1>. QED
  BY <1>1, <1>2, <1>3, <1>4, ReleaseShrinks, RestartShrinks, HandlerShrinks
     DEF Next, Step, Published

-----------------------------------------------------------------------------
(***************************************************************************)
(* What a `grant` handler has gathered, and what a grant is made of: every *)
(* pending nonce is the nonce of a gathered DEK, a grant has at least one, *)
(* and its expiry is no later, on the wall clock, than the expiry of any   *)
(* of its approvals.  The last holds while the wall clock is not set       *)
(* forward: the deadline is turned into an Instant once, and not again.    *)
(***************************************************************************)

WallNeverForward == \A d \in WallSteps : d <= 0

InTime(expires_at, deks, o) ==
    WallNeverForward =>
        \A k \in DekKeys : deks[k] # None => expires_at + o <= deks[k].expires

GatherOK(p, a, o) ==
    /\ \A n \in Nonces : a.nonces[n] # None =>
            \E k \in DekKeys : a.deks[k] # None /\ a.deks[k].nonce = n
    /\ p = "publish" => \E k \in DekKeys : a.deks[k] # None
    /\ InTime(a.expires_at, a.deks, o)

Gathered == \A w \in Workers : GatherOK(pc[w], acc[w], offset)

Stocked ==
    \A s \in Scopes : grants[s] # None =>
        /\ \E k \in DekKeys : grants[s].deks[k] # None
        /\ InTime(grants[s].expires_at, grants[s].deks, offset)

GatherInv == Gathered /\ Stocked

LEMMA GatherNothing ==
    ASSUME NEW p, p # "publish", NEW o, NEW a, a.deks = NoDeks, a.nonces = NoNonces
    PROVE  GatherOK(p, a, o)
BY DEF GatherOK, InTime, NoDeks, NoNonces

\* A step that changes at most worker w's locals.
LEMMA GatherOneWorker ==
    ASSUME TypeOK, Gathered, NEW w \in Workers, NEW p, NEW a,
           pc' = [pc EXCEPT ![w] = p], acc' = [acc EXCEPT ![w] = a],
           offset' = offset, GatherOK(p, a, offset)
    PROVE  Gathered'
<1>1. SUFFICES ASSUME NEW v \in Workers PROVE GatherOK(pc'[v], acc'[v], offset)
  BY DEF Gathered, GatherOK, InTime
<1>2. CASE v = w
  BY <1>2 DEF TypeOK
<1>3. CASE v # w
  <2>1. pc'[v] = pc[v] /\ acc'[v] = acc[v]
    BY <1>3 DEF TypeOK
  <2>. QED
    BY <2>1 DEF Gathered
<1>. QED
  BY <1>2, <1>3

LEMMA GatherAbort ==
    ASSUME TypeOK, Gathered, NEW w \in Workers, Abort(w), offset' = offset
    PROVE  Gathered'
<1>1. GatherOK("idle", NoAcc, offset)
  BY GatherNothing DEF NoAcc
<1>. QED
  BY <1>1, GatherOneWorker DEF Abort

\* The handler goes on and gathers nothing by it.
LEMMA GatherSame ==
    ASSUME TypeOK, Gathered, NEW w \in Workers, NEW p, p # "publish", NEW a,
           pc' = [pc EXCEPT ![w] = p], acc' = [acc EXCEPT ![w] = a],
           offset' = offset,
           /\ a.deks = acc[w].deks /\ a.nonces = acc[w].nonces
           /\ a.expires_at = acc[w].expires_at
    PROVE  Gathered'
<1>1. GatherOK(pc[w], acc[w], offset)
  BY DEF Gathered
<1>2. GatherOK(p, a, offset)
  BY <1>1 DEF GatherOK
<1>. QED
  BY <1>2, GatherOneWorker

\* The loop's body.
LEMMA AddDekGathered ==
    ASSUME TypeOK, Gathered, NEW w \in Workers, AddDek(w)
    PROVE  Gathered'
<1>1. offset' = offset
  BY DEF AddDek, clocks
<1>2. CASE Abort(w)
  BY <1>1, <1>2, GatherAbort
<1>3. CASE ~Abort(w)
  <2>. DEFINE d == CurrentDek(w)
              x == ApprovalExpiry(w)
              a == [done |-> acc[w].done + 1,
                    instant |-> acc[w].instant,
                    expires_at |-> Min2(acc[w].expires_at, x),
                    deks |-> [acc[w].deks EXCEPT ![d.key] = d.box],
                    nonces |-> [acc[w].nonces EXCEPT ![d.nonce] = x]]
              next == IF acc[w].done + 1 = Len(req[w].deks)
                      THEN "publish" ELSE "validate"
  <2>1. /\ pc[w] = "wall" /\ DekAccepted(w)
        /\ acc' = [acc EXCEPT ![w] = a]
        /\ pc' = [pc EXCEPT ![w] = next]
    BY <1>3 DEF AddDek
  <2>2. d \in DekInput /\ req[w] \in GrantRequest
    BY <2>1, CurrentDekType DEF InGrant
  <2>3. acc[w] \in Acc /\ now \in Nat /\ offset \in Int /\ acc[w].instant <= now
    BY <2>1 DEF TypeOK, InGrant
  <2>4. /\ d.expires \in Int /\ acc[w].instant \in Int /\ acc[w].expires_at \in Int
        /\ d.key \in DekKeys /\ d.nonce \in Nonces /\ d.box \in Boxes
        /\ acc[w].deks \in [DekKeys -> Boxes \union {None}]
        /\ acc[w].nonces \in [Nonces -> Int \union {None}]
    BY <2>2, <2>3 DEF Acc, DekInput
  <2>5. x \in Int /\ x + offset <= d.expires
    BY <2>3, <2>4 DEF ApprovalExpiry, Wall
  <2>6. /\ acc[w].deks[d.key] = None /\ d.box.nonce = d.nonce
        /\ d.box.expires = d.expires /\ d.box # None
    BY <2>1, <2>4, BoxFields DEF DekAccepted, BlindBoxContext
  <2>7. GatherOK(pc[w], acc[w], offset)
    BY DEF Gathered
  <2>8. /\ a.expires_at \in Int /\ a.expires_at <= acc[w].expires_at
        /\ a.expires_at <= x
    BY <2>4, <2>5 DEF Min2
  <2>9. /\ \A k \in DekKeys : a.deks[k] = IF k = d.key THEN d.box ELSE acc[w].deks[k]
        /\ \A n \in Nonces : a.nonces[n] = IF n = d.nonce THEN x ELSE acc[w].nonces[n]
    BY <2>4
  <2>. HIDE DEF a, next, x, d
  <2>10. ASSUME NEW n \in Nonces, a.nonces[n] # None
         PROVE  \E k \in DekKeys : a.deks[k] # None /\ a.deks[k].nonce = n
    <3>1. CASE n = d.nonce
      BY <2>4, <2>6, <2>9, <3>1
    <3>2. CASE n # d.nonce
      <4>1. PICK k \in DekKeys : acc[w].deks[k] # None /\ acc[w].deks[k].nonce = n
        BY <2>7, <2>9, <2>10, <3>2 DEF GatherOK
      <4>. QED
        BY <2>6, <2>9, <4>1
    <3>. QED
      BY <3>1, <3>2
  <2>11. \E k \in DekKeys : a.deks[k] # None
    BY <2>4, <2>6, <2>9
  <2>12. ASSUME WallNeverForward, NEW k \in DekKeys, a.deks[k] # None
         PROVE  a.expires_at + offset <= a.deks[k].expires
    <3>1. CASE k = d.key
      <4>1. a.deks[k].expires = d.expires
        BY <2>6, <2>9, <3>1
      <4>. QED
        BY <2>3, <2>4, <2>5, <2>8, <4>1
    <3>2. CASE k # d.key
      <4>1. a.deks[k] = acc[w].deks[k] /\ acc[w].deks[k] \in Boxes
        BY <2>4, <2>9, <2>12, <3>2
      <4>2. acc[w].deks[k].expires \in Int
        BY <4>1, BoxesAssumption DEF Box
      <4>3. acc[w].expires_at + offset <= acc[w].deks[k].expires
        BY <2>7, <2>12, <4>1 DEF GatherOK, InTime
      <4>. QED
        BY <2>3, <2>4, <2>8, <4>1, <4>2, <4>3
    <3>. QED
      BY <3>1, <3>2
  <2>13. GatherOK(next, a, offset)
    BY <2>10, <2>11, <2>12 DEF GatherOK, InTime
  <2>. QED
    BY <1>1, <2>1, <2>13, GatherOneWorker
<1>. QED
  BY <1>2, <1>3

\* The other steps of the handlers.
LEMMA HandlerGathered ==
    ASSUME TypeOK, Gathered, NEW w \in Workers,
           \/ \E r \in GrantRequests : GrantBegin(w, r)
           \/ ValidateApproval(w) \/ ReadInstant(w) \/ PublishGrant(w)
           \/ \E r \in UseRequests : UseBegin(w, r)
           \/ MasterReturns(w) \/ Snapshot(w) \/ OpenEnvelopes(w)
           \/ RecordActivity(w) \/ FinishIO(w)
    PROVE  Gathered'
<1>1. offset' = offset
  BY DEF GrantBegin, ValidateApproval, ReadInstant, PublishGrant, UseBegin, MasterReturns,
     Snapshot, OpenEnvelopes, RecordActivity, FinishIO, clocks
<1>2. CASE Abort(w)
  BY <1>1, <1>2, GatherAbort
<1>3. ASSUME NEW r \in GrantRequests, GrantBegin(w, r)
      PROVE  Gathered'
  <2>. DEFINE a == [NoAcc EXCEPT !.expires_at = now + r.ttl]
  <2>1. a.deks = NoDeks /\ a.nonces = NoNonces
    BY DEF NoAcc
  <2>2. pc' = [pc EXCEPT ![w] = "validate"] /\ acc' = [acc EXCEPT ![w] = a]
    BY <1>3 DEF GrantBegin
  <2>. HIDE DEF a
  <2>3. GatherOK("validate", a, offset)
    BY <2>1, GatherNothing
  <2>. QED
    BY <1>1, <2>2, <2>3, GatherOneWorker
<1>4. ASSUME ReadInstant(w) PROVE Gathered'
  <2>. DEFINE a == [acc[w] EXCEPT !.instant = now]
  <2>1. acc[w] \in Acc
    BY DEF TypeOK
  <2>2. /\ a.deks = acc[w].deks /\ a.nonces = acc[w].nonces
        /\ a.expires_at = acc[w].expires_at
    BY <2>1 DEF Acc
  <2>3. pc' = [pc EXCEPT ![w] = "wall"] /\ acc' = [acc EXCEPT ![w] = a]
    BY <1>4 DEF ReadInstant, TypeOK
  <2>. HIDE DEF a
  <2>. QED
    BY <1>1, <2>2, <2>3, GatherSame
<1>5. ASSUME ~Abort(w),
             \/ ValidateApproval(w) \/ \E r \in UseRequests : UseBegin(w, r)
             \/ MasterReturns(w) \/ Snapshot(w) \/ OpenEnvelopes(w) \/ RecordActivity(w)
      PROVE  Gathered'
  <2>1. \E p \in {"instant", "master", "snapshot", "open", "record", "io"} :
            pc' = [pc EXCEPT ![w] = p]
    BY <1>5 DEF ValidateApproval, UseBegin, MasterReturns, Snapshot, OpenEnvelopes,
       RecordActivity
  <2>2. PICK p \in {"instant", "master", "snapshot", "open", "record", "io"} :
            pc' = [pc EXCEPT ![w] = p]
    BY <2>1
  <2>3. acc' = [acc EXCEPT ![w] = acc[w]]
    BY <1>5, SameLocal DEF ValidateApproval, UseBegin, MasterReturns, Snapshot,
       OpenEnvelopes, RecordActivity
  <2>. QED
    BY <1>1, <2>2, <2>3, GatherSame
<1>. QED
  BY <1>2, <1>3, <1>4, <1>5 DEF PublishGrant, FinishIO

\* The wall clock goes back, or stays.
LEMMA InTimeLater ==
    ASSUME NEW x \in Int, NEW deks \in [DekKeys -> Boxes \union {None}],
           NEW o \in Int, NEW u \in Int, WallNeverForward => u <= o, InTime(x, deks, o)
    PROVE  InTime(x, deks, u)
<1>1. SUFFICES ASSUME WallNeverForward, NEW k \in DekKeys, deks[k] # None
               PROVE  x + u <= deks[k].expires
  BY DEF InTime
<1>2. deks[k].expires \in Int
  BY <1>1, BoxesAssumption DEF Box
<1>3. x + o <= deks[k].expires
  BY <1>1 DEF InTime
<1>. QED
  BY <1>1, <1>2, <1>3

LEMMA WallGather ==
    ASSUME TypeOK, GatherInv, StepWall
    PROVE  GatherInv'
<1>1. /\ UNCHANGED <<grants, pc, acc>>
      /\ offset \in Int /\ offset' \in Int /\ (WallNeverForward => offset' <= offset)
  BY NumbersAssumption DEF StepWall, TypeOK, WallNeverForward, state, locals
<1>2. ASSUME NEW w \in Workers PROVE GatherOK(pc[w], acc[w], offset')
  <2>1. GatherOK(pc[w], acc[w], offset)
    BY DEF GatherInv, Gathered
  <2>2. acc[w].expires_at \in Int /\ acc[w].deks \in [DekKeys -> Boxes \union {None}]
    BY DEF TypeOK, Acc
  <2>. QED
    BY <1>1, <2>1, <2>2, InTimeLater DEF GatherOK
<1>3. ASSUME NEW s \in Scopes, grants[s] # None
      PROVE  /\ \E k \in DekKeys : grants[s].deks[k] # None
             /\ InTime(grants[s].expires_at, grants[s].deks, offset')
  <2>1. /\ \E k \in DekKeys : grants[s].deks[k] # None
        /\ InTime(grants[s].expires_at, grants[s].deks, offset)
    BY <1>3 DEF GatherInv, Stocked
  <2>2. /\ grants[s].expires_at \in Int
        /\ grants[s].deks \in [DekKeys -> Boxes \union {None}]
    BY <1>3 DEF TypeOK, Entry
  <2>. QED
    BY <1>1, <2>1, <2>2, InTimeLater
<1>. QED
  BY <1>1, <1>2, <1>3 DEF GatherInv, Gathered, Stocked, GatherOK, InTime

\* What publish_grant leaves under the grant id, and elsewhere.
LEMMA PublishedGrants ==
    ASSUME TypeOK, NEW w \in Workers, PublishGrant(w), Publishable(w, now')
    PROVE  /\ req[w].scope \in Scopes
           /\ \A s \in Scopes :
                grants'[s] = IF s = req[w].scope
                             THEN [expires_at |-> acc[w].expires_at, deks |-> acc[w].deks]
                             ELSE IF LiveGrant(s) THEN grants[s] ELSE None
<1>. DEFINE purged == PurgedGrants(grants, last_activity, now)
            e == [expires_at |-> acc[w].expires_at, deks |-> acc[w].deks]
<1>1. grants' = [purged EXCEPT ![req[w].scope] = e]
  BY DEF PublishGrant
<1>2. \A s \in Scopes : purged[s] = IF LiveGrant(s) THEN grants[s] ELSE None
  BY DEF PurgedGrants, LiveGrant
<1>3. DOMAIN purged = Scopes
  BY DEF PurgedGrants
<1>4. req[w].scope \in Scopes
  BY RequestsAssumption DEF PublishGrant, TypeOK, InGrant, GrantRequest
<1>. HIDE DEF purged
<1>. QED
  BY <1>1, <1>2, <1>3, <1>4

LEMMA GatherStep ==
    ASSUME TypeOK, GatherInv, [Next]_vars
    PROVE  GatherInv'
<1>1. CASE StepWall
  BY <1>1, WallGather
<1>2. CASE Next /\ ~StepWall
  <2>1. offset' = offset
    BY <1>2 DEF Next, Step, GrantBegin, ValidateApproval, ReadInstant, AddDek,
       PublishGrant, Release, UseBegin, MasterReturns, Snapshot, OpenEnvelopes,
       RecordActivity, FinishIO, Maintain, Restart, Tick, clocks
  <2>2. Gathered'
    <3>1. CASE UNCHANGED <<pc, acc>>
      BY <2>1, <3>1 DEF GatherInv, Gathered, GatherOK, InTime
    <3>2. CASE Restart
      <4>1. \A w \in Workers : pc'[w] = "idle" /\ acc'[w] = NoAcc
        BY <3>2 DEF Restart, AllIdle, NoAccs
      <4>2. GatherOK("idle", NoAcc, offset)
        BY GatherNothing DEF NoAcc
      <4>. QED
        BY <2>1, <4>1, <4>2 DEF Gathered, GatherOK, InTime
    <3>3. \/ UNCHANGED <<pc, acc>> \/ Restart
          \/ \E w \in Workers :
                \/ \E r \in GrantRequests : GrantBegin(w, r)
                \/ \E r \in UseRequests : UseBegin(w, r)
                \/ Step(w) \/ MasterReturns(w) \/ FinishIO(w)
      BY <1>2 DEF Next, Release, Maintain, Tick, locals
    <3>. QED
      BY <3>1, <3>2, <3>3, HandlerGathered, AddDekGathered DEF GatherInv, Step
  <2>3. Stocked'
    <3>1. CASE Shrinks
      BY <2>1, <3>1 DEF Shrinks, GatherInv, Stocked, InTime
    <3>2. ASSUME NEW w \in Workers, PublishGrant(w), Publishable(w, now')
          PROVE  Stocked'
      <4>1. GatherOK("publish", acc[w], offset)
        BY <3>2 DEF GatherInv, Gathered, PublishGrant
      <4>. QED
        <5>1. SUFFICES ASSUME NEW s \in Scopes, grants'[s] # None
                       PROVE  /\ \E k \in DekKeys : grants'[s].deks[k] # None
                              /\ InTime(grants'[s].expires_at, grants'[s].deks, offset)
          BY <2>1 DEF Stocked, InTime
        <5>2. CASE grants'[s] = [expires_at |-> acc[w].expires_at, deks |-> acc[w].deks]
          <6>1. grants'[s].expires_at = acc[w].expires_at /\ grants'[s].deks = acc[w].deks
            BY <5>2
          <6>. QED
            BY <4>1, <6>1 DEF GatherOK
        <5>3. CASE grants'[s] = grants[s]
          BY <5>1, <5>3 DEF GatherInv, Stocked
        <5>. QED
          BY <3>2, <5>1, <5>2, <5>3, PublishedGrants
    <3>. QED
      BY <1>2, <3>1, <3>2, StepShrinks DEF Published
  <2>. QED
    BY <2>2, <2>3 DEF GatherInv
<1>3. CASE UNCHANGED vars
  BY <1>3 DEF vars, clocks, state, locals, GatherInv, Gathered, Stocked, GatherOK, InTime
<1>. QED
  BY <1>1, <1>2, <1>3

LEMMA GatherInvariant == Spec => []GatherInv
<1>1. Init => GatherInv
  <2>1. SUFFICES ASSUME Init PROVE GatherInv
    OBVIOUS
  <2>2. Stocked
    BY <2>1 DEF Init, Stocked, NoGrants
  <2>3. \A w \in Workers : pc[w] = "idle" /\ acc[w] = NoAcc
    BY <2>1 DEF Init, AllIdle, NoAccs
  <2>4. GatherOK("idle", NoAcc, offset)
    BY GatherNothing DEF NoAcc
  <2>. QED
    BY <2>2, <2>3, <2>4 DEF GatherInv, Gathered
<1>2. TypeOK /\ GatherInv /\ [Next]_vars => GatherInv'
  BY GatherStep
<1>. QED
  BY <1>1, <1>2, TypeCorrect, PTL DEF Spec

\* DeadlineHolds for every instance in which the wall clock is only ever set
\* back: no grant can be used at or after the expiry of one of its approvals,
\* whatever the order of the two clock readings and the delays between them
\* (approval_expiry_instant).
THEOREM DeadlinesHold ==
    ASSUME WallNeverForward
    PROVE  Spec => []DeadlineHolds
<1>1. ASSUME TypeOK, GatherInv PROVE DeadlineHolds
  <2>1. SUFFICES ASSUME NEW s \in Scopes, LiveGrant(s), NEW b \in HeldIn(grants[s])
                 PROVE  Wall < b.expires
    BY DEF DeadlineHolds
  <2>2. PICK k \in DekKeys : grants[s].deks[k] = b /\ b # None
    BY <2>1 DEF LiveGrant, HeldIn, Held
  <2>3. grants[s] # None /\ grants[s] \in Entry /\ now \in Nat /\ offset \in Int
    BY <1>1, <2>1 DEF LiveGrant, TypeOK
  <2>4. grants[s].expires_at \in Int /\ b \in Boxes
    BY <2>2, <2>3 DEF Entry
  <2>5. b.expires \in Int
    BY <2>4, BoxesAssumption DEF Box
  <2>6. grants[s].expires_at + offset <= b.expires
    BY <1>1, <2>2, <2>3 DEF GatherInv, Stocked, InTime
  <2>7. grants[s].expires_at > now
    BY <2>1, <2>3, <2>4 DEF LiveGrant, Lapsed
  <2>. QED
    BY <2>3, <2>4, <2>5, <2>6, <2>7 DEF Wall
<1>. QED
  BY <1>1, GatherInvariant, TypeCorrect, PTL

-----------------------------------------------------------------------------
(***************************************************************************)
(* Single use.  A nonce is remembered until an Instant computed from two   *)
(* clock readings, and what ApprovalReusedOnlyAfterExpiry promises ends    *)
(* there.  It ends with the approval when the wall clock is not set and    *)
(* the two readings of approval_expiry_instant show the same instant.      *)
(***************************************************************************)

ReadsAreTogether == \A w \in Workers : pc[w] = "wall" => acc[w].instant = now

RememberedExactly(a) ==
    \A k \in DekKeys : a.deks[k] # None =>
        a.nonces[a.deks[k].nonce] = a.deks[k].expires

TakenOnce ==
    \A b \in Boxes :
        /\ consumed[b].times <= 1
        /\ consumed[b].times = 1 => consumed[b].until = b.expires

SingleInv ==
    /\ offset = 0
    /\ \A w \in Workers : RememberedExactly(acc[w])
    /\ TakenOnce

\* The loop's body: the deadline computed is the approval's own.
LEMMA AddDekExactly ==
    ASSUME TypeOK, SingleInv, ReadsAreTogether, NEW w \in Workers, AddDek(w), ~Abort(w)
    PROVE  \A v \in Workers : RememberedExactly(acc'[v])
<1>. DEFINE d == CurrentDek(w)
            x == ApprovalExpiry(w)
            a == [done |-> acc[w].done + 1,
                  instant |-> acc[w].instant,
                  expires_at |-> Min2(acc[w].expires_at, x),
                  deks |-> [acc[w].deks EXCEPT ![d.key] = d.box],
                  nonces |-> [acc[w].nonces EXCEPT ![d.nonce] = x]]
<1>1. pc[w] = "wall" /\ DekAccepted(w) /\ acc' = [acc EXCEPT ![w] = a]
  BY DEF AddDek
<1>2. d \in DekInput
  BY <1>1, CurrentDekType DEF InGrant
<1>3. acc[w] \in Acc /\ now \in Nat /\ acc[w].instant = now
  BY <1>1 DEF TypeOK, ReadsAreTogether
<1>4. /\ d.expires \in Int /\ d.key \in DekKeys /\ d.nonce \in Nonces
      /\ acc[w].deks \in [DekKeys -> Boxes \union {None}]
      /\ acc[w].nonces \in [Nonces -> Int \union {None}]
  BY <1>2, <1>3 DEF Acc, DekInput
<1>5. x = d.expires
  BY <1>3, <1>4 DEF ApprovalExpiry, Wall, SingleInv
<1>6. /\ acc[w].nonces[d.nonce] = None
      /\ d.box.nonce = d.nonce /\ d.box.expires = d.expires
  BY <1>1 DEF DekAccepted, BlindBoxContext
<1>7. /\ \A k \in DekKeys : a.deks[k] = IF k = d.key THEN d.box ELSE acc[w].deks[k]
      /\ \A n \in Nonces : a.nonces[n] = IF n = d.nonce THEN x ELSE acc[w].nonces[n]
  BY <1>4
<1>8. \A v \in Workers : acc'[v] = IF v = w THEN a ELSE acc[v]
  BY <1>1 DEF TypeOK
<1>. HIDE DEF a, x, d
<1>9. ASSUME NEW k \in DekKeys, a.deks[k] # None
      PROVE  a.nonces[a.deks[k].nonce] = a.deks[k].expires
  <2>1. CASE k = d.key
    BY <1>4, <1>5, <1>6, <1>7, <2>1
  <2>2. CASE k # d.key
    <3>1. a.deks[k] = acc[w].deks[k] /\ acc[w].deks[k] \in Boxes
      BY <1>4, <1>7, <1>9, <2>2
    <3>2. a.deks[k].nonce \in Nonces /\ a.deks[k].expires \in Int
      BY <3>1, BoxesAssumption DEF Box
    <3>3. acc[w].nonces[a.deks[k].nonce] = a.deks[k].expires
      BY <1>9, <3>1 DEF SingleInv, RememberedExactly
    <3>4. a.deks[k].nonce # d.nonce
      BY <1>6, <3>2, <3>3, NoneAssumption
    <3>. QED
      BY <1>7, <3>2, <3>3, <3>4
  <2>. QED
    BY <2>1, <2>2
<1>. QED
  BY <1>8, <1>9 DEF SingleInv, RememberedExactly

\* Every other step keeps what a handler gathered, or forgets it.
LEMMA GatheredExactly ==
    ASSUME TypeOK, SingleInv, ReadsAreTogether, [Next]_vars
    PROVE  \A v \in Workers : RememberedExactly(acc'[v])
<1>1. RememberedExactly(NoAcc)
  BY DEF RememberedExactly, NoAcc, NoDeks
<1>2. ASSUME NEW a, NEW w \in Workers, acc' = [acc EXCEPT ![w] = a],
             RememberedExactly(a)
      PROVE  \A v \in Workers : RememberedExactly(acc'[v])
  BY <1>2 DEF SingleInv, TypeOK
<1>3. ASSUME NEW w \in Workers, Abort(w)
      PROVE  \A v \in Workers : RememberedExactly(acc'[v])
  BY <1>1, <1>2, <1>3 DEF Abort
<1>4. ASSUME NEW w \in Workers, NEW r \in GrantRequests, GrantBegin(w, r)
      PROVE  \A v \in Workers : RememberedExactly(acc'[v])
  <2>. DEFINE a == [NoAcc EXCEPT !.expires_at = now + r.ttl]
  <2>1. RememberedExactly(a)
    BY DEF RememberedExactly, NoAcc, NoDeks
  <2>2. acc' = [acc EXCEPT ![w] = a]
    BY <1>4 DEF GrantBegin
  <2>. HIDE DEF a
  <2>. QED
    BY <1>2, <2>1, <2>2
<1>5. ASSUME NEW w \in Workers, ReadInstant(w)
      PROVE  \A v \in Workers : RememberedExactly(acc'[v])
  <2>. DEFINE a == [acc[w] EXCEPT !.instant = now]
  <2>1. a.deks = acc[w].deks /\ a.nonces = acc[w].nonces
    BY DEF TypeOK, Acc
  <2>2. acc' = [acc EXCEPT ![w] = a]
    BY <1>5 DEF ReadInstant, TypeOK
  <2>3. RememberedExactly(acc[w])
    BY DEF SingleInv
  <2>. HIDE DEF a
  <2>4. RememberedExactly(a)
    BY <2>1, <2>3 DEF RememberedExactly
  <2>. QED
    BY <1>2, <2>2, <2>4
<1>6. CASE UNCHANGED acc
  BY <1>6 DEF SingleInv
<1>7. Restart => \A v \in Workers : acc'[v] = NoAcc
  BY DEF Restart, NoAccs
<1>8. [Next]_vars =>
        \/ UNCHANGED acc \/ Restart
        \/ \E w \in Workers : \/ Abort(w) \/ AddDek(w) \/ ReadInstant(w)
                              \/ \E r \in GrantRequests : GrantBegin(w, r)
  BY DEF Next, Step, ValidateApproval, PublishGrant, Release, UseBegin, MasterReturns,
     Snapshot, OpenEnvelopes, RecordActivity, FinishIO, Maintain, Tick, StepWall, vars,
     locals
<1>. QED
  BY <1>1, <1>3, <1>4, <1>5, <1>6, <1>7, <1>8, AddDekExactly

\* publish_grant takes an approval before it expires, and so for the first time.
LEMMA TakenForTheFirstTime ==
    ASSUME ApprovalInv, SingleInv, NEW w \in Workers,
           PublishGrant(w), Publishable(w, now')
    PROVE  TakenOnce'
<1>1. SUFFICES ASSUME NEW b \in Boxes
               PROVE  /\ consumed'[b].times <= 1
                      /\ consumed'[b].times = 1 => consumed'[b].until = b.expires
  BY DEF TakenOnce
<1>2. TakenOnce /\ TypeOK
  BY DEF SingleInv, ApprovalInv
<1>3. CASE b \notin Held(acc[w].deks)
  <2>1. consumed'[b] = consumed[b]
    BY <1>3 DEF PublishGrant
  <2>. QED
    BY <1>2, <2>1 DEF TakenOnce
<1>4. CASE b \in Held(acc[w].deks)
  <2>1. consumed'[b] = [times |-> consumed[b].times + 1,
                        until |-> acc[w].nonces[b.nonce]]
    BY <1>4 DEF PublishGrant
  <2>2. PICK k \in DekKeys : acc[w].deks[k] = b /\ b # None
    BY <1>4 DEF Held
  <2>3. acc[w].nonces[b.nonce] = b.expires
    BY <2>2 DEF SingleInv, RememberedExactly
  <2>4. acc[w].expires_at <= b.expires
    BY <2>2, <2>3 DEF ApprovalInv, Pending, PendingOK, PublishGrant, InGrant
  <2>5. acc[w].expires_at > now'
    BY DEF Publishable
  <2>6. consumed[b].until <= now'
    BY <1>4, TakenAfterExpiry
  <2>7. /\ consumed[b].times \in Nat /\ consumed[b].times <= 1
        /\ consumed[b].times = 1 => consumed[b].until = b.expires
    BY <1>2 DEF TakenOnce, TypeOK
  <2>8. /\ acc[w].expires_at \in Int /\ b.expires \in Int /\ now' \in Int
    <3>1. acc[w] \in Acc /\ now \in Nat
      BY <1>2 DEF TypeOK
    <3>2. b \in Box
      BY BoxesAssumption
    <3>3. now' \in Later
      BY DEF PublishGrant
    <3>4. acc[w].expires_at \in Int
      BY <3>1 DEF Acc
    <3>5. b.expires \in Int
      BY <3>2 DEF Box
    <3>6. now' \in Int
      BY <3>1, <3>3, NumbersAssumption DEF Later
    <3>. QED
      BY <3>4, <3>5, <3>6
  <2>9. consumed[b].times = 0
    BY <2>4, <2>5, <2>6, <2>7, <2>8
  <2>. QED
    BY <2>1, <2>3, <2>9
<1>. QED
  BY <1>3, <1>4

LEMMA SingleStep ==
    ASSUME WallSteps \subseteq {0}, ApprovalInv, SingleInv, ReadsAreTogether,
           [Next]_vars
    PROVE  SingleInv'
<1>1. offset' = 0
  <2>1. StepWall => offset' = 0
    BY DEF StepWall, SingleInv
  <2>2. StepWall \/ offset' = offset
    BY DEF Next, Step, GrantBegin, ValidateApproval, ReadInstant, AddDek,
       PublishGrant, Release, UseBegin, MasterReturns, Snapshot, OpenEnvelopes,
       RecordActivity, FinishIO, Maintain, Restart, Tick, clocks, vars
  <2>. QED
    BY <2>1, <2>2 DEF SingleInv
<1>2. \A v \in Workers : RememberedExactly(acc'[v])
  BY GatheredExactly DEF ApprovalInv
<1>3. TakenOnce'
  <2>1. CASE consumed' = consumed
    BY <2>1 DEF SingleInv, TakenOnce
  <2>2. \/ consumed' = consumed
        \/ \E w \in Workers : PublishGrant(w) /\ Publishable(w, now')
    BY DEF Next, Step, GrantBegin, ValidateApproval, ReadInstant, AddDek,
       PublishGrant, Release, UseBegin, MasterReturns, Snapshot, OpenEnvelopes,
       RecordActivity, FinishIO, Maintain, Restart, Tick, StepWall, vars
  <2>. QED
    BY <2>1, <2>2, TakenForTheFirstTime
<1>. QED
  BY <1>1, <1>2, <1>3 DEF SingleInv, RememberedExactly

\* ApprovalSingleUse for every instance in which the wall clock is not set, in
\* every behaviour in which approval_expiry_instant's two readings show the same
\* instant: over any regrants, purges and restarts no approval is published
\* twice (publish_grant).
THEOREM SingleUse ==
    ASSUME WallSteps \subseteq {0}
    PROVE  Spec /\ []ReadsAreTogether => []ApprovalSingleUse
<1>1. Init => SingleInv
  BY DEF Init, SingleInv, RememberedExactly, TakenOnce, NoAccs, NoAcc, NoDeks
<1>2. ApprovalInv /\ SingleInv /\ ReadsAreTogether /\ [Next]_vars => SingleInv'
  BY SingleStep
<1>3. SingleInv => ApprovalSingleUse
  BY DEF SingleInv, TakenOnce, ApprovalSingleUse
<1>. QED
  BY <1>1, <1>2, <1>3, ApprovalInvariant, PTL DEF Spec

-----------------------------------------------------------------------------
LEMMA NewIsNotLapsed ==
    ASSUME NEW e, NEW t \in Nat, e.expires_at \in Int, e.expires_at > t
    PROVE  ~Lapsed(e, t, t)
BY NumbersAssumption DEF Lapsed

\* The grant that publish_grant makes can be used at once, and holds what the
\* handler gathered.
LEMMA PublishedIsLive ==
    ASSUME TypeOK, Gathered, NEW w \in Workers, PublishGrant(w), Publishable(w, now'),
           NEW z, z = req[w].scope
    PROVE  /\ z \in Scopes /\ LiveGrant(z)'
           /\ HeldIn(grants'[z]) = Held(acc[w].deks)
           /\ Held(acc[w].deks) # {}
           /\ Held(acc[w].deks) \subseteq Boxes
<1>. DEFINE e == [expires_at |-> acc[w].expires_at, deks |-> acc[w].deks]
<1>1. z \in Scopes /\ grants'[z] = e
  BY PublishedGrants
<1>2. acc[w].deks \in [DekKeys -> Boxes \union {None}] /\ acc[w].expires_at \in Int
  BY DEF TypeOK, Acc
<1>3. e \in Entry /\ e.expires_at = acc[w].expires_at /\ e.deks = acc[w].deks
  BY <1>2 DEF Entry
<1>. HIDE DEF e
<1>4. e # None
  BY NoneAssumption, <1>3
<1>5. now' \in Nat /\ last_activity' = now' /\ acc[w].expires_at > now'
  BY NumbersAssumption DEF PublishGrant, Publishable, Later, TypeOK
<1>6. ~Lapsed(grants'[z], now', now')
  BY <1>1, <1>2, <1>3, <1>5, NewIsNotLapsed
<1>7. LiveGrant(z)'
  BY <1>1, <1>4, <1>5, <1>6 DEF LiveGrant, Lapsed
<1>8. \E k \in DekKeys : acc[w].deks[k] # None
  BY DEF Gathered, GatherOK, PublishGrant
<1>9. HeldIn(grants'[z]) = Held(acc[w].deks)
  BY <1>1, <1>3, <1>4 DEF HeldIn
<1>. QED
  BY <1>1, <1>2, <1>7, <1>8, <1>9 DEF Held

\* NonceSpentOnlyForUsableGrant for every instance: an approval's nonce enters
\* the memory only in the step that makes a grant of it that can be used then
\* (publish_grant checks the expiry under the lock, before it spends anything).
THEOREM NoncesSpentForGrants == Spec => NonceSpentOnlyForUsableGrant
<1>. DEFINE Spending ==
        \A n \in Nonces :
            used_grant_nonces'[n] \notin {None, used_grant_nonces[n]} =>
                \E s \in Scopes : /\ LiveGrant(s)'
                                  /\ \E b \in HeldIn(grants'[s]) : b.nonce = n
<1>1. ASSUME TypeOK, GatherInv, Next PROVE Spending
  <2>1. ASSUME NEW w \in Workers, PublishGrant(w), Publishable(w, now'),
               NEW n \in Nonces,
               used_grant_nonces'[n] \notin {None, used_grant_nonces[n]}
        PROVE  \E s \in Scopes : /\ LiveGrant(s)'
                                 /\ \E b \in HeldIn(grants'[s]) : b.nonce = n
    <3>1. acc[w].nonces[n] # None
      BY <2>1 DEF PublishGrant, PurgedNonces
    <3>2. PICK k \in DekKeys : acc[w].deks[k] # None /\ acc[w].deks[k].nonce = n
      BY <1>1, <3>1 DEF GatherInv, Gathered, GatherOK
    <3>3. PICK z : z = req[w].scope
      OBVIOUS
    <3>4. z \in Scopes /\ LiveGrant(z)' /\ HeldIn(grants'[z]) = Held(acc[w].deks)
      BY <1>1, <2>1, <3>3, PublishedIsLive DEF GatherInv
    <3>5. acc[w].deks[k] \in HeldIn(grants'[z])
      BY <3>2, <3>4 DEF Held
    <3>. QED
      BY <3>2, <3>4, <3>5
  <2>2. CASE Published
    BY <2>1, <2>2 DEF Published
  <2>3. CASE Shrinks
    BY <2>3 DEF Shrinks
  <2>. QED
    BY <1>1, <2>2, <2>3, StepShrinks
<1>2. TypeOK /\ GatherInv /\ [Next]_vars => [Spending]_vars
  BY <1>1
<1>3. Spec => [][Spending]_vars
  BY <1>2, TypeCorrect, GatherInvariant, PTL DEF Spec
<1>. QED
  BY <1>3 DEF NonceSpentOnlyForUsableGrant

\* NothingProlongsAGrant for every instance: a grant that stays keeps its expiry
\* unless its approvals are published anew, and the idle clock moves only for a
\* grant published, keys opened or a grant removed, or in a new process
\* (publish_grant, record_activity, `release`).
THEOREM GrantsAreNotProlonged == Spec => NothingProlongsAGrant
<1>. DEFINE Slides ==
        \A s \in Scopes :
            (grants[s] # None /\ grants'[s] # None
                /\ \A b \in HeldIn(grants'[s]) : consumed'[b] = consumed[b])
                => grants'[s] = grants[s]
            Idle ==
        last_activity' # last_activity =>
            \/ \E b \in Boxes : consumed'[b].times > consumed[b].times
            \/ \E w \in Workers : pc[w] = "record" /\ pc'[w] = "io"
            \/ \E s \in Scopes : LiveGrant(s) /\ grants'[s] = None
            \/ keypair' # keypair
<1>1. ASSUME TypeOK, GatherInv, NEW w \in Workers, PublishGrant(w), Publishable(w, now')
      PROVE  Slides /\ Idle
  <2>1. PICK z : z = req[w].scope
    OBVIOUS
  <2>2. /\ z \in Scopes /\ HeldIn(grants'[z]) = Held(acc[w].deks)
        /\ Held(acc[w].deks) # {} /\ Held(acc[w].deks) \subseteq Boxes
    BY <1>1, <2>1, PublishedIsLive DEF GatherInv
  <2>3. PICK b \in Boxes : b \in Held(acc[w].deks)
    BY <2>2
  <2>4. consumed[b].times \in Nat
    BY <1>1 DEF TypeOK
  <2>5. consumed'[b].times = consumed[b].times + 1
    BY <1>1, <2>3 DEF PublishGrant
  <2>6. consumed'[b].times > consumed[b].times /\ consumed'[b] # consumed[b]
    BY <2>4, <2>5
  <2>7. \A s \in Scopes : s # z => grants'[s] \in {grants[s], None}
    BY <1>1, <2>1, PublishedGrants
  <2>. QED
    BY <2>2, <2>3, <2>6, <2>7
<1>2. ASSUME TypeOK, GatherInv, Next PROVE Slides /\ Idle
  <2>1. CASE Published
    BY <1>1, <1>2, <2>1 DEF Published
  <2>2. CASE Shrinks
    BY <2>2 DEF Shrinks
  <2>. QED
    BY <1>2, <2>1, <2>2, StepShrinks
<1>3. TypeOK /\ GatherInv /\ [Next]_vars => [Slides]_vars /\ [Idle]_vars
  BY <1>2
<1>4. Spec => [][Slides]_vars /\ [][Idle]_vars
  BY <1>3, TypeCorrect, GatherInvariant, PTL DEF Spec
<1>. QED
  BY <1>4 DEF NothingProlongsAGrant, TtlNeverSlides, IdleClockMovesOnlyOnSuccess

-----------------------------------------------------------------------------
(***************************************************************************)
(* The refinement: every step of the grant state is a step of GrantLedger  *)
(* or none.  Publishing spends the boxes of the new grant; a snapshot      *)
(* takes what a usable grant holds and the end of the crypto drops it; a   *)
(* restart leaves nothing; and everything else lets grants lapse.          *)
(***************************************************************************)

Usable == [s \in Scopes |-> IF LiveGrant(s) THEN HeldIn(grants[s]) ELSE {}]
Taken == [w \in Workers |-> HeldIn(snap[w])]
Spent == [b \in Boxes |-> consumed[b].times]

LEMMA HeldKept ==
    ASSUME snap' = snap
    PROVE  Taken' = Taken
BY DEF Taken, HeldIn, Held

LEMMA UsableKept ==
    ASSUME UNCHANGED <<clocks, state>>
    PROVE  Usable' = Usable
BY DEF Usable, LiveGrant, Lapsed, HeldIn, Held, clocks, state

\* A handler that gives up outside the crypto holds no clone to drop.
LEMMA AbortHoldsNothing ==
    ASSUME TypeOK, NEW w \in Workers, pc[w] # "open", Abort(w)
    PROVE  snap' = snap
<1>1. snap[w] = None /\ snap = [v \in Workers |-> snap[v]]
  BY DEF TypeOK
<1>2. snap' = [snap EXCEPT ![w] = None]
  BY DEF Abort
<1>. QED
  BY <1>1, <1>2

LEMMA LapseStep ==
    ASSUME Shrinks, snap' = snap
    PROVE  Ledger!Lapse
<1>1. Taken' = Taken
  BY HeldKept
<1>2. Spent' = Spent
  BY DEF Spent, Shrinks
<1>3. \A s \in Scopes : Usable'[s] \in {Usable[s], {}}
  BY DEF Usable, Shrinks, HeldIn, Held
<1>4. DOMAIN Usable' = Scopes
  BY DEF Usable
<1>. QED
  BY <1>1, <1>2, <1>3, <1>4
     DEF Ledger!Lapse, Ledger!MayLapseExcept, Usable, Taken, Spent

\* open_with_grant's clone.
LEMMA TakeStep ==
    ASSUME TypeOK, GatherInv, NEW w \in Workers, Snapshot(w), ~Abort(w)
    PROVE  \E s \in Scopes : Ledger!Take(w, s)
<1>1. /\ pc[w] = "snapshot" /\ LiveGrant(req[w].scope)
      /\ snap' = [snap EXCEPT ![w] = grants[req[w].scope]]
      /\ UNCHANGED <<clocks, keypair, state, consumed>>
  BY DEF Snapshot
<1>2. PICK z : z = req[w].scope
  OBVIOUS
<1>3. z \in Scopes
  BY <1>1, <1>2, RequestsAssumption DEF TypeOK, InUse, UseRequest
<1>4. grants[z] # None /\ LiveGrant(z)
  BY <1>1, <1>2 DEF LiveGrant
<1>5. HeldIn(grants[z]) # {}
  <2>1. \E k \in DekKeys : grants[z].deks[k] # None
    BY <1>3, <1>4 DEF GatherInv, Stocked
  <2>. QED
    BY <1>4, <2>1 DEF HeldIn, Held
<1>6. Usable[z] = HeldIn(grants[z])
  BY <1>3, <1>4 DEF Usable
<1>7. snap[w] = None /\ DOMAIN snap = Workers
  BY <1>1 DEF TypeOK
<1>8. \A v \in Workers : snap'[v] = IF v = w THEN grants[z] ELSE snap[v]
  BY <1>1, <1>2, <1>7
<1>9. Taken' = [Taken EXCEPT ![w] = Usable[z]] /\ Taken[w] = {}
  <2>1. Taken[w] = {}
    BY <1>7 DEF Taken, HeldIn
  <2>2. \A v \in Workers : HeldIn(snap[v])' = IF v = w THEN HeldIn(grants[z])
                                              ELSE HeldIn(snap[v])
    BY <1>8 DEF HeldIn, Held
  <2>. QED
    BY <1>6, <2>1, <2>2 DEF Taken
<1>10. Usable' = Usable /\ Spent' = Spent
  BY <1>1, UsableKept DEF Spent
<1>11. Ledger!Take(w, z)
  BY <1>5, <1>6, <1>9, <1>10 DEF Ledger!Take, Usable, Taken, Spent
<1>. QED
  BY <1>3, <1>11

\* The end of the crypto, in whatever way.
LEMMA DropStep ==
    ASSUME TypeOK, NEW w \in Workers, OpenEnvelopes(w)
    PROVE  Ledger!Drop(w)
<1>1. snap' = [snap EXCEPT ![w] = None] /\ UNCHANGED <<clocks, keypair, state, consumed>>
  BY DEF OpenEnvelopes, Abort
<1>2. DOMAIN snap = Workers
  BY DEF TypeOK
<1>3. \A v \in Workers : HeldIn(snap[v])' = IF v = w THEN {} ELSE HeldIn(snap[v])
  BY <1>1, <1>2 DEF HeldIn, Held
<1>4. Taken' = [Taken EXCEPT ![w] = {}]
  BY <1>3 DEF Taken
<1>5. Usable' = Usable /\ Spent' = Spent
  BY <1>1, UsableKept DEF Spent
<1>. QED
  BY <1>4, <1>5 DEF Ledger!Drop, Usable, Taken, Spent

LEMMA RestartStep ==
    ASSUME Restart
    PROVE  Ledger!Restart
<1>1. \A s \in Scopes : ~LiveGrant(s)'
  BY DEF Restart, NoGrants, LiveGrant
<1>2. Usable' = [s \in Scopes |-> {}]
  BY <1>1 DEF Usable
<1>3. Taken' = [w \in Workers |-> {}]
  BY DEF Taken, Restart, NoRequests, HeldIn
<1>4. Spent' = Spent
  BY DEF Spent, Restart
<1>. QED
  BY <1>2, <1>3, <1>4 DEF Ledger!Restart, Ledger!NothingUsable, Usable, Taken, Spent

\* publish_grant, when it publishes: none of the boxes shares a nonce with a
\* grant that can be used, because that nonce would still be remembered.
LEMMA ApproveStep ==
    ASSUME ApprovalInv, GatherInv, NEW w \in Workers, PublishGrant(w), Publishable(w, now')
    PROVE  \E s \in Scopes : \E B \in SUBSET Boxes : Ledger!Approve(s, B)
<1>0. TypeOK /\ Gathered
  BY DEF ApprovalInv, GatherInv
<1>1. PICK z, B : z = req[w].scope /\ B = Held(acc[w].deks)
  OBVIOUS
<1>2. /\ z \in Scopes /\ LiveGrant(z)' /\ HeldIn(grants'[z]) = B
      /\ B # {} /\ B \in SUBSET Boxes
  BY <1>0, <1>1, PublishedIsLive
<1>3. PendingOK(req[w], acc[w], keypair, now)
  BY DEF ApprovalInv, Pending, PublishGrant, InGrant
<1>4. \A b \in B : b.scope = z /\ b.nonce \in Nonces /\ acc[w].nonces[b.nonce] # None
  BY <1>1, <1>2, <1>3, BoxFields DEF PendingOK, Held
<1>5. ASSUME NEW t \in Scopes, NEW b \in B, NEW c \in Usable[t]
      PROVE  b.nonce # c.nonce
  <2>1. LiveGrant(t) /\ grants[t] # None /\ c \in Held(grants[t].deks)
    BY <1>5 DEF Usable, HeldIn, LiveGrant
  <2>2. PICK k \in DekKeys : grants[t].deks[k] = c /\ c # None
    BY <2>1 DEF Held
  <2>3. /\ used_grant_nonces[c.nonce] # None
        /\ used_grant_nonces[c.nonce] >= grants[t].expires_at
    BY <2>1, <2>2 DEF ApprovalInv, LedgerInv, Backed
  <2>4. /\ grants[t] \in Entry /\ now \in Nat
        /\ used_grant_nonces \in [Nonces -> Int \union {None}]
    BY <1>0, <2>1 DEF TypeOK
  <2>5. grants[t].expires_at \in Int /\ c \in Boxes
    BY <2>2, <2>4 DEF Entry
  <2>6. c.nonce \in Nonces
    BY <2>5, BoxFields
  <2>7. grants[t].expires_at > now
    BY <2>1, <2>4, <2>5 DEF LiveGrant, Lapsed
  <2>8. used_grant_nonces[c.nonce] \in Int
    BY <2>3, <2>4, <2>6
  <2>9. ~(used_grant_nonces[c.nonce] <= now)
    BY <2>3, <2>4, <2>5, <2>7, <2>8
  <2>10. acc[w].nonces[c.nonce] = None
    BY <1>0, <2>3, <2>6, <2>9, PublishableNonces
  <2>. QED
    BY <1>4, <2>10
<1>6. Usable'[z] = B
  BY <1>2 DEF Usable
<1>7. \A s \in Scopes \ {z} : Usable'[s] \in {Usable[s], {}}
  <2>1. ASSUME NEW s \in Scopes \ {z}, LiveGrant(s)'
        PROVE  LiveGrant(s) /\ HeldIn(grants[s])' = HeldIn(grants[s])
    <3>1. grants'[s] # None
      BY <2>1 DEF LiveGrant
    <3>2. LiveGrant(s) /\ grants'[s] = grants[s]
      BY <1>0, <1>1, <3>1, PublishedGrants
    <3>. QED
      BY <3>2 DEF HeldIn, Held
  <2>. QED
    BY <2>1 DEF Usable
<1>8. Spent' = [b \in Boxes |-> Spent[b] + (IF b \in B THEN 1 ELSE 0)]
  <2>1. \A b \in Boxes : consumed'[b].times = consumed[b].times + (IF b \in B THEN 1 ELSE 0)
    <3>1. \A b \in Boxes : consumed[b].times \in Nat
      BY <1>0 DEF TypeOK
    <3>2. consumed' = [b \in Boxes |-> IF b \in B
                                       THEN [times |-> consumed[b].times + 1,
                                             until |-> acc[w].nonces[b.nonce]]
                                       ELSE consumed[b]]
      BY <1>1 DEF PublishGrant
    <3>. QED
      BY <3>1, <3>2
  <2>. QED
    BY <2>1 DEF Spent
<1>9. Taken' = Taken
  BY <1>0, AbortHoldsNothing, HeldKept DEF PublishGrant
<1>10. DOMAIN Usable' = Scopes
  BY DEF Usable
<1>11. Ledger!Approve(z, B)
  BY <1>2, <1>4, <1>5, <1>6, <1>7, <1>8, <1>9, <1>10
     DEF Ledger!Approve, Ledger!MayLapseExcept, Usable, Taken, Spent
<1>. QED
  BY <1>2, <1>11

\* Where a clone is made or dropped.
LEMMA SnapSteps ==
    ASSUME TypeOK, Next
    PROVE  \/ snap' = snap \/ Restart
           \/ \E w \in Workers : OpenEnvelopes(w) \/ (Snapshot(w) /\ ~Abort(w))
<1>1. ASSUME NEW w \in Workers, Abort(w),
             \/ ValidateApproval(w) \/ AddDek(w) \/ PublishGrant(w)
             \/ MasterReturns(w) \/ Snapshot(w) \/ FinishIO(w)
      PROVE  snap' = snap
  <2>1. pc[w] # "open"
    BY <1>1 DEF ValidateApproval, AddDek, PublishGrant, MasterReturns, Snapshot, FinishIO
  <2>. QED
    BY <1>1, <2>1, AbortHoldsNothing
<1>2. ASSUME NEW w \in Workers, ~Abort(w),
             \/ ValidateApproval(w) \/ AddDek(w) \/ PublishGrant(w)
             \/ MasterReturns(w) \/ FinishIO(w)
      PROVE  snap' = snap
  BY <1>2 DEF ValidateApproval, AddDek, PublishGrant, MasterReturns, FinishIO
<1>3. ASSUME NEW w \in Workers,
             \/ \E r \in GrantRequests : GrantBegin(w, r)
             \/ \E r \in UseRequests : UseBegin(w, r)
             \/ \E s \in Scopes : Release(w, s)
             \/ ReadInstant(w) \/ RecordActivity(w)
      PROVE  snap' = snap
  BY <1>3 DEF GrantBegin, UseBegin, Release, ReadInstant, RecordActivity, locals
<1>4. Maintain \/ Tick \/ StepWall => snap' = snap
  BY DEF Maintain, Tick, StepWall, locals
<1>. QED
  BY <1>1, <1>2, <1>3, <1>4 DEF Next, Step

\* ImplementsLedger for every instance: the grant map with its lazy purging, its
\* nonce memory and its two-step open_with_grant does nothing the ledger of
\* usable grants does not allow.  No step revives a lapsed grant, an approval is
\* never behind two grants that can be used, and key material is taken only from
\* one that can.
THEOREM GrantsImplementLedger == Spec => ImplementsLedger
<1>1. Init => Ledger!LedgerInit
  <2>1. SUFFICES ASSUME Init PROVE Ledger!LedgerInit
    OBVIOUS
  <2>2. \A s \in Scopes : ~LiveGrant(s)
    BY <2>1 DEF Init, NoGrants, LiveGrant
  <2>3. Usable = [s \in Scopes |-> {}]
    BY <2>2 DEF Usable
  <2>4. Taken = [w \in Workers |-> {}]
    BY <2>1 DEF Init, NoRequests, Taken, HeldIn
  <2>5. Spent = [b \in Boxes |-> 0]
    BY <2>1 DEF Init, Spent
  <2>. QED
    BY <2>3, <2>4, <2>5
       DEF Ledger!LedgerInit, Ledger!NothingUsable, Usable, Taken, Spent
<1>2. ASSUME ApprovalInv, GatherInv, Next PROVE Ledger!LedgerNext
  <2>0. TypeOK
    BY <1>2 DEF ApprovalInv
  <2>1. CASE Published
    BY <1>2, <2>1, ApproveStep DEF Published, Ledger!LedgerNext
  <2>2. CASE Shrinks /\ snap' = snap
    BY <2>2, LapseStep DEF Ledger!LedgerNext
  <2>3. CASE Restart
    BY <2>3, RestartStep DEF Ledger!LedgerNext
  <2>4. CASE \E w \in Workers : OpenEnvelopes(w)
    BY <2>0, <2>4, DropStep DEF Ledger!LedgerNext
  <2>5. CASE \E w \in Workers : Snapshot(w) /\ ~Abort(w)
    BY <1>2, <2>0, <2>5, TakeStep DEF Ledger!LedgerNext
  <2>. QED
    BY <1>2, <2>0, <2>1, <2>2, <2>3, <2>4, <2>5, StepShrinks, SnapSteps
<1>3. UNCHANGED vars => UNCHANGED Ledger!ledger
  <2>1. SUFFICES ASSUME UNCHANGED vars PROVE UNCHANGED Ledger!ledger
    OBVIOUS
  <2>2. Usable' = Usable /\ Taken' = Taken /\ Spent' = Spent
    BY <2>1, UsableKept, HeldKept DEF vars, locals, Spent
  <2>. QED
    BY <2>2 DEF Ledger!ledger, Usable, Taken, Spent
<1>4. ApprovalInv /\ GatherInv /\ [Next]_vars => [Ledger!LedgerNext]_(Ledger!ledger)
  BY <1>2, <1>3
<1>. QED
  BY <1>1, <1>4, ApprovalInvariant, GatherInvariant, PTL
     DEF Spec, ImplementsLedger, Ledger!LedgerSpec
-----------------------------------------------------------------------------
(***************************************************************************)
(* The composed agent.  Every step of it is a step of the grant state or   *)
(* leaves the grant state alone, so what is proved above holds in it; and  *)
(* the joint invariant says which request a worker is in get() for.        *)
(***************************************************************************)

LEMMA AgentStepIsGrantStep == [AgentNext]_agentVars => [Next]_vars
<1>1. ASSUME NEW w \in Workers,
             GetMaster(w) \/ MasterGot(w) \/ RequestStep(w)
      PROVE  [Next]_vars
  BY <1>1 DEF GetMaster, MasterGot, RequestStep, Next
<1>. QED
  BY <1>1 DEF AgentNext, AgentRestart, agentVars, Next

\* The agent as a whole implements the specification of its grant state: master
\* loads, their failures and the master's expiry add nothing to what may happen
\* to a grant, so every theorem about Spec is one about AgentSpec
\* (open_with_grant calls master.get() with the state lock released).
THEOREM AgentImplementsGrants == AgentSpec => Spec
<1>1. AgentInit => Init
  BY DEF AgentInit
<1>. QED
  BY <1>1, AgentStepIsGrantStep, PTL DEF AgentSpec, Spec

\* Grants are made of boxes that were published.
GrantsAreSpent ==
    \A s \in Scopes : grants[s] # None =>
        \A k \in DekKeys : grants[s].deks[k] # None =>
            consumed[grants[s].deks[k]].times > 0

\* No publication is forgotten.
LEMMA SpentGrows ==
    ASSUME TypeOK, [Next]_vars, NEW b \in Boxes, consumed[b].times > 0
    PROVE  consumed'[b].times > 0
<1>1. consumed[b].times \in Nat
  BY DEF TypeOK
<1>2. ASSUME NEW w \in Workers, PublishGrant(w), Publishable(w, now')
      PROVE  consumed'[b].times \in {consumed[b].times, consumed[b].times + 1}
  <2>1. consumed'[b] = IF b \in Held(acc[w].deks)
                       THEN [times |-> consumed[b].times + 1,
                             until |-> acc[w].nonces[b.nonce]]
                       ELSE consumed[b]
    BY <1>2 DEF PublishGrant
  <2>. QED
    BY <2>1
<1>3. Shrinks \/ UNCHANGED vars => consumed' = consumed
  BY DEF Shrinks, vars
<1>. QED
  BY <1>1, <1>2, <1>3, StepShrinks DEF Published

LEMMA SpentInvariant == Spec => []GrantsAreSpent
<1>1. Init => GrantsAreSpent
  BY DEF Init, NoGrants, GrantsAreSpent
<1>2. ASSUME TypeOK, GrantsAreSpent, [Next]_vars PROVE GrantsAreSpent'
  <2>1. ASSUME NEW s \in Scopes, grants'[s] # None,
               NEW k \in DekKeys, grants'[s].deks[k] # None
        PROVE  consumed'[grants'[s].deks[k]].times > 0
    <3>1. CASE grants'[s] = grants[s]
      <4>1. grants[s].deks[k] \in Boxes
        BY <1>2, <2>1, <3>1 DEF TypeOK, Entry
      <4>. QED
        BY <1>2, <2>1, <3>1, <4>1, SpentGrows DEF GrantsAreSpent
    <3>2. ASSUME NEW w \in Workers, PublishGrant(w), Publishable(w, now'),
                 grants'[s] = [expires_at |-> acc[w].expires_at, deks |-> acc[w].deks]
          PROVE  consumed'[grants'[s].deks[k]].times > 0
      <4>1. PICK b : b = acc[w].deks[k]
        OBVIOUS
      <4>2. grants'[s].deks[k] = b
        BY <3>2, <4>1
      <4>3. b \in Boxes /\ b \in Held(acc[w].deks)
        BY <1>2, <2>1, <4>1, <4>2 DEF TypeOK, Acc, Held
      <4>4. consumed[b].times \in Nat
        BY <1>2, <4>3 DEF TypeOK
      <4>5. consumed'[b].times = consumed[b].times + 1
        BY <3>2, <4>3 DEF PublishGrant
      <4>. QED
        BY <4>2, <4>4, <4>5
    <3>3. CASE Shrinks
      BY <2>1, <3>1, <3>3 DEF Shrinks
    <3>4. CASE Published
      BY <1>2, <2>1, <3>1, <3>2, <3>4, PublishedGrants DEF Published
    <3>5. CASE UNCHANGED vars
      BY <3>1, <3>5 DEF vars, state
    <3>. QED
      BY <1>2, <3>3, <3>4, <3>5, StepShrinks
  <2>. QED
    BY <2>1 DEF GrantsAreSpent
<1>. QED
  BY <1>1, <1>2, TypeCorrect, PTL DEF Spec

-----------------------------------------------------------------------------

\* This process was given an approval for the id.
Approved(s) ==
    \E b \in Boxes : b.scope = s /\ b.agent = keypair /\ consumed[b].times > 0

MasterOK ==
    /\ stored \in Keys
    /\ cached \in [key: Keys, last_used: Int] \union {None}
    /\ mpc \in [Workers -> {"out", "lock", "recheck", "load", "install", "have", "failed"}]
    /\ handle \in [Workers -> Keys \union {None}]
    /\ \A w \in Workers : mpc[w] \in {"install", "have"} <=> handle[w] # None

\* A worker at label p with request r, at label l of get().
UseOK(p, r, l) ==
    /\ p \notin {"master", "snapshot", "open"} => l = "out"
    /\ p = "master" => r.master
    /\ p \in {"snapshot", "open"} => l = IF r.master THEN "have" ELSE "out"

Joint ==
    \A w \in Workers :
        /\ UseOK(pc[w], req[w], mpc[w])
        /\ pc[w] \in {"master", "snapshot", "open"} => Approved(req[w].scope)

AgentInv == MasterOK /\ Joint

\* What the grants promise the composition.
GrantSide == ApprovalInv /\ GatherInv /\ GrantsAreSpent

\* A usable grant has an approval behind it.
LEMMA LiveIsApproved ==
    ASSUME GrantSide, NEW s \in Scopes, LiveGrant(s)
    PROVE  Approved(s)
<1>1. grants[s] # None
  BY DEF LiveGrant
<1>2. PICK k \in DekKeys : grants[s].deks[k] # None
  BY <1>1 DEF GrantSide, GatherInv, Stocked
<1>3. grants[s].deks[k] \in Boxes
  BY <1>1, <1>2 DEF GrantSide, ApprovalInv, TypeOK, Entry
<1>4. grants[s].deks[k].scope = s /\ grants[s].deks[k].agent = keypair
  BY <1>1, <1>2 DEF GrantSide, ApprovalInv, LedgerInv, Matching
<1>5. consumed[grants[s].deks[k]].times > 0
  BY <1>1, <1>2 DEF GrantSide, GrantsAreSpent
<1>. QED
  BY <1>3, <1>4, <1>5 DEF Approved

\* An approval stays one as long as the process lives.
LEMMA ApprovedStays ==
    ASSUME TypeOK, [Next]_vars, keypair' = keypair, NEW s, Approved(s)
    PROVE  Approved(s)'
<1>1. PICK b \in Boxes : b.scope = s /\ b.agent = keypair /\ consumed[b].times > 0
  BY DEF Approved
<1>2. consumed'[b].times > 0
  BY <1>1, SpentGrows
<1>. QED
  BY <1>1, <1>2 DEF Approved

\* A step of worker w, of its handler, of its get() or of both.
LEMMA JointOneWorker ==
    ASSUME TypeOK, MasterOK, Joint, [Next]_vars, keypair' = keypair, NEW w \in Workers,
           NEW p, NEW r, NEW l,
           pc' = [pc EXCEPT ![w] = p], req' = [req EXCEPT ![w] = r],
           mpc' = [mpc EXCEPT ![w] = l],
           UseOK(p, r, l),
           p \in {"master", "snapshot", "open"} => Approved(r.scope)
    PROVE  Joint'
<1>1. SUFFICES ASSUME NEW v \in Workers
               PROVE  /\ UseOK(pc'[v], req'[v], mpc'[v])
                      /\ pc'[v] \in {"master", "snapshot", "open"} =>
                            Approved(req[v].scope)'
  BY DEF Joint, UseOK
<1>2. CASE v = w
  <2>1. pc'[v] = p /\ req'[v] = r /\ mpc'[v] = l
    BY <1>2 DEF TypeOK, MasterOK
  <2>2. \A s : Approved(s) => Approved(s)'
    BY ApprovedStays
  <2>3. p \in {"master", "snapshot", "open"} => Approved(r.scope)'
    <3>1. PICK s : s = r.scope
      OBVIOUS
    <3>. QED
      BY <2>2, <3>1
  <2>. QED
    BY <2>1, <2>3 DEF Approved
<1>3. CASE v # w
  <2>1. pc'[v] = pc[v] /\ req'[v] = req[v] /\ mpc'[v] = mpc[v]
    BY <1>3 DEF TypeOK, MasterOK
  <2>2. /\ UseOK(pc[v], req[v], mpc[v])
        /\ pc[v] \in {"master", "snapshot", "open"} => Approved(req[v].scope)
    BY DEF Joint
  <2>3. PICK s : s = req[v].scope
    OBVIOUS
  <2>4. Approved(s) => Approved(s)'
    BY ApprovedStays
  <2>. QED
    BY <2>1, <2>2, <2>3, <2>4 DEF Approved
<1>. QED
  BY <1>2, <1>3

\* No worker moves.
LEMMA JointQuiet ==
    ASSUME TypeOK, Joint, [Next]_vars, UNCHANGED <<keypair, pc, req, mpc>>
    PROVE  Joint'
<1>1. ASSUME NEW v \in Workers, Approved(req[v].scope) PROVE Approved(req[v].scope)'
  <2>1. PICK s : s = req[v].scope
    OBVIOUS
  <2>2. Approved(s)'
    BY <1>1, <2>1, ApprovedStays
  <2>. QED
    BY <2>1, <2>2 DEF Approved
<1>. QED
  BY <1>1 DEF Joint, UseOK

LEMMA MasterMove ==
    ASSUME MasterOK, NEW w \in Workers,
           NEW l \in {"out", "lock", "recheck", "load", "install", "have", "failed"},
           NEW h \in Keys \union {None}, l \in {"install", "have"} <=> h # None,
           mpc' = [mpc EXCEPT ![w] = l], handle' = [handle EXCEPT ![w] = h],
           stored' = stored, cached' \in [key: Keys, last_used: Int] \union {None}
    PROVE  MasterOK'
BY DEF MasterOK

LEMMA MasterQuiet ==
    ASSUME MasterOK, UNCHANGED <<stored, cached, mpc, handle>>
    PROVE  MasterOK'
BY DEF MasterOK

\* The steps of get().
LEMMA GetKeepsMaster ==
    ASSUME MasterOK, now \in Nat, NEW w \in Workers,
           Master!Get(w) \/ Master!LockLoading(w) \/ Master!Proceed(w)
    PROVE  MasterOK' /\ \E l : mpc' = [mpc EXCEPT ![w] = l]
<1>. DEFINE Copies == [key: Keys, last_used: Int] \union {None}
<1>1. /\ stored \in Keys /\ None \notin Keys /\ cached \in Copies
      /\ handle[w] \in Keys \union {None} /\ DOMAIN handle = Workers
      /\ mpc[w] \in {"install", "have"} <=> handle[w] # None
      /\ handle = [handle EXCEPT ![w] = handle[w]]
  BY MasterKeysAssumption DEF MasterOK
<1>2. ASSUME Master!Hit(w)
      PROVE  cached' \in Copies /\ \E h \in Keys : handle' = [handle EXCEPT ![w] = h]
  <2>1. cached # None /\ cached' = [cached EXCEPT !.last_used = now]
        /\ handle' = [handle EXCEPT ![w] = cached.key]
    BY <1>2 DEF Master!Hit, Master!Unexpired
  <2>2. cached \in [key: Keys, last_used: Int]
    BY <1>1, <2>1
  <2>3. cached.key \in Keys
    BY <2>2
  <2>4. cached' \in [key: Keys, last_used: Int]
    BY <2>1, <2>2
  <2>. QED
    BY <2>1, <2>3, <2>4
<1>3. ASSUME Master!Miss PROVE cached' \in Copies
  BY <1>3 DEF Master!Miss
<1>. HIDE DEF Copies
<1>4. CASE Master!GetUnlocked(w)
  BY <1>1, <1>4, MasterMove DEF Master!GetUnlocked, Master!Goto, Copies
<1>5. CASE Master!GetCached(w)
  <2>1. CASE Master!Hit(w) /\ Master!Goto(w, "have")
    <3>1. PICK h \in Keys : handle' = [handle EXCEPT ![w] = h]
      BY <1>2, <2>1
    <3>2. h # None
      BY <1>1
    <3>. QED
      BY <1>2, <1>5, <2>1, <3>1, <3>2, MasterMove DEF Master!GetCached, Master!Goto, Copies
  <2>2. CASE Master!Miss /\ Master!Goto(w, "lock") /\ UNCHANGED handle
    <3>1. handle[w] = None
      BY <1>1, <1>5 DEF Master!GetCached
    <3>. QED
      BY <1>1, <1>3, <1>5, <2>2, <3>1, MasterMove DEF Master!GetCached, Master!Goto, Copies
  <2>. QED
    BY <1>5, <2>1, <2>2 DEF Master!GetCached
<1>6. CASE Master!LockLoading(w)
  <2>1. handle[w] = None
    BY <1>1, <1>6 DEF Master!LockLoading
  <2>. QED
    BY <1>1, <1>6, <2>1, MasterMove DEF Master!LockLoading, Master!Goto, Copies
<1>7. CASE Master!Recheck(w)
  <2>1. CASE Master!Hit(w) /\ Master!Goto(w, "have")
    <3>1. PICK h \in Keys : handle' = [handle EXCEPT ![w] = h]
      BY <1>2, <2>1
    <3>2. h # None
      BY <1>1
    <3>. QED
      BY <1>2, <1>7, <2>1, <3>1, <3>2, MasterMove DEF Master!Recheck, Master!Goto, Copies
  <2>2. CASE Master!Miss /\ Master!Goto(w, "load") /\ UNCHANGED handle
    <3>1. handle[w] = None
      BY <1>1, <1>7 DEF Master!Recheck
    <3>. QED
      BY <1>1, <1>3, <1>7, <2>2, <3>1, MasterMove DEF Master!Recheck, Master!Goto, Copies
  <2>. QED
    BY <1>7, <2>1, <2>2 DEF Master!Recheck
<1>8. CASE Master!Load(w)
  <2>1. handle[w] = None /\ cached' = cached /\ stored' = stored
    BY <1>1, <1>8 DEF Master!Load
  <2>2. CASE handle' = [handle EXCEPT ![w] = stored] /\ Master!Goto(w, "install")
    BY <1>1, <2>1, <2>2, MasterMove DEF Master!Goto, Copies
  <2>3. CASE Master!Goto(w, "failed") /\ UNCHANGED handle
    BY <1>1, <2>1, <2>3, MasterMove DEF Master!Goto, Copies
  <2>. QED
    BY <1>8, <2>2, <2>3 DEF Master!Load
<1>9. CASE Master!Install(w)
  <2>1. handle[w] \in Keys /\ handle[w] # None
    BY <1>1, <1>9 DEF Master!Install
  <2>2. cached' \in Copies
    BY <1>9, <2>1 DEF Master!Install, Copies
  <2>. QED
    BY <1>1, <1>9, <2>1, <2>2, MasterMove DEF Master!Install, Master!Goto, Copies
<1>. QED
  BY <1>4, <1>5, <1>6, <1>7, <1>8, <1>9 DEF Master!Get, Master!Proceed

\* The master handle is dropped.
LEMMA ReturnKeepsMaster ==
    ASSUME MasterOK, NEW w \in Workers, Master!Return(w)
    PROVE  MasterOK' /\ mpc' = [mpc EXCEPT ![w] = "out"]
<1>1. /\ mpc' = [mpc EXCEPT ![w] = "out"] /\ handle' = [handle EXCEPT ![w] = None]
      /\ stored' = stored /\ cached' = cached
  BY DEF Master!Return, Master!Goto
<1>2. cached' \in [key: Keys, last_used: Int] \union {None}
  BY <1>1 DEF MasterOK
<1>. QED
  BY <1>1, <1>2, MasterMove

LEMMA GetMasterAgent ==
    ASSUME TypeOK, AgentInv, NEW w \in Workers, GetMaster(w)
    PROVE  AgentInv'
<1>1. now \in Nat /\ MasterOK /\ Joint
  BY DEF TypeOK, AgentInv
<1>2. MasterOK' /\ \E l : mpc' = [mpc EXCEPT ![w] = l]
  BY <1>1, GetKeepsMaster DEF GetMaster
<1>3. PICK l : mpc' = [mpc EXCEPT ![w] = l]
  BY <1>2
<1>4. /\ pc[w] = "master" /\ UNCHANGED vars
      /\ UNCHANGED <<keypair, pc, req>>
  BY DEF GetMaster, vars, locals
<1>5. pc' = [pc EXCEPT ![w] = "master"] /\ req' = [req EXCEPT ![w] = req[w]]
  BY <1>4 DEF TypeOK
<1>6. UseOK("master", req[w], l) /\ Approved(req[w].scope)
  BY <1>1, <1>4 DEF Joint, UseOK
<1>7. Joint'
  BY <1>1, <1>3, <1>4, <1>5, <1>6, JointOneWorker
<1>. QED
  BY <1>2, <1>7 DEF AgentInv

LEMMA MasterGotAgent ==
    ASSUME TypeOK, AgentInv, NEW w \in Workers, MasterGot(w)
    PROVE  AgentInv'
<1>1. MasterOK /\ Joint /\ [Next]_vars /\ keypair' = keypair /\ pc[w] = "master"
  BY DEF AgentInv, MasterGot, MasterReturns, Next
<1>2. CASE mpc[w] = "have"
  <2>1. /\ pc'[w] = "snapshot" /\ UNCHANGED masterVars
    BY <1>2 DEF MasterGot
  <2>2. pc' = [pc EXCEPT ![w] = "snapshot"] /\ req' = req
    BY <2>1 DEF MasterGot, MasterReturns, Abort, TypeOK
  <2>3. /\ req' = [req EXCEPT ![w] = req[w]] /\ mpc' = [mpc EXCEPT ![w] = "have"]
    BY <1>1, <1>2, <2>1, <2>2 DEF TypeOK, MasterOK, masterVars
  <2>4. UseOK("snapshot", req[w], "have") /\ Approved(req[w].scope)
    BY <1>1 DEF Joint, UseOK
  <2>5. Joint'
    BY <1>1, <2>2, <2>3, <2>4, JointOneWorker
  <2>. QED
    BY <1>1, <2>1, <2>5, MasterQuiet DEF AgentInv, masterVars
<1>3. CASE mpc[w] # "have"
  <2>1. pc'[w] = "idle" /\ Master!Return(w)
    BY <1>3 DEF MasterGot
  <2>2. Abort(w)
    BY <2>1 DEF MasterGot, MasterReturns, TypeOK
  <2>3. MasterOK' /\ mpc' = [mpc EXCEPT ![w] = "out"]
    BY <1>1, <2>1, ReturnKeepsMaster
  <2>4. UseOK("idle", None, "out")
    BY DEF UseOK
  <2>5. Joint'
    BY <1>1, <2>2, <2>3, <2>4, JointOneWorker DEF Abort
  <2>. QED
    BY <2>3, <2>5 DEF AgentInv
<1>. QED
  BY <1>2, <1>3

\* The handler's own steps; with the end of the crypto the master goes too.
LEMMA RequestStepAgent ==
    ASSUME TypeOK, AgentInv, NEW w \in Workers, RequestStep(w)
    PROVE  AgentInv'
<1>1. MasterOK /\ Joint /\ [Next]_vars /\ Step(w) /\ UseOK(pc[w], req[w], mpc[w])
  BY DEF AgentInv, RequestStep, Next, Joint
<1>2. keypair' = keypair
  BY <1>1 DEF Step, ValidateApproval, ReadInstant, AddDek, PublishGrant, Snapshot,
     OpenEnvelopes, RecordActivity
<1>3. PICK p, r : /\ pc' = [pc EXCEPT ![w] = p] /\ req' = [req EXCEPT ![w] = r]
                  /\ p \notin {"master", "snapshot"}
                  /\ p = "open" => pc[w] = "snapshot" /\ r = req[w]
  <2>1. req = [req EXCEPT ![w] = req[w]]
    BY DEF TypeOK
  <2>2. CASE Abort(w)
    <3>1. pc' = [pc EXCEPT ![w] = "idle"] /\ req' = [req EXCEPT ![w] = None]
      BY <2>2 DEF Abort
    <3>2. "idle" \notin {"master", "snapshot"} /\ "idle" # "open"
      OBVIOUS
    <3>. QED
      BY <3>1, <3>2, Zenon
  <2>3. CASE ~Abort(w)
    <3>1. req' = req
      BY <1>1, <2>3 DEF Step, ValidateApproval, ReadInstant, AddDek, PublishGrant,
         Snapshot, OpenEnvelopes, RecordActivity
    <3>2. \E l \in {"instant", "wall", "publish", "validate", "record", "io", "open"} :
             /\ pc' = [pc EXCEPT ![w] = l] /\ (l = "open" => pc[w] = "snapshot")
      BY <1>1, <2>3 DEF Step, ValidateApproval, ReadInstant, AddDek, PublishGrant,
         Snapshot, OpenEnvelopes, RecordActivity
    <3>3. PICK l \in {"instant", "wall", "publish", "validate", "record", "io", "open"} :
             /\ pc' = [pc EXCEPT ![w] = l] /\ (l = "open" => pc[w] = "snapshot")
      BY <3>2
    <3>4. req' = [req EXCEPT ![w] = req[w]]
      BY <2>1, <3>1
    <3>5. l \notin {"master", "snapshot"}
      OBVIOUS
    <3>. QED
      BY <3>3, <3>4, <3>5
  <2>. QED
    BY <2>2, <2>3
<1>4. pc'[w] = p
  BY <1>3 DEF TypeOK
<1>5. pc[w] \notin {"master"}
  BY <1>1 DEF Step, ValidateApproval, ReadInstant, AddDek, PublishGrant, Snapshot,
     OpenEnvelopes, RecordActivity
<1>6. mpc[w] \in {"out", "have"}
  BY <1>1, <1>5 DEF UseOK
<1>7. CASE mpc[w] = "have" /\ p # "open"
  <2>1. MasterOK' /\ mpc' = [mpc EXCEPT ![w] = "out"]
    BY <1>1, <1>4, <1>7, ReturnKeepsMaster DEF RequestStep
  <2>2. UseOK(p, r, "out")
    BY <1>3, <1>7 DEF UseOK
  <2>3. Joint'
    BY <1>1, <1>2, <1>3, <1>7, <2>1, <2>2, JointOneWorker
  <2>. QED
    BY <2>1, <2>3 DEF AgentInv
<1>8. CASE ~(mpc[w] = "have" /\ p # "open")
  <2>1. UNCHANGED masterVars
    BY <1>4, <1>8 DEF RequestStep
  <2>2. MasterOK' /\ mpc' = [mpc EXCEPT ![w] = mpc[w]]
    BY <1>1, <2>1, MasterQuiet DEF masterVars, MasterOK
  <2>3. UseOK(p, r, mpc[w])
    BY <1>1, <1>3, <1>6, <1>8 DEF UseOK
  <2>4. p \in {"master", "snapshot", "open"} => Approved(r.scope)
    BY <1>1, <1>3 DEF Joint
  <2>5. Joint'
    BY <1>1, <1>2, <1>3, <2>2, <2>3, <2>4, JointOneWorker
  <2>. QED
    BY <2>2, <2>5 DEF AgentInv
<1>. QED
  BY <1>7, <1>8

\* A frame arrives, or its I/O is done.
LEMMA FrameAgent ==
    ASSUME GrantSide, AgentInv, NEW w \in Workers, UNCHANGED masterVars,
           \/ \E r \in GrantRequests : GrantBegin(w, r)
           \/ \E r \in UseRequests : UseBegin(w, r)
           \/ FinishIO(w)
    PROVE  AgentInv'
<1>1. TypeOK /\ MasterOK /\ Joint
  BY DEF GrantSide, ApprovalInv, AgentInv
<1>2. [Next]_vars /\ keypair' = keypair
  BY DEF Next, GrantBegin, UseBegin, FinishIO
<1>3. pc[w] \in {"idle", "io"}
  BY DEF GrantBegin, UseBegin, FinishIO
<1>4. mpc[w] = "out"
  BY <1>1, <1>3 DEF Joint, UseOK
<1>5. MasterOK' /\ mpc' = [mpc EXCEPT ![w] = "out"]
  BY <1>1, <1>4, MasterQuiet DEF masterVars, MasterOK
<1>6. ASSUME NEW r \in GrantRequests, GrantBegin(w, r) PROVE Joint'
  <2>1. UseOK("validate", r, "out")
    BY DEF UseOK
  <2>. QED
    BY <1>1, <1>2, <1>5, <1>6, <2>1, JointOneWorker DEF GrantBegin
<1>7. ASSUME FinishIO(w) PROVE Joint'
  <2>1. UseOK("idle", None, "out")
    BY DEF UseOK
  <2>. QED
    BY <1>1, <1>2, <1>5, <1>7, <2>1, JointOneWorker DEF FinishIO, Abort
<1>8. ASSUME NEW r \in UseRequests, UseBegin(w, r) PROVE Joint'
  <2>1. r.scope \in Scopes
    BY RequestsAssumption DEF UseRequest
  <2>2. Approved(r.scope)
    BY <1>8, <2>1, LiveIsApproved DEF UseBegin
  <2>3. CASE r.master
    <3>1. UseOK("master", r, "out")
      BY <2>3 DEF UseOK
    <3>. QED
      BY <1>1, <1>2, <1>5, <1>8, <2>2, <2>3, <3>1, JointOneWorker DEF UseBegin
  <2>4. CASE ~r.master
    <3>1. UseOK("snapshot", r, "out")
      BY <2>4 DEF UseOK
    <3>. QED
      BY <1>1, <1>2, <1>5, <1>8, <2>2, <2>4, <3>1, JointOneWorker DEF UseBegin
  <2>. QED
    BY <2>3, <2>4
<1>. QED
  BY <1>5, <1>6, <1>7, <1>8 DEF AgentInv

\* Steps in which no worker moves, and the restart.
LEMMA QuietAgent ==
    ASSUME TypeOK, AgentInv, [Next]_vars, UNCHANGED <<keypair, pc, req, mpc, handle>>,
           stored' \in Keys, cached' \in {cached, None}
    PROVE  AgentInv'
<1>1. MasterOK'
  BY DEF AgentInv, MasterOK
<1>2. Joint'
  BY JointQuiet DEF AgentInv
<1>. QED
  BY <1>1, <1>2 DEF AgentInv

LEMMA RestartAgent ==
    ASSUME AgentInv, AgentRestart
    PROVE  AgentInv'
<1>1. MasterOK'
  BY DEF AgentInv, AgentRestart, MasterOK, NoRequests
<1>2. \A w \in Workers : pc'[w] = "idle" /\ mpc'[w] = "out"
  BY DEF AgentRestart, Restart, AllIdle
<1>3. Joint'
  BY <1>2 DEF Joint, UseOK
<1>. QED
  BY <1>1, <1>3 DEF AgentInv

LEMMA AgentStep ==
    ASSUME GrantSide, AgentInv, [AgentNext]_agentVars
    PROVE  AgentInv'
<1>1. TypeOK /\ [Next]_vars /\ stored \in Keys
  BY AgentStepIsGrantStep DEF GrantSide, ApprovalInv, AgentInv, MasterOK
<1>2. ASSUME NEW w \in Workers, NEW s \in Scopes, Release(w, s), UNCHANGED masterVars
      PROVE  AgentInv'
  BY <1>1, <1>2, QuietAgent DEF Release, locals, masterVars
<1>3. ASSUME Maintain \/ Tick \/ StepWall, UNCHANGED masterVars PROVE AgentInv'
  BY <1>1, <1>3, QuietAgent DEF Maintain, Tick, StepWall, locals, masterVars
<1>4. ASSUME Master!PurgeMaster \/ Master!ReplaceStored, UNCHANGED vars PROVE AgentInv'
  <2>1. stored' \in Keys /\ cached' \in {cached, None} /\ UNCHANGED <<mpc, handle>>
    BY <1>1, <1>4 DEF Master!PurgeMaster, Master!ReplaceStored, Master!Unexpired
  <2>2. UNCHANGED <<keypair, pc, req>>
    BY <1>4 DEF vars, locals
  <2>. QED
    BY <1>1, <2>1, <2>2, QuietAgent
<1>5. ASSUME UNCHANGED agentVars PROVE AgentInv'
  BY <1>1, <1>5, QuietAgent DEF agentVars, vars, locals, masterVars
<1>. QED
  BY <1>1, <1>2, <1>3, <1>4, <1>5, GetMasterAgent, MasterGotAgent, RequestStepAgent,
     FrameAgent, RestartAgent
     DEF AgentNext

\* KeysOnlyForApprovedCrypto for every instance: a worker is in a store access, or
\* waits for one, only for a request on an id this process was given an approval
\* for, and holds the master or a clone of a grant only until the crypto of that
\* request is over, however loads, failures, revocations, expiries and restarts
\* fall (open_with_grant).
THEOREM KeysOnlyForCrypto == AgentSpec => []KeysOnlyForApprovedCrypto
<1>1. AgentInit => AgentInv
  <2>1. SUFFICES ASSUME AgentInit PROVE AgentInv
    OBVIOUS
  <2>2. MasterOK
    BY <2>1 DEF AgentInit, Master!MasterInit, MasterOK
  <2>3. \A w \in Workers : pc[w] = "idle" /\ mpc[w] = "out"
    BY <2>1 DEF AgentInit, Init, Master!MasterInit, AllIdle
  <2>4. Joint
    BY <2>3 DEF Joint, UseOK
  <2>. QED
    BY <2>2, <2>4 DEF AgentInv
<1>2. GrantSide /\ AgentInv /\ [AgentNext]_agentVars => AgentInv'
  BY AgentStep
<1>3. Spec => []GrantSide
  BY ApprovalInvariant, GatherInvariant, SpentInvariant, PTL DEF GrantSide
<1>4. ASSUME GrantSide, AgentInv PROVE KeysOnlyForApprovedCrypto
  <2>1. ASSUME NEW w \in Workers
        PROVE  /\ pc[w] \notin {"master", "snapshot", "open"} =>
                        handle[w] = None /\ mpc[w] = "out"
               /\ (pc[w] \in {"snapshot", "open"} /\ handle[w] = None) => ~req[w].master
               /\ pc[w] # "open" => snap[w] = None
    <3>1. UseOK(pc[w], req[w], mpc[w]) /\ (mpc[w] \in {"install", "have"} <=> handle[w] # None)
      BY <1>4 DEF AgentInv, Joint, MasterOK
    <3>2. snap[w] # None <=> pc[w] = "open"
      BY <1>4 DEF GrantSide, ApprovalInv, TypeOK
    <3>. QED
      BY <3>1, <3>2 DEF UseOK
  <2>2. ASSUME NEW w \in Workers, mpc[w] # "out"
        PROVE  /\ req[w].master
               /\ \E b \in Boxes : /\ b.scope = req[w].scope
                                   /\ b.agent = keypair
                                   /\ consumed[b].times > 0
    <3>1. /\ UseOK(pc[w], req[w], mpc[w])
          /\ pc[w] \in {"master", "snapshot", "open"} => Approved(req[w].scope)
      BY <1>4 DEF AgentInv, Joint
    <3>2. pc[w] \in {"master", "snapshot", "open"} /\ req[w].master
      BY <2>2, <3>1 DEF UseOK
    <3>. QED
      BY <3>1, <3>2 DEF Approved
  <2>. QED
    BY <2>1, <2>2
       DEF KeysOnlyForApprovedCrypto, HandlesOnlyForCrypto, StoreTouchedOnlyUnderApproval
<1>. QED
  BY <1>1, <1>2, <1>3, <1>4, AgentImplementsGrants, PTL DEF AgentSpec

-----------------------------------------------------------------------------
(* The master cache in the composed agent: every step is one of MasterCache,  *)
(* a restart, which leaves an empty cache, or lets the cache be while time     *)
(* passes, at once within a critical section; so what MasterCacheProofs shows  *)
(* of the cache alone holds of it here, with the requests that use it.         *)

Cache == INSTANCE MasterCacheProofs

LEMMA CacheAssumptions == Cache!KeysAssumption /\ Cache!IdleAssumption
BY MasterKeysAssumption, NumbersAssumption DEF Cache!KeysAssumption, Cache!IdleAssumption

\* The two instances of MasterCache are one.
LEMMA SameCache ==
    /\ \A w \in Workers : /\ Master!Get(w) => Cache!Get(w)
                          /\ Master!LockLoading(w) => Cache!LockLoading(w)
                          /\ Master!Proceed(w) => Cache!Proceed(w)
                          /\ Master!Return(w) => Cache!Return(w)
    /\ Master!PurgeMaster => Cache!PurgeMaster
    /\ Master!ReplaceStored => Cache!ReplaceStored
<1>1. \A w \in Workers : Master!Get(w) => Cache!Get(w)
  BY DEF Master!Get, Master!GetUnlocked, Master!GetCached, Master!Hit, Master!Miss,
         Master!Unexpired, Master!Goto, Cache!Get, Cache!GetUnlocked, Cache!GetCached,
         Cache!Hit, Cache!Miss, Cache!Unexpired, Cache!Goto
<1>2. \A w \in Workers : Master!LockLoading(w) => Cache!LockLoading(w)
  BY DEF Master!LockLoading, Master!Goto, Cache!LockLoading, Cache!Goto
<1>3. \A w \in Workers : Master!Proceed(w) => Cache!Proceed(w)
  BY DEF Master!Proceed, Master!Recheck, Master!Load, Master!Install, Master!Hit, Master!Miss,
         Master!Unexpired, Master!Goto, Cache!Proceed, Cache!Recheck, Cache!Load, Cache!Install,
         Cache!Hit, Cache!Miss, Cache!Unexpired, Cache!Goto
<1>4. \A w \in Workers : Master!Return(w) => Cache!Return(w)
  BY DEF Master!Return, Master!Goto, Cache!Return, Cache!Goto
<1>5. Master!PurgeMaster => Cache!PurgeMaster
  BY DEF Master!PurgeMaster, Master!Unexpired, Cache!PurgeMaster, Cache!Unexpired
<1>6. Master!ReplaceStored => Cache!ReplaceStored
  BY DEF Master!ReplaceStored, Cache!ReplaceStored
<1>. QED
  BY <1>1, <1>2, <1>3, <1>4, <1>5, <1>6

\* The cache is let be.
TimePasses == now' \in Nat /\ now <= now' /\ UNCHANGED masterVars

LEMMA AgentStepIsCacheStep ==
    ASSUME TypeOK, [AgentNext]_agentVars
    PROVE  Cache!Next \/ AgentRestart \/ TimePasses
<1>1. now \in Nat /\ CsDrift \in Nat
  BY NumbersAssumption DEF TypeOK
<1>2. ASSUME NEW w \in Workers, GetMaster(w) PROVE Cache!Next
  BY <1>2, SameCache DEF GetMaster, Cache!Next
<1>3. ASSUME NEW w \in Workers, MasterGot(w) PROVE Cache!Next \/ TimePasses
  <2>1. now' = now
    BY <1>3 DEF MasterGot, MasterReturns, clocks
  <2>2. Master!Return(w) \/ UNCHANGED masterVars
    BY <1>3 DEF MasterGot
  <2>. QED
    BY <1>1, <2>1, <2>2, SameCache DEF TimePasses, Cache!Next
<1>4. ASSUME NEW w \in Workers, RequestStep(w) PROVE Cache!Next \/ TimePasses
  <2>1. now' \in Nat /\ now <= now'
    BY <1>1, <1>4 DEF RequestStep, Step, ValidateApproval, ReadInstant, AddDek, PublishGrant,
       Snapshot, OpenEnvelopes, RecordActivity, Later, clocks
  <2>2. Master!Return(w) \/ UNCHANGED masterVars
    BY <1>4 DEF RequestStep
  <2>. QED
    BY <2>1, <2>2, SameCache DEF TimePasses, Cache!Next
<1>5. ASSUME NEW w \in Workers, UNCHANGED masterVars,
             \/ \E r \in GrantRequests : GrantBegin(w, r)
             \/ \E r \in UseRequests : UseBegin(w, r)
             \/ \E s \in Scopes : Release(w, s)
             \/ FinishIO(w)
      PROVE  TimePasses
  <2>1. ASSUME NEW s \in Scopes, Release(w, s) PROVE now' \in Nat /\ now <= now'
    BY <1>1, <2>1 DEF Release, Later
  <2>2. ASSUME NEW r, GrantBegin(w, r) \/ UseBegin(w, r) \/ FinishIO(w) PROVE now' = now
    BY <2>2 DEF GrantBegin, UseBegin, FinishIO, clocks
  <2>3. now' \in Nat /\ now <= now'
    BY <1>1, <1>5, <2>1, <2>2
  <2>. QED
    BY <1>5, <2>3 DEF TimePasses
<1>6. ASSUME UNCHANGED masterVars, Maintain \/ Tick \/ StepWall PROVE TimePasses
  BY <1>1, <1>6 DEF Maintain, Tick, StepWall, clocks, TimePasses
<1>7. ASSUME Master!PurgeMaster \/ Master!ReplaceStored PROVE Cache!Next
  BY <1>7, SameCache DEF Cache!Next
<1>8. ASSUME UNCHANGED agentVars PROVE TimePasses
  BY <1>1, <1>8 DEF agentVars, vars, clocks, TimePasses
<1>. QED
  BY <1>2, <1>3, <1>4, <1>5, <1>6, <1>7, <1>8 DEF AgentNext

LEMMA CacheInAgent ==
    ASSUME TypeOK, Cache!CacheInv, [AgentNext]_agentVars
    PROVE  Cache!CacheInv'
<1>1. CASE Cache!Next
  BY <1>1, CacheAssumptions, Cache!CacheStepInv DEF Cache!CacheStepInv
<1>2. CASE AgentRestart
  BY <1>2, CacheAssumptions
  DEF AgentRestart, Restart, clocks, NoRequests, Cache!KeysAssumption, Cache!CacheInv,
      Cache!LoadsAreShared, Cache!MasterTypeOK, Cache!LastUsedInv
<1>3. CASE TimePasses
  <2>1. Cache!LoadsAreShared /\ Cache!MasterTypeOK /\ Cache!LastUsedInv
    BY DEF Cache!CacheInv, Cache!LoadsAreShared
  <2>2. Cache!MasterTypeOK'
    BY <1>3, <2>1 DEF TimePasses, masterVars, Cache!MasterTypeOK, Cache!Cached
  <2>3. Cache!LastUsedInv'
    <3>1. cached # None => cached.last_used \in Nat
      BY <2>1 DEF Cache!MasterTypeOK, Cache!Cached
    <3>2. now \in Nat
      BY DEF TypeOK
    <3>. QED
      BY <1>3, <2>1, <3>1, <3>2 DEF TimePasses, masterVars, Cache!LastUsedInv
  <2>. QED
    BY <1>3, <2>1, <2>2, <2>3 DEF TimePasses, masterVars, Cache!CacheInv, Cache!LoadsAreShared
<1>. QED
  BY <1>1, <1>2, <1>3, AgentStepIsCacheStep

LEMMA CacheInAgentHolds == AgentSpec => []Cache!CacheInv
<1>1. AgentInit => Cache!CacheInv
  BY CacheAssumptions
  DEF AgentInit, Init, Master!MasterInit, Cache!KeysAssumption, Cache!CacheInv,
      Cache!LoadsAreShared, Cache!MasterTypeOK, Cache!LastUsedInv
<1>2. TypeOK /\ Cache!CacheInv /\ [AgentNext]_agentVars => Cache!CacheInv'
  BY CacheInAgent
<1>. QED
  BY <1>1, <1>2, TypeCorrect, AgentImplementsGrants, PTL DEF AgentSpec

\* Concurrent requests of the agent share one store access, also when their grants
\* lapse, their approvals are withdrawn or the process is restarted meanwhile
\* (AgentMasterCache.get under open_with_grant).
THEOREM AgentSharesLoads == AgentSpec => []Master!LoadsAreShared
<1>1. Cache!CacheInv => Master!LoadsAreShared
  BY DEF Cache!CacheInv, Cache!LoadsAreShared, Cache!MasterTypeOK, Cache!Cached,
         Master!LoadsAreShared, Master!MasterTypeOK, Master!Cached
<1>. QED
  BY <1>1, CacheInAgentHolds, PTL

\* No request of the agent revives a master that has been idle for the timeout, nor
\* exchanges one that is in use (use_cached, expire).
THEOREM AgentMasterStaysDead == AgentSpec => Master!IdleMasterIsNotRevived
<1>1. Cache!CacheInv /\ TypeOK /\ [AgentNext]_agentVars => [Cache!CopyStep]_(Master!mvars)
  <2>1. SUFFICES ASSUME Cache!CacheInv, TypeOK, [AgentNext]_agentVars PROVE Cache!CopyStep
    OBVIOUS
  <2>2. CASE Cache!Next
    BY <2>1, <2>2, CacheAssumptions, Cache!CopyStepInv DEF Cache!CopyStepInv
  <2>3. CASE AgentRestart
    BY <2>3 DEF AgentRestart, Cache!CopyStep
  <2>4. CASE TimePasses
    <3>1. cached' = cached
      BY <2>4 DEF TimePasses, masterVars
    <3>2. cached # None => cached.last_used \in Nat
      BY <2>1 DEF Cache!CacheInv, Cache!LoadsAreShared, Cache!MasterTypeOK, Cache!Cached
    <3>. QED
      BY <3>1, <3>2 DEF Cache!CopyStep
  <2>. QED
    BY <2>1, <2>2, <2>3, <2>4, AgentStepIsCacheStep
<1>2. AgentSpec => [][Cache!CopyStep]_(Master!mvars)
  BY <1>1, CacheInAgentHolds, TypeCorrect, AgentImplementsGrants, PTL DEF AgentSpec
<1>. QED
  BY <1>2 DEF Master!IdleMasterIsNotRevived, Cache!CopyStep

-----------------------------------------------------------------------------
(* The listener: every connection accepted and every permit counted *)

\* accept()'s queue holds each waiting connection once.
BacklogInv ==
    /\ \A i \in 1..Len(backlog) : conn[backlog[i]] = "backlog"
    /\ \A i, j \in 1..Len(backlog) : backlog[i] = backlog[j] => i = j

\* Between accept() and the end of the dispatch the listener has a connection.
ListenerInv == lpc # "accept" => lconn \in Conns

\* The counter, and that it counts a finite set.
CounterInv ==
    /\ IsFiniteSet(Admitted)
    /\ active = Cardinality(Admitted)
    /\ active <= Limit

ServerInv == ServerTypeOK /\ BacklogInv /\ ListenerInv /\ CounterInv

-----------------------------------------------------------------------------
(* Lemmas on the set of permits *)

\* The places of a connection whose worker owns a permit.
PermitPlaces == {"admitted", "starting", "reading", "handling", "writing",
                 "goodbye", "ending"}

\* A step that moves one connection within, into or out of those places.
LEMMA AdmittedMoves ==
    ASSUME NEW c \in Conns, NEW label, ServerTypeOK, Goto(c, label)
    PROVE  Admitted' = IF label \in PermitPlaces THEN Admitted \cup {c}
                                                 ELSE Admitted \ {c}
<1>1. ASSUME NEW d \in Conns
      PROVE  conn'[d] = IF d = c THEN label ELSE conn[d]
  BY DEF Goto, ServerTypeOK
<1>. QED
  BY <1>1 DEF Admitted, PermitPlaces

\* A connection that keeps its permit, or stays without one, leaves the counter
\* exact.
LEMMA CounterKept ==
    ASSUME NEW c \in Conns, NEW label, ServerTypeOK, CounterInv, Goto(c, label),
           UNCHANGED active,
           c \in Admitted <=> label \in PermitPlaces
    PROVE  CounterInv'
<1>1. Admitted' = Admitted
  BY AdmittedMoves
<1>. QED
  BY <1>1 DEF CounterInv

\* A permit given back is counted down once.
LEMMA CounterDown ==
    ASSUME NEW c \in Conns, NEW label, ServerTypeOK, CounterInv, Goto(c, label),
           c \in Admitted, label \notin PermitPlaces,
           active' = active - 1
    PROVE  /\ CounterInv'
           /\ active' \in Nat
<1>1. Admitted' = Admitted \ {c}
  BY AdmittedMoves
<1>2. /\ IsFiniteSet(Admitted \ {c})
      /\ Cardinality(Admitted \ {c}) = Cardinality(Admitted) - 1
  BY FS_RemoveElement DEF CounterInv
<1>3. Cardinality(Admitted \ {c}) \in Nat
  BY <1>2, FS_CardinalityType
<1>. QED
  BY <1>1, <1>2, <1>3, ServerAssumption DEF CounterInv, ServerTypeOK

\* A permit taken below the limit is counted up once.
LEMMA CounterUp ==
    ASSUME NEW c \in Conns, NEW label, ServerTypeOK, CounterInv, Goto(c, label),
           c \notin Admitted, label \in PermitPlaces,
           active < Limit, active' = active + 1
    PROVE  CounterInv'
<1>1. Admitted' = Admitted \cup {c}
  BY AdmittedMoves
<1>2. /\ IsFiniteSet(Admitted \cup {c})
      /\ Cardinality(Admitted \cup {c}) = Cardinality(Admitted) + 1
  BY FS_AddElement DEF CounterInv
<1>. QED
  BY <1>1, <1>2, ServerAssumption DEF CounterInv, ServerTypeOK

-----------------------------------------------------------------------------
(* The steps *)

LEMMA ServerInitially == ServerInit => ServerInv
<1>. SUFFICES ASSUME ServerInit PROVE ServerInv
  OBVIOUS
<1>1. ServerTypeOK /\ BacklogInv /\ ListenerInv
  BY ServerAssumption DEF ServerInit, ServerTypeOK, BacklogInv, ListenerInv, Inputs
<1>2. Admitted = {}
  BY DEF ServerInit, Admitted
<1>. QED
  BY <1>1, <1>2, FS_EmptySet, ServerAssumption DEF ServerInit, ServerInv, CounterInv

\* A step of a worker, a client or a handler on connection c leaves the queue
\* and the listener alone.
LEMMA WorkerMoves ==
    ASSUME ServerInv, NEW c \in Conns, NEW label,
           conn[c] \in {"starting", "reading", "handling", "writing", "goodbye",
                        "ending"},
           label \in {"starting", "reading", "handling", "writing", "goodbye",
                      "ending", "closed"},
           Goto(c, label),
           UNCHANGED <<backlog, listener>>,
           inbox' \in [Conns -> Inputs \union {"nothing"}],
           polls' \in [Conns -> 0..MaxPolls],
           active' \in Nat
    PROVE  ServerTypeOK' /\ BacklogInv' /\ ListenerInv'
<1>1. /\ conn' \in [Conns -> {"backlog", "accepted", "admitted", "starting",
                              "reading", "handling", "writing", "goodbye",
                              "ending", "closed"}]
      /\ \A d \in Conns : conn'[d] = IF d = c THEN label ELSE conn[d]
  BY DEF Goto, ServerInv, ServerTypeOK
<1>2. ServerTypeOK'
  BY <1>1 DEF ServerInv, ServerTypeOK, listener
<1>3. BacklogInv'
  <2>1. ASSUME NEW i \in 1..Len(backlog)
        PROVE  backlog[i] \in Conns /\ backlog[i] # c
    BY DEF ServerInv, ServerTypeOK, BacklogInv
  <2>. QED
    BY <1>1, <2>1 DEF ServerInv, BacklogInv
<1>4. ListenerInv'
  BY DEF ServerInv, ListenerInv, listener
<1>. QED
  BY <1>2, <1>3, <1>4

LEMMA ConnectInv ==
    ASSUME ServerInv, NEW c \in Conns, Connect(c)
    PROVE  ServerInv'
<1>0. ServerTypeOK /\ BacklogInv /\ ListenerInv /\ CounterInv
  BY DEF ServerInv
<1>1. /\ conn' \in [Conns -> {"backlog", "accepted", "admitted", "starting",
                              "reading", "handling", "writing", "goodbye",
                              "ending", "closed"}]
      /\ \A d \in Conns : conn'[d] = IF d = c THEN "backlog" ELSE conn[d]
  BY <1>0 DEF Connect, Goto, ServerTypeOK
<1>2. /\ backlog' \in Seq(Conns)
      /\ Len(backlog') = Len(backlog) + 1
      /\ \A i \in 1..Len(backlog) : backlog'[i] = backlog[i]
      /\ backlog'[Len(backlog) + 1] = c
      /\ Len(backlog) \in Nat
  BY <1>0 DEF Connect, ServerTypeOK
<1>3. ServerTypeOK'
  BY <1>0, <1>1, <1>2 DEF Connect, ServerTypeOK, listener
<1>4. BacklogInv'
  <2>1. ASSUME NEW i \in 1..Len(backlog)
        PROVE  backlog[i] \in Conns /\ backlog[i] # c /\ conn[backlog[i]] = "backlog"
    BY <1>0 DEF ServerTypeOK, BacklogInv, Connect
  <2>2. \A i \in 1..Len(backlog') : i \in 1..Len(backlog) \/ i = Len(backlog) + 1
    BY <1>2
  <2>3. \A i \in 1..Len(backlog') : conn'[backlog'[i]] = "backlog"
    BY <1>1, <1>2, <2>1, <2>2
  <2>4. \A i, j \in 1..Len(backlog') : backlog'[i] = backlog'[j] => i = j
    BY <1>0, <1>2, <2>1, <2>2 DEF BacklogInv
  <2>. QED
    BY <2>3, <2>4 DEF BacklogInv
<1>5. ListenerInv'
  BY <1>0 DEF Connect, ListenerInv, listener
<1>6. CounterInv'
  <2>1. c \notin Admitted /\ "backlog" \notin PermitPlaces
    BY DEF Connect, Admitted, PermitPlaces
  <2>. QED
    BY <1>0, <2>1, CounterKept DEF Connect
<1>. QED
  BY <1>3, <1>4, <1>5, <1>6 DEF ServerInv

LEMMA SendInv ==
    ASSUME ServerInv, NEW c \in Conns, NEW what \in Inputs, Send(c, what)
    PROVE  ServerInv'
<1>1. ServerTypeOK'
  BY DEF ServerInv, Send, ServerTypeOK, listener
<1>2. Admitted' = Admitted
  BY DEF Send, Admitted
<1>. QED
  BY <1>1, <1>2 DEF ServerInv, Send, BacklogInv, ListenerInv, CounterInv, listener

LEMMA AcceptInv ==
    ASSUME ServerInv, Accept
    PROVE  ServerInv'
<1>0. ServerTypeOK /\ BacklogInv /\ ListenerInv /\ CounterInv
  BY DEF ServerInv
<1>. DEFINE h == Head(backlog)
<1>1. /\ h \in Conns
      /\ h = backlog[1]
      /\ Len(backlog) \in Nat \ {0}
      /\ backlog' \in Seq(Conns)
      /\ Len(backlog') = Len(backlog) - 1
      /\ \A i \in 1..Len(backlog') : backlog'[i] = backlog[i + 1]
  BY <1>0 DEF Accept, ServerTypeOK
<1>2. conn[h] = "backlog"
  BY <1>0, <1>1 DEF BacklogInv
<1>3. /\ conn' \in [Conns -> {"backlog", "accepted", "admitted", "starting",
                              "reading", "handling", "writing", "goodbye",
                              "ending", "closed"}]
      /\ \A d \in Conns : conn'[d] = IF d = h THEN "accepted" ELSE conn[d]
  BY <1>0, <1>1 DEF Accept, Goto, ServerTypeOK
<1>. HIDE DEF h
<1>4. ServerTypeOK'
  <2>1. lpc = "accept" /\ lpc' = "admit" /\ lconn' = h
    BY DEF Accept, h
  <2>2. \A d \in Conns : conn[d] # "accepted" /\ conn[d] # "admitted"
    BY <1>0, <2>1 DEF ServerTypeOK
  <2>3. \A d \in Conns :
           /\ conn'[d] = "accepted" <=> (lpc' = "admit" /\ lconn' = d)
           /\ conn'[d] = "admitted" <=> (lpc' = "spawn" /\ lconn' = d)
    BY <1>3, <2>1, <2>2
  <2>. QED
    BY <1>0, <1>1, <1>3, <2>1, <2>3 DEF Accept, ServerTypeOK
<1>5. BacklogInv'
  <2>1. ASSUME NEW i \in 1..Len(backlog')
        PROVE  /\ i + 1 \in 1..Len(backlog)
               /\ backlog'[i] \in Conns
               /\ backlog'[i] # h
               /\ conn[backlog'[i]] = "backlog"
    <3>1. i + 1 \in 1..Len(backlog) /\ i + 1 # 1 /\ 1 \in 1..Len(backlog)
      BY <1>1
    <3>2. backlog[i + 1] # backlog[1] /\ conn[backlog[i + 1]] = "backlog"
      BY <1>0, <3>1 DEF BacklogInv
    <3>. QED
      BY <1>1, <3>1, <3>2
  <2>2. \A i \in 1..Len(backlog') : conn'[backlog'[i]] = "backlog"
    BY <1>3, <2>1
  <2>3. ASSUME NEW i \in 1..Len(backlog'), NEW j \in 1..Len(backlog'),
               backlog'[i] = backlog'[j]
        PROVE  i = j
    <3>1. backlog[i + 1] = backlog[j + 1]
      BY <1>1, <2>3
    <3>2. i + 1 = j + 1
      BY <1>0, <2>1, <3>1 DEF BacklogInv
    <3>. QED
      BY <3>2
  <2>. QED
    BY <2>2, <2>3 DEF BacklogInv
<1>6. ListenerInv'
  BY <1>1 DEF Accept, ListenerInv, h
<1>7. CounterInv'
  <2>1. h \notin Admitted /\ "accepted" \notin PermitPlaces
    BY <1>2 DEF Admitted, PermitPlaces
  <2>2. Goto(h, "accepted") /\ UNCHANGED active
    BY DEF Accept, h
  <2>. QED
    BY <1>0, <1>1, <2>1, <2>2, CounterKept
<1>. QED
  BY <1>4, <1>5, <1>6, <1>7 DEF ServerInv

\* What every step of the listener on the connection in its hands leaves alone:
\* the queue.
LEMMA ListenerKeepsBacklog ==
    ASSUME ServerInv, lpc # "accept", NEW label, Goto(lconn, label),
           UNCHANGED backlog
    PROVE  /\ BacklogInv'
           /\ \A d \in Conns : conn'[d] = IF d = lconn THEN label ELSE conn[d]
<1>1. conn[lconn] # "backlog"
  BY DEF ServerInv, ListenerInv, ServerTypeOK
<1>2. \A d \in Conns : conn'[d] = IF d = lconn THEN label ELSE conn[d]
  BY DEF ServerInv, ServerTypeOK, Goto
<1>3. ASSUME NEW i \in 1..Len(backlog)
      PROVE  backlog[i] \in Conns /\ backlog[i] # lconn
  BY <1>1 DEF ServerInv, ServerTypeOK, BacklogInv
<1>4. BacklogInv'
  BY <1>2, <1>3 DEF ServerInv, BacklogInv
<1>. QED
  BY <1>2, <1>4

LEMMA TryAdmitInv ==
    ASSUME ServerInv, TryAdmit
    PROVE  ServerInv'
<1>0. ServerTypeOK /\ BacklogInv /\ ListenerInv /\ CounterInv
  BY DEF ServerInv
<1>1. lconn \in Conns /\ conn[lconn] = "accepted" /\ lpc = "admit"
  BY <1>0 DEF TryAdmit, ListenerInv, ServerTypeOK
<1>2. CASE seen' = active /\ UNCHANGED <<active, conn, lpc>>
  <2>1. ServerTypeOK' /\ BacklogInv' /\ ListenerInv'
    BY <1>0, <1>2 DEF TryAdmit, ServerTypeOK, BacklogInv, ListenerInv
  <2>2. Admitted' = Admitted
    BY <1>2 DEF Admitted
  <2>. QED
    BY <1>0, <1>2, <2>1, <2>2 DEF ServerInv, CounterInv
<1>3. CASE /\ active = seen
           /\ active' = seen + 1
           /\ Goto(lconn, "admitted")
           /\ lpc' = "spawn"
           /\ UNCHANGED seen
  <2>1. BacklogInv' /\ \A d \in Conns :
            conn'[d] = IF d = lconn THEN "admitted" ELSE conn[d]
    BY <1>1, <1>3, ListenerKeepsBacklog DEF TryAdmit
  <2>2. ServerTypeOK'
    <3>1. conn' \in [Conns -> {"backlog", "accepted", "admitted", "starting",
                               "reading", "handling", "writing", "goodbye",
                               "ending", "closed"}]
      BY <1>0, <1>3 DEF Goto, ServerTypeOK
    <3>. QED
      BY <1>0, <1>1, <1>3, <2>1, <3>1 DEF TryAdmit, ServerTypeOK
  <2>3. ListenerInv'
    BY <1>1 DEF TryAdmit, ListenerInv
  <2>4. CounterInv'
    <3>1. lconn \notin Admitted /\ "admitted" \in PermitPlaces
      BY <1>1 DEF Admitted, PermitPlaces
    <3>2. active < Limit /\ active' = active + 1
      BY <1>3 DEF TryAdmit
    <3>. QED
      BY <1>0, <1>1, <1>3, <3>1, <3>2, CounterUp
  <2>. QED
    BY <2>1, <2>2, <2>3, <2>4 DEF ServerInv
<1>. QED
  BY <1>2, <1>3 DEF TryAdmit

\* The listener lets go of a connection that is then at place `label`.
LEMMA ListenerLetsGo ==
    ASSUME ServerInv, lpc # "accept",
           NEW label \in {"starting", "closed"}, Goto(lconn, label),
           ListenerLoops, active' \in Nat,
           UNCHANGED <<backlog, inbox, polls>>
    PROVE  ServerTypeOK' /\ BacklogInv' /\ ListenerInv'
<1>1. BacklogInv' /\ \A d \in Conns :
          conn'[d] = IF d = lconn THEN label ELSE conn[d]
  BY ListenerKeepsBacklog
<1>2. conn' \in [Conns -> {"backlog", "accepted", "admitted", "starting",
                           "reading", "handling", "writing", "goodbye",
                           "ending", "closed"}]
  BY DEF ServerInv, ServerTypeOK, Goto
<1>3. \A d \in Conns : d # lconn => conn[d] # "accepted" /\ conn[d] # "admitted"
  BY DEF ServerInv, ServerTypeOK
<1>4. ServerTypeOK'
  BY <1>1, <1>2, <1>3 DEF ServerInv, ServerTypeOK, ListenerLoops
<1>. QED
  BY <1>1, <1>4 DEF ListenerInv, ListenerLoops

LEMMA RefuseBusyInv ==
    ASSUME ServerInv, RefuseBusy
    PROVE  ServerInv'
<1>0. ServerTypeOK /\ CounterInv /\ lconn \in Conns /\ conn[lconn] = "accepted"
  BY DEF ServerInv, ServerTypeOK, ListenerInv, RefuseBusy
<1>1. ServerTypeOK' /\ BacklogInv' /\ ListenerInv'
  BY <1>0, ListenerLetsGo DEF RefuseBusy, ServerTypeOK
<1>2. lconn \notin Admitted /\ "closed" \notin PermitPlaces
  BY <1>0 DEF Admitted, PermitPlaces
<1>3. CounterInv'
  BY <1>0, <1>2, CounterKept DEF RefuseBusy
<1>. QED
  BY <1>1, <1>3 DEF ServerInv

LEMMA SpawnWorkerInv ==
    ASSUME ServerInv, SpawnWorker
    PROVE  ServerInv'
<1>0. ServerTypeOK /\ CounterInv /\ lconn \in Conns /\ conn[lconn] = "admitted"
  BY DEF ServerInv, ServerTypeOK, ListenerInv, SpawnWorker
<1>1. lconn \in Admitted
  BY <1>0 DEF Admitted
<1>2. "starting" \in PermitPlaces /\ "closed" \notin PermitPlaces
  BY DEF PermitPlaces
<1>3. CASE Goto(lconn, "starting") /\ UNCHANGED active
  <2>1. CounterInv'
    BY <1>0, <1>1, <1>2, <1>3, CounterKept
  <2>2. ServerTypeOK' /\ BacklogInv' /\ ListenerInv'
    BY <1>0, <1>3, ListenerLetsGo DEF SpawnWorker, ServerTypeOK
  <2>. QED
    BY <2>1, <2>2 DEF ServerInv
<1>4. CASE Goto(lconn, "closed") /\ active' = active - 1
  <2>1. CounterInv' /\ active' \in Nat
    BY <1>0, <1>1, <1>2, <1>4, CounterDown
  <2>2. ServerTypeOK' /\ BacklogInv' /\ ListenerInv'
    BY <1>0, <1>4, <2>1, ListenerLetsGo DEF SpawnWorker
  <2>. QED
    BY <2>1, <2>2 DEF ServerInv
<1>. QED
  BY <1>3, <1>4 DEF SpawnWorker

\* A worker's step that keeps the permit.
LEMMA WorkerKeepsPermit ==
    ASSUME ServerInv, NEW c \in Conns, NEW label,
           conn[c] \in {"starting", "reading", "handling", "writing", "goodbye"},
           label \in {"reading", "handling", "writing", "goodbye", "ending"},
           Goto(c, label),
           UNCHANGED <<backlog, active, listener>>,
           inbox' \in [Conns -> Inputs \union {"nothing"}],
           polls' \in [Conns -> 0..MaxPolls]
    PROVE  ServerInv'
<1>1. ServerTypeOK /\ CounterInv /\ active' \in Nat
  BY DEF ServerInv, ServerTypeOK
<1>2. ServerTypeOK' /\ BacklogInv' /\ ListenerInv'
  BY <1>1, WorkerMoves
<1>3. c \in Admitted /\ label \in PermitPlaces
  BY DEF Admitted, PermitPlaces
<1>4. CounterInv'
  BY <1>1, <1>3, CounterKept
<1>. QED
  BY <1>2, <1>4 DEF ServerInv

\* A fruitless poll of a read or write.
LEMMA PollInv ==
    ASSUME ServerInv, polls' \in [Conns -> 0..MaxPolls],
           UNCHANGED <<backlog, conn, inbox, active, listener>>
    PROVE  ServerInv'
<1>1. Admitted' = Admitted
  BY DEF Admitted
<1>. QED
  BY <1>1 DEF ServerInv, ServerTypeOK, BacklogInv, ListenerInv, CounterInv, listener

LEMMA WorkerStepInv ==
    ASSUME ServerInv, NEW c \in Conns, WorkerStep(c)
    PROVE  ServerInv'
<1>0. /\ inbox \in [Conns -> Inputs \union {"nothing"}]
      /\ polls \in [Conns -> 0..MaxPolls]
      /\ MaxPolls \in Nat
  BY ServerAssumption DEF ServerInv, ServerTypeOK
<1>1. [polls EXCEPT ![c] = 0] \in [Conns -> 0..MaxPolls]
  BY <1>0
<1>2. polls[c] < MaxPolls => [polls EXCEPT ![c] = @ + 1] \in [Conns -> 0..MaxPolls]
  BY <1>0
<1>3. [inbox EXCEPT ![c] = "nothing"] \in [Conns -> Inputs \union {"nothing"}]
  BY <1>0
<1>4. CASE Authorize(c)
  BY <1>0, <1>4, WorkerKeepsPermit DEF Authorize
<1>5. CASE ReadFrame(c)
  BY <1>0, <1>1, <1>2, <1>3, <1>5, WorkerKeepsPermit, PollInv DEF ReadFrame
<1>6. CASE WriteFrame(c)
  BY <1>0, <1>1, <1>2, <1>6, WorkerKeepsPermit, PollInv DEF WriteFrame
<1>7. CASE DropPermit(c)
  <2>1. c \in Admitted /\ "closed" \notin PermitPlaces
    BY <1>7 DEF DropPermit, Admitted, PermitPlaces
  <2>2. CounterInv' /\ active' \in Nat
    BY <1>7, <2>1, CounterDown DEF DropPermit, ServerInv
  <2>3. ServerTypeOK' /\ BacklogInv' /\ ListenerInv'
    BY <1>0, <1>7, <2>2, WorkerMoves DEF DropPermit
  <2>. QED
    BY <2>2, <2>3 DEF ServerInv
<1>. QED
  BY <1>4, <1>5, <1>6, <1>7 DEF WorkerStep

LEMMA HandleInv ==
    ASSUME ServerInv, NEW c \in Conns, Handle(c)
    PROVE  ServerInv'
<1>0. /\ inbox \in [Conns -> Inputs \union {"nothing"}]
      /\ polls \in [Conns -> 0..MaxPolls]
  BY DEF ServerInv, ServerTypeOK
<1>. QED
  BY <1>0, WorkerKeepsPermit DEF Handle

LEMMA ServerStepInv == ServerInv /\ [ServerNext]_svars => ServerInv'
<1>. SUFFICES ASSUME ServerInv, [ServerNext]_svars PROVE ServerInv'
  OBVIOUS
<1>1. CASE UNCHANGED svars
  BY <1>1, PollInv DEF svars, worker, ServerInv, ServerTypeOK
<1>2. CASE ListenerStep
  BY <1>2, AcceptInv, TryAdmitInv, RefuseBusyInv, SpawnWorkerInv DEF ListenerStep
<1>3. ASSUME NEW c \in Conns, Connect(c)
      PROVE  ServerInv'
  BY <1>3, ConnectInv
<1>4. ASSUME NEW c \in Conns, NEW what \in Inputs, Send(c, what)
      PROVE  ServerInv'
  BY <1>4, SendInv
<1>5. ASSUME NEW c \in Conns, WorkerStep(c) \/ Handle(c)
      PROVE  ServerInv'
  BY <1>5, WorkerStepInv, HandleInv
<1>. QED
  BY <1>1, <1>2, <1>3, <1>4, <1>5 DEF ServerNext

-----------------------------------------------------------------------------
(* Theorems *)

\* The counter of AgentAdmission equals, at every moment, the number of
\* connections that hold a permit, and never exceeds MAX_AGENT_CONNECTIONS:
\* try_admit's compare-exchange, the failed spawn, the refusals and the workers'
\* decrements neither leak nor double-free a permit, however many clients
\* connect and whatever they send.
THEOREM PermitsExact == ServerSpec => []PermitsAreExact
<1>1. ServerInv => PermitsAreExact
  BY DEF ServerInv, CounterInv, PermitsAreExact
<1>. QED
  BY <1>1, ServerInitially, ServerStepInv, PTL DEF ServerSpec
=============================================================================
