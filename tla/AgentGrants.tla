----------------------------- MODULE AgentGrants -----------------------------
(***************************************************************************)
(* The resident agent's grant state (AgentState, AgentShared) and the      *)
(* connection workers that act on it: `grant`, `release`/`revoke`,         *)
(* `deliver.*` and `sign` requests, the listener's periodic maintenance,   *)
(* and the process being restarted.                                        *)
(*                                                                         *)
(* Shared state is only touched under the `state` mutex, so a critical     *)
(* section is one action.  The clock is not under the mutex: a section     *)
(* that reads `Instant::now()` twice reads it once as `now` and once as    *)
(* now'.  Outside the mutex every clock reading is a step of its own.      *)
(***************************************************************************)
EXTENDS Integers, Sequences

CONSTANTS
    Workers,        \* connection worker threads
    Scopes,         \* GrantKey: the non-empty grant ids
    DekKeys,        \* AgentDekKey: purpose, name, scheme and digest as one value
    Nonces,         \* approval nonces
    Boxes,          \* the DEK blind boxes in circulation, see Box
    GrantRequests,  \* `grant` frames clients may send
    UseRequests,    \* `deliver.*` and `sign` frames clients may send
    IdleTimeout,    \* --idle-timeout-secs
    MaxTtl,         \* MAX_AGENT_GRANT_TTL_SECS
    WallSteps,      \* amounts by which the wall clock may be stepped
    None,           \* an absent map entry
    MaxNow,         \* bound: the last instant of a behaviour
    CsDrift,        \* bound: time that may pass inside one critical section
    MaxOffset,      \* bound: accumulated wall-clock steps
    MaxKeypair      \* bound: agent processes started

(***************************************************************************)
(* A blind box opens only for the context it was sealed to: the agent      *)
(* keypair (fresh in every process), grant id, DEK key, approved ttl,      *)
(* approval nonce and approval expiry.                                     *)
(***************************************************************************)
Box == [agent: Nat, scope: Scopes, key: DekKeys, ttl: Nat,
        nonce: Nonces, expires: Nat]

DekInput == [key: DekKeys, wellformed: BOOLEAN, nonce: Nonces,
             expires: Nat, box: Boxes]

GrantRequest == [scope: Scopes, ttl: Nat, deks: Seq(DekInput)]

UseRequest == [scope: Scopes, keys: SUBSET DekKeys, master: BOOLEAN]

\* GrantEntry: the DEK of a box is the box it was opened from.
Entry == [expires_at: Int, deks: [DekKeys -> Boxes \union {None}]]

ASSUME BoxesAssumption == Boxes \subseteq Box
ASSUME RequestsAssumption == /\ GrantRequests \subseteq GrantRequest
                             /\ UseRequests \subseteq UseRequest
ASSUME NumbersAssumption == /\ IdleTimeout \in Nat \ {0}
                            /\ MaxTtl \in Nat
                            /\ MaxNow \in Nat
                            /\ CsDrift \in Nat
                            /\ MaxOffset \in Nat
                            /\ MaxKeypair \in Nat
                            /\ WallSteps \subseteq Int
ASSUME NoneAssumption == /\ None \notin Int
                         /\ None \notin Boxes
                         /\ None \notin Entry

VARIABLES
    now,               \* the monotonic clock, Instant::now()
    offset,            \* the wall clock, SystemTime::now(), shows now + offset
    keypair,           \* which agent process is running (its BlindBoxKeypair)
    grants,            \* AgentState.grants
    used_grant_nonces, \* AgentState.used_grant_nonces: nonce to Instant
    last_activity,     \* AgentState.last_activity
    pc,                \* where each worker is in its frame's handler
    req,               \* the frame it handles
    acc,               \* the locals of a `grant` handler
    snap,              \* the GrantEntry cloned by open_with_grant
    consumed           \* history: how often, and remembered until when, each
                       \* box's approval has been published

clocks == <<now, offset>>
state == <<grants, used_grant_nonces, last_activity>>
locals == <<pc, req, acc, snap>>
vars == <<clocks, keypair, state, locals, consumed>>

NoDeks == [k \in DekKeys |-> None]
NoNonces == [n \in Nonces |-> None]
NoAcc == [done |-> 0, instant |-> 0, expires_at |-> 0,
          deks |-> NoDeks, nonces |-> NoNonces]

Wall == now + offset

\* The boxes whose DEKs a map of DEKs holds.
Held(deks) == {deks[k] : k \in DekKeys} \ {None}

HeldIn(entry) == IF entry = None THEN {} ELSE Held(entry.deks)

-----------------------------------------------------------------------------
(* AgentState *)

Lapsed(entry, activity, t) ==
    \/ t - activity >= IdleTimeout
    \/ entry.expires_at <= t

\* purge: what it leaves of the grants and of the nonces at instant t.
PurgedGrants(g, activity, t) ==
    [s \in Scopes |-> IF g[s] # None /\ ~Lapsed(g[s], activity, t)
                      THEN g[s] ELSE None]

PurgedNonces(u, t) ==
    [n \in Nonces |-> IF u[n] # None /\ u[n] > t THEN u[n] ELSE None]

\* get_live_grant succeeds.
LiveGrant(s) == grants[s] # None /\ ~Lapsed(grants[s], last_activity, now)

\* The second clock reading of a critical section.
Later == {t \in now..(now + CsDrift) : t <= MaxNow}

-----------------------------------------------------------------------------
(* `grant`: checks and blind-box opening run outside the state lock *)

GrantBegin(w, r) ==
    /\ pc[w] = "idle"
    /\ r.deks # <<>>
    /\ r.ttl \in 1..MaxTtl
    /\ pc' = [pc EXCEPT ![w] = "validate"]
    /\ req' = [req EXCEPT ![w] = r]
    /\ acc' = [acc EXCEPT ![w] = [NoAcc EXCEPT !.expires_at = now + r.ttl]]
    /\ UNCHANGED <<clocks, keypair, state, snap, consumed>>

CurrentDek(w) == req[w].deks[acc[w].done + 1]

\* Any bail! in a handler: the worker answers with an error and reads on.
Abort(w) ==
    /\ pc' = [pc EXCEPT ![w] = "idle"]
    /\ req' = [req EXCEPT ![w] = None]
    /\ acc' = [acc EXCEPT ![w] = NoAcc]
    /\ snap' = [snap EXCEPT ![w] = None]

\* parse_approval_context and validate_approval_not_expired
ApprovalAccepted(w) ==
    CurrentDek(w).wellformed /\ CurrentDek(w).expires > Wall

ValidateApproval(w) ==
    /\ pc[w] = "validate"
    /\ \/ /\ ApprovalAccepted(w)
          /\ pc' = [pc EXCEPT ![w] = "instant"]
          /\ UNCHANGED <<req, acc, snap>>
       \/ /\ ~ApprovalAccepted(w)
          /\ Abort(w)
    /\ UNCHANGED <<clocks, keypair, state, consumed>>

\* approval_expiry_instant, first reading
ReadInstant(w) ==
    /\ pc[w] = "instant"
    /\ pc' = [pc EXCEPT ![w] = "wall"]
    /\ acc' = [acc EXCEPT ![w].instant = now]
    /\ UNCHANGED <<clocks, keypair, state, req, snap, consumed>>

\* approval_expiry_instant, second reading: the approval's deadline on the
\* monotonic clock.
ApprovalExpiry(w) == acc[w].instant + (CurrentDek(w).expires - Wall)

\* The context a presented DEK's box must have been sealed to.
BlindBoxContext(r, d) ==
    [agent |-> keypair, scope |-> r.scope, key |-> d.key, ttl |-> r.ttl,
     nonce |-> d.nonce, expires |-> d.expires]

\* Fault: the approved ttl is not part of the sealed context.
DekAcceptedAnyTtl(w) ==
    LET d == CurrentDek(w)
    IN  /\ d.expires >= Wall
        /\ acc[w].nonces[d.nonce] = None
        /\ acc[w].deks[d.key] = None
        /\ [d.box EXCEPT !.ttl = req[w].ttl] = BlindBoxContext(req[w], d)

DekAccepted(w) ==
    LET d == CurrentDek(w)
    IN  /\ d.expires >= Wall
        /\ acc[w].nonces[d.nonce] = None
        /\ acc[w].deks[d.key] = None
        /\ d.box = BlindBoxContext(req[w], d)

\* Fault: the approval's deadline does not bound the grant.
IgnoreDeadline(a, b) == a

Min2(a, b) == IF a <= b THEN a ELSE b

AddDek(w) ==
    LET d == CurrentDek(w)
        done == acc[w].done + 1
    IN
    /\ pc[w] = "wall"
    /\ \/ /\ DekAccepted(w)
          /\ acc' = [acc EXCEPT ![w] =
                [done |-> done,
                 instant |-> acc[w].instant,
                 expires_at |-> Min2(acc[w].expires_at, ApprovalExpiry(w)),
                 deks |-> [acc[w].deks EXCEPT ![d.key] = d.box],
                 nonces |-> [acc[w].nonces EXCEPT ![d.nonce] =
                                ApprovalExpiry(w)]]]
          /\ pc' = [pc EXCEPT ![w] = IF done = Len(req[w].deks)
                                     THEN "publish" ELSE "validate"]
          /\ UNCHANGED <<req, snap>>
       \/ /\ ~DekAccepted(w)
          /\ Abort(w)
    /\ UNCHANGED <<clocks, keypair, state, consumed>>

\* Faults: publish without looking at the nonces, or at the grant's expiry.
PublishableAgain(w, t) == acc[w].expires_at > t

PublishableLate(w, t) ==
    \A n \in Nonces : acc[w].nonces[n] # None =>
        PurgedNonces(used_grant_nonces, now)[n] = None

\* publish_grant: purge at now; the grant's expiry is checked at now'.
Publishable(w, t) ==
    /\ acc[w].expires_at > t
    /\ \A n \in Nonces : acc[w].nonces[n] # None =>
            PurgedNonces(used_grant_nonces, now)[n] = None

PublishGrant(w) ==
    LET purged == PurgedGrants(grants, last_activity, now)
        nonces == PurgedNonces(used_grant_nonces, now)
    IN
    /\ pc[w] = "publish"
    /\ now' \in Later
    /\ \/ /\ Publishable(w, now')
          /\ grants' = [purged EXCEPT ![req[w].scope] =
                           [expires_at |-> acc[w].expires_at,
                            deks |-> acc[w].deks]]
          /\ used_grant_nonces' =
                [n \in Nonces |-> IF acc[w].nonces[n] # None
                                  THEN acc[w].nonces[n] ELSE nonces[n]]
          /\ last_activity' = now'
          /\ consumed' = [b \in Boxes |->
                IF b \in Held(acc[w].deks)
                THEN [times |-> consumed[b].times + 1,
                      until |-> acc[w].nonces[b.nonce]]
                ELSE consumed[b]]
       \/ /\ ~Publishable(w, now')
          /\ grants' = purged
          /\ used_grant_nonces' = nonces
          /\ UNCHANGED <<last_activity, consumed>>
    /\ Abort(w)
    /\ UNCHANGED <<offset, keypair>>

-----------------------------------------------------------------------------
(* `release` and `revoke` *)

\* purge at now, remove; record_activity purges again at a second reading and
\* stamps a third one, now'.
Release(w, s) ==
    LET purged == PurgedGrants(grants, last_activity, now)
        nonces == PurgedNonces(used_grant_nonces, now)
    IN
    /\ pc[w] = "idle"
    /\ \/ /\ purged[s] # None
          /\ now' \in Later
          /\ \E t \in now..now' :
                /\ grants' = PurgedGrants([purged EXCEPT ![s] = None],
                                          last_activity, t)
                /\ used_grant_nonces' = PurgedNonces(nonces, t)
          /\ last_activity' = now'
       \/ /\ purged[s] = None
          /\ grants' = purged
          /\ used_grant_nonces' = nonces
          /\ UNCHANGED <<now, last_activity>>
    /\ UNCHANGED <<offset, keypair, locals, consumed>>

-----------------------------------------------------------------------------
(* `deliver.*` and `sign`: open_with_grant, then the external I/O *)

\* Faults: every request counts as activity; no check before the master load.
UseBeginStamps(w, r) ==
    /\ pc[w] = "idle"
    /\ LiveGrant(r.scope)
    /\ pc' = [pc EXCEPT ![w] = IF r.master THEN "master" ELSE "snapshot"]
    /\ req' = [req EXCEPT ![w] = r]
    /\ last_activity' = now
    /\ UNCHANGED <<clocks, keypair, grants, used_grant_nonces, acc, snap,
                   consumed>>

UseBeginUnchecked(w, r) ==
    /\ pc[w] = "idle"
    /\ pc' = [pc EXCEPT ![w] = IF r.master THEN "master" ELSE "snapshot"]
    /\ req' = [req EXCEPT ![w] = r]
    /\ UNCHANGED <<clocks, keypair, state, acc, snap, consumed>>

\* The first get_live_grant.
UseBegin(w, r) ==
    /\ pc[w] = "idle"
    /\ LiveGrant(r.scope)
    /\ pc' = [pc EXCEPT ![w] = IF r.master THEN "master" ELSE "snapshot"]
    /\ req' = [req EXCEPT ![w] = r]
    /\ UNCHANGED <<clocks, keypair, state, acc, snap, consumed>>

\* master.get: how long it takes and whether it succeeds is the business of
\* module MasterCache.
MasterReturns(w) ==
    /\ pc[w] = "master"
    /\ \/ /\ pc' = [pc EXCEPT ![w] = "snapshot"]
          /\ UNCHANGED <<req, acc, snap>>
       \/ Abort(w)
    /\ UNCHANGED <<clocks, keypair, state, consumed>>

\* The second get_live_grant and its clone: the request's linearization point.
Snapshot(w) ==
    /\ pc[w] = "snapshot"
    /\ \/ /\ LiveGrant(req[w].scope)
          /\ pc' = [pc EXCEPT ![w] = "open"]
          /\ snap' = [snap EXCEPT ![w] = grants[req[w].scope]]
          /\ UNCHANGED <<req, acc>>
       \/ /\ ~LiveGrant(req[w].scope)
          /\ Abort(w)
    /\ UNCHANGED <<clocks, keypair, state, consumed>>

\* Fault: the cloned grant lives on through the external I/O.
OpenEnvelopesKeeping(w) ==
    /\ pc[w] = "open"
    /\ \/ /\ \A k \in req[w].keys : snap[w].deks[k] # None
          /\ pc' = [pc EXCEPT ![w] = "record"]
          /\ UNCHANGED <<req, acc, snap>>
       \/ Abort(w)
    /\ UNCHANGED <<clocks, keypair, state, consumed>>

\* The crypto: it needs a DEK for every protected name of the request, and
\* any envelope may turn out not to open.  The handles are dropped either way.
OpenEnvelopes(w) ==
    /\ pc[w] = "open"
    /\ \/ /\ \A k \in req[w].keys : snap[w].deks[k] # None
          /\ pc' = [pc EXCEPT ![w] = "record"]
          /\ snap' = [snap EXCEPT ![w] = None]
          /\ UNCHANGED <<req, acc>>
       \/ Abort(w)
    /\ UNCHANGED <<clocks, keypair, state, consumed>>

\* Faults: activity is stamped without expiring first; activity slides the ttl.
RecordActivityReviving(w) ==
    /\ pc[w] = "record"
    /\ now' \in Later
    /\ last_activity' = now'
    /\ pc' = [pc EXCEPT ![w] = "io"]
    /\ UNCHANGED <<offset, keypair, grants, used_grant_nonces, req, acc, snap,
                   consumed>>

RecordActivitySliding(w) ==
    /\ pc[w] = "record"
    /\ now' \in Later
    /\ grants' = [PurgedGrants(grants, last_activity, now) EXCEPT
                    ![req[w].scope] = IF @ = None THEN None
                                      ELSE [@ EXCEPT !.expires_at = @ + 1]]
    /\ used_grant_nonces' = PurgedNonces(used_grant_nonces, now)
    /\ last_activity' = now'
    /\ pc' = [pc EXCEPT ![w] = "io"]
    /\ UNCHANGED <<offset, keypair, req, acc, snap, consumed>>

\* record_activity: purge at now, then stamp now'.
RecordActivity(w) ==
    /\ pc[w] = "record"
    /\ now' \in Later
    /\ grants' = PurgedGrants(grants, last_activity, now)
    /\ used_grant_nonces' = PurgedNonces(used_grant_nonces, now)
    /\ last_activity' = now'
    /\ pc' = [pc EXCEPT ![w] = "io"]
    /\ UNCHANGED <<offset, keypair, req, acc, snap, consumed>>

\* The child, the fetch, the file or the signature is done, or failed.
FinishIO(w) ==
    /\ pc[w] = "io"
    /\ Abort(w)
    /\ UNCHANGED <<clocks, keypair, state, consumed>>

-----------------------------------------------------------------------------
(* The listener thread, the environment and the specification *)

\* Fault: the state lock is held while a worker waits for the master.
MaintainBehindMaster ==
    /\ \A w \in Workers : pc[w] # "master"
    /\ grants' = PurgedGrants(grants, last_activity, now)
    /\ used_grant_nonces' = PurgedNonces(used_grant_nonces, now)
    /\ UNCHANGED <<clocks, keypair, last_activity, locals, consumed>>

\* AgentShared.purge, the part on the grant state.
Maintain ==
    /\ grants' = PurgedGrants(grants, last_activity, now)
    /\ used_grant_nonces' = PurgedNonces(used_grant_nonces, now)
    /\ UNCHANGED <<clocks, keypair, last_activity, locals, consumed>>

NoGrants == [s \in Scopes |-> None]
AllIdle == [w \in Workers |-> "idle"]
NoRequests == [w \in Workers |-> None]
NoAccs == [w \in Workers |-> NoAcc]

\* Fault: the keypair survives the process.
RestartSameKeypair ==
    /\ keypair < MaxKeypair
    /\ grants' = NoGrants
    /\ used_grant_nonces' = NoNonces
    /\ last_activity' = now
    /\ pc' = AllIdle
    /\ req' = NoRequests
    /\ acc' = NoAccs
    /\ snap' = NoRequests
    /\ UNCHANGED <<clocks, keypair, consumed>>

\* The agent ends, by a crash, a signal or a reboot, and is started again:
\* nothing is persisted and the new process generates a new keypair.
Restart ==
    /\ keypair < MaxKeypair
    /\ keypair' = keypair + 1
    /\ grants' = NoGrants
    /\ used_grant_nonces' = NoNonces
    /\ last_activity' = now
    /\ pc' = AllIdle
    /\ req' = NoRequests
    /\ acc' = NoAccs
    /\ snap' = NoRequests
    /\ UNCHANGED <<clocks, consumed>>

Tick ==
    /\ now < MaxNow
    /\ now' = now + 1
    /\ UNCHANGED <<offset, keypair, state, locals, consumed>>

\* The wall clock is set, or the machine was suspended.
StepWall ==
    /\ \E d \in WallSteps : /\ offset' = offset + d
                            /\ offset' \in (-MaxOffset)..MaxOffset
    /\ UNCHANGED <<now, keypair, state, locals, consumed>>

Init ==
    /\ now = 0
    /\ offset = 0
    /\ keypair = 1
    /\ grants = NoGrants
    /\ used_grant_nonces = NoNonces
    /\ last_activity = now
    /\ pc = AllIdle
    /\ req = NoRequests
    /\ acc = NoAccs
    /\ snap = NoRequests
    /\ consumed = [b \in Boxes |-> [times |-> 0, until |-> 0]]

\* The steps of a handler that need nothing but the worker's thread to run.
Step(w) ==
    \/ ValidateApproval(w) \/ ReadInstant(w) \/ AddDek(w) \/ PublishGrant(w)
    \/ Snapshot(w) \/ OpenEnvelopes(w) \/ RecordActivity(w)

Next ==
    \/ \E w \in Workers :
        \/ \E r \in GrantRequests : GrantBegin(w, r)
        \/ \E r \in UseRequests : UseBegin(w, r)
        \/ \E s \in Scopes : Release(w, s)
        \/ Step(w)
        \/ MasterReturns(w)
        \/ FinishIO(w)
    \/ Maintain
    \/ Restart
    \/ Tick
    \/ StepWall

Spec == Init /\ [][Next]_vars

-----------------------------------------------------------------------------
(* Properties *)

Acc == [done: Nat, instant: Nat, expires_at: Int,
        deks: [DekKeys -> Boxes \union {None}],
        nonces: [Nonces -> Int \union {None}]]

InGrant == {"validate", "instant", "wall", "publish"}
InUse == {"master", "snapshot", "open", "record", "io"}

\* The type invariant.  Locals exist only while the handler that owns them
\* runs: an idle worker has no request, only a grant handler has opened DEKs
\* of its own, and a cloned grant exists only between the snapshot and the end
\* of the crypto (open_with_grant drops it before any external I/O).
TypeOK ==
    /\ now \in Nat
    /\ offset \in Int
    /\ keypair \in Nat
    /\ grants \in [Scopes -> Entry \union {None}]
    /\ used_grant_nonces \in [Nonces -> Int \union {None}]
    /\ last_activity \in 0..now
    /\ pc \in [Workers -> {"idle"} \union InGrant \union InUse]
    /\ req \in [Workers -> GrantRequests \union UseRequests \union {None}]
    /\ acc \in [Workers -> Acc]
    /\ snap \in [Workers -> Entry \union {None}]
    /\ consumed \in [Boxes -> [times: Nat, until: Int \union {None}]]
    /\ \A w \in Workers :
        /\ pc[w] \in InGrant => /\ req[w] \in GrantRequests
                                /\ acc[w].instant <= now
                                /\ acc[w].done \in 0..Len(req[w].deks)
                                /\ pc[w] # "publish" =>
                                        acc[w].done < Len(req[w].deks)
        /\ pc[w] \in InUse => req[w] \in UseRequests
        /\ pc[w] \notin InGrant => acc[w] = NoAcc
        /\ snap[w] # None <=> pc[w] = "open"

\* Every cached DEK is usable only as its approver sealed it: under that grant
\* id and key, by the process it was sealed to, and for no longer than the
\* approved ttl from now on, however the presented request, the regrants and
\* the restarts were interleaved (handle_agent_frame_inner, `grant`).
GrantMatchesApproval ==
    \A s \in Scopes : grants[s] # None =>
        \A k \in DekKeys : grants[s].deks[k] # None =>
            LET b == grants[s].deks[k]
            IN  /\ b.scope = s
                /\ b.key = k
                /\ b.agent = keypair
                /\ grants[s].expires_at <= now + b.ttl

\* No grant can be used at or after the absolute expiry of one of the
\* approvals behind it: "relaying the original operation duration cannot
\* extend a resident DEK cache past its binding deadline" (DESIGN.md, grant).
DeadlineHolds ==
    \A s \in Scopes : LiveGrant(s) =>
        \A b \in HeldIn(grants[s]) : Wall < b.expires

\* As long as a grant sits in the map, purged or not, the nonce of each of its
\* approvals is remembered, and no other grant was made from that nonce: two
\* workers racing on one approval, a regrant and lazy purging included
\* (publish_grant: "maintenance can never purge a grant whose approvals were
\* already spent").
ApprovalsBackOneGrant ==
    \A s \in Scopes : \A b \in HeldIn(grants[s]) :
        /\ used_grant_nonces[b.nonce] # None
        /\ used_grant_nonces[b.nonce] >= grants[s].expires_at
        /\ \A t \in Scopes \ {s} :
            \A c \in HeldIn(grants[t]) : c.nonce # b.nonce

\* A blind box is published again only once the instant computed as its
\* approval's expiry has passed, in this process or any earlier one: the nonce
\* memory is volatile, the keypair is what carries the promise over a restart.
ApprovalReusedOnlyAfterExpiry ==
    [][\A b \in Boxes : consumed'[b].times # consumed[b].times =>
            consumed[b].until <= now']_vars

\* A nonce is spent only by the step that makes a usable grant of it; a grant
\* that expired while its DEKs were opened spends nothing (publish_grant).
NonceSpentOnlyForUsableGrant ==
    [][\A n \in Nonces :
        used_grant_nonces'[n] \notin {None, used_grant_nonces[n]} =>
            \E s \in Scopes : /\ LiveGrant(s)'
                              /\ \E b \in HeldIn(grants'[s]) : b.nonce = n]_vars

\* "TTLs never slide": a grant that stays keeps its expiry, whatever activity
\* there is, unless its approvals are published anew.
TtlNeverSlides ==
    [][\A s \in Scopes :
        (grants[s] # None /\ grants'[s] # None
            /\ \A b \in HeldIn(grants'[s]) : consumed'[b] = consumed[b])
            => grants'[s] = grants[s]]_vars

\* "The idle clock moves only on a published grant, a successful key open, or
\* a `release` that removed a grant" (DESIGN.md, Expiry), or in a new process.
IdleClockMovesOnlyOnSuccess ==
    [][last_activity' # last_activity =>
        \/ \E b \in Boxes : consumed'[b].times > consumed[b].times
        \/ \E w \in Workers : pc[w] = "record" /\ pc'[w] = "io"
        \/ \E s \in Scopes : LiveGrant(s) /\ grants'[s] = None
        \/ keypair' # keypair]_vars

\* A use of a grant makes it last no longer than it would, but for the idle clock
\* of one that succeeded.
NothingProlongsAGrant == TtlNeverSlides /\ IdleClockMovesOnlyOnSuccess

\* "grant approval nonces are single-use until their approval expiry"
\* (README.md): no approval is published twice.  (A grant is only published
\* before its approvals' expiry.)
ApprovalSingleUse == \A b \in Boxes : consumed[b].times <= 1

\* The boxes whose DEKs grants keep in memory: in the map or in the snapshot of
\* a request.  (A `grant` handler opens what its client presents, again if the
\* client presents it again.)
Resident ==
    UNION {HeldIn(grants[s]) : s \in Scopes}
        \union UNION {HeldIn(snap[w]) : w \in Workers}

UsableBoxes == UNION {HeldIn(grants[s]) : s \in {t \in Scopes : LiveGrant(t)}}

\* Key material no grant allows to use leaves memory: "expiry never depends on
\* a request arriving", and the DEK pages of a revoked grant are zeroized once
\* the requests that took them finish their crypto (DESIGN.md, Revocation).
LapsedKeysLeaveMemory ==
    \A b \in Boxes : (b \in Resident \ UsableBoxes)
                        ~> (b \notin Resident \ UsableBoxes)

\* The grant map with its lazy purging, nonce memory and two-step
\* open_with_grant implements the ledger of usable grants: in particular
\* nothing revives a lapsed grant, and a request whose snapshot comes after a
\* removal gets nothing.
Ledger == INSTANCE GrantLedger WITH
    live <- [s \in Scopes |-> IF LiveGrant(s) THEN HeldIn(grants[s]) ELSE {}],
    held <- [w \in Workers |-> HeldIn(snap[w])],
    spent <- [b \in Boxes |-> consumed[b].times]

ImplementsLedger == Ledger!LedgerSpec
=============================================================================
