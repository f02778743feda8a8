----------------------------- MODULE MasterCache -----------------------------
(***************************************************************************)
(* The resident agent's standard master (AgentMasterCache): one cached     *)
(* copy under the `cached` mutex, cold loads serialised by the `loading`   *)
(* mutex, and an idle timeout the listener enforces.                       *)
(*                                                                         *)
(* `cached` is held only for bookkeeping, with the clock read inside, so a *)
(* use of it is one action.  `loading` is held across a store access, so   *)
(* it is a variable.                                                       *)
(***************************************************************************)
EXTENDS Integers

CONSTANTS
    Workers,      \* threads that call get()
    Keys,         \* master keys the machine store may hold
    IdleTimeout,  \* --idle-timeout-secs
    None,         \* nothing cached, no handle, nobody loading
    MaxNow        \* bound: the last instant of a behaviour

ASSUME KeysAssumption == None \notin Keys /\ None \notin Workers
ASSUME IdleAssumption == IdleTimeout \in Nat \ {0} /\ MaxNow \in Nat

VARIABLES
    now,       \* the monotonic clock
    source,    \* AgentMasterSource: "unlocked" or "store"
    stored,    \* the master key in the machine store
    cached,    \* AgentMasterCache.cached: CachedMaster or None
    loading,   \* the holder of AgentMasterCache.loading
    mpc,       \* where each worker is in get()
    handle     \* the Arc<MasterKey> each worker holds

cacheVars == <<source, stored, cached, loading, mpc, handle>>
mvars == <<now, cacheVars>>

Cached == [key: Keys, last_used: Nat]

\* Fault: the timeout is not looked at.
NeverExpired == cached

\* expire: what is left of the cache at the current instant.
Unexpired ==
    IF cached # None /\ now - cached.last_used < IdleTimeout
    THEN cached ELSE None

\* use_cached finds a master and refreshes its idle clock.
Hit(w) ==
    /\ Unexpired # None
    /\ cached' = [Unexpired EXCEPT !.last_used = now]
    /\ handle' = [handle EXCEPT ![w] = cached.key]

\* use_cached finds none, dropping an expired one.
Miss == Unexpired = None /\ cached' = None

Goto(w, label) == mpc' = [mpc EXCEPT ![w] = label]

-----------------------------------------------------------------------------
(* get() *)

\* An operator-unlocked master is handed out as it is.
GetUnlocked(w) ==
    /\ source = "unlocked"
    /\ mpc[w] = "out"
    /\ handle' = [handle EXCEPT ![w] = stored]
    /\ Goto(w, "have")
    /\ UNCHANGED <<now, source, stored, cached, loading>>

\* The first use_cached.
GetCached(w) ==
    /\ source = "store"
    /\ mpc[w] = "out"
    /\ \/ Hit(w) /\ Goto(w, "have")
       \/ Miss /\ Goto(w, "lock") /\ UNCHANGED handle
    /\ UNCHANGED <<now, source, stored, loading>>

LockLoading(w) ==
    /\ mpc[w] = "lock"
    /\ loading = None
    /\ loading' = w
    /\ Goto(w, "recheck")
    /\ UNCHANGED <<now, source, stored, cached, handle>>

\* Fault: the cache is not looked at again once the lock is held.
RecheckSkipped(w) ==
    /\ mpc[w] = "recheck"
    /\ Goto(w, "load")
    /\ UNCHANGED <<now, source, stored, cached, handle, loading>>

\* The second use_cached, with `loading` held.
Recheck(w) ==
    /\ mpc[w] = "recheck"
    /\ \/ Hit(w) /\ Goto(w, "have") /\ loading' = None
       \/ Miss /\ Goto(w, "load") /\ UNCHANGED <<handle, loading>>
    /\ UNCHANGED <<now, source, stored>>

\* Fault: a failed load leaves the lock taken.
LoadLeaksLock(w) ==
    /\ mpc[w] = "load"
    /\ \/ /\ handle' = [handle EXCEPT ![w] = stored]
          /\ Goto(w, "install")
       \/ /\ Goto(w, "failed")
          /\ UNCHANGED handle
    /\ UNCHANGED <<now, source, stored, cached, loading>>

\* The store access: it may fail, which releases the lock and ends get().
Load(w) ==
    /\ mpc[w] = "load"
    /\ \/ /\ handle' = [handle EXCEPT ![w] = stored]
          /\ Goto(w, "install")
          /\ UNCHANGED loading
       \/ /\ Goto(w, "failed")
          /\ loading' = None
          /\ UNCHANGED handle
    /\ UNCHANGED <<now, source, stored, cached>>

Install(w) ==
    /\ mpc[w] = "install"
    /\ cached' = [key |-> handle[w], last_used |-> now]
    /\ loading' = None
    /\ Goto(w, "have")
    /\ UNCHANGED <<now, source, stored, handle>>

\* The caller is done with the key, or has answered with the error.
Return(w) ==
    /\ mpc[w] \in {"have", "failed"}
    /\ handle' = [handle EXCEPT ![w] = None]
    /\ Goto(w, "out")
    /\ UNCHANGED <<now, source, stored, cached, loading>>

-----------------------------------------------------------------------------
(* The listener's purge, the environment and the specification *)

PurgeMaster ==
    /\ cached' = Unexpired
    /\ UNCHANGED <<now, source, stored, loading, mpc, handle>>

\* `avault key import --force` in another process.
ReplaceStored ==
    /\ source = "store"
    /\ stored' \in Keys
    /\ UNCHANGED <<now, source, cached, loading, mpc, handle>>

Tick ==
    /\ now < MaxNow
    /\ now' = now + 1
    /\ UNCHANGED cacheVars

MasterInit ==
    /\ source \in {"unlocked", "store"}
    /\ stored \in Keys
    /\ cached = None
    /\ loading = None
    /\ mpc = [w \in Workers |-> "out"]
    /\ handle = [w \in Workers |-> None]

Init == now = 0 /\ MasterInit

Get(w) == GetUnlocked(w) \/ GetCached(w)

\* The steps of get() other than waiting for the lock.
Proceed(w) == Recheck(w) \/ Load(w) \/ Install(w)

Next ==
    \/ \E w \in Workers : Get(w) \/ LockLoading(w) \/ Proceed(w) \/ Return(w)
    \/ PurgeMaster
    \/ ReplaceStored
    \/ Tick

Spec == Init /\ [][Next]_mvars

\* The listener polls for ever, threads run, a store access returns and a
\* caller opens its envelopes in finite time.  A free lock is taken by some
\* waiter; which one is not assumed (std::sync::Mutex is not fair).
FairSpec ==
    /\ Spec
    /\ WF_mvars(PurgeMaster)
    /\ WF_mvars(\E w \in Workers : LockLoading(w))
    /\ \A w \in Workers : WF_mvars(Proceed(w)) /\ WF_mvars(Return(w))

-----------------------------------------------------------------------------
(* Properties *)

\* The type invariant; a handle exists only between get() and the end of the
\* caller's crypto, and `loading` is held by the one worker that loads.
MasterTypeOK ==
    /\ now \in Nat
    /\ source \in {"unlocked", "store"}
    /\ stored \in Keys
    /\ cached \in Cached \union {None}
    /\ loading \in Workers \union {None}
    /\ mpc \in [Workers -> {"out", "lock", "recheck", "load", "install",
                            "have", "failed"}]
    /\ handle \in [Workers -> Keys \union {None}]
    /\ \A w \in Workers :
        /\ mpc[w] \in {"recheck", "load", "install"} <=> loading = w
        /\ mpc[w] \in {"install", "have"} <=> handle[w] # None

\* "concurrent cold loads share one store access": while a worker loads there
\* is no cached copy it could have used, and none appears that its own would
\* overwrite; and the types.
LoadsAreShared ==
    /\ MasterTypeOK
    /\ \A w \in Workers : mpc[w] \in {"load", "install"} =>
          cached = None /\ \A v \in Workers \ {w} : mpc[v] \notin {"load", "install"}

\* "a stale reading can never overwrite a newer `last_used`", a copy past the
\* idle timeout is never refreshed (it goes, and only a load brings one back),
\* and a copy in use is not exchanged for another key (use_cached, expire,
\* lock_cached).
IdleMasterIsNotRevived ==
    [][(cached # None /\ cached' # None) =>
        IF now - cached.last_used >= IdleTimeout
        THEN cached' = cached
        ELSE /\ cached'.key = cached.key
             /\ cached'.last_used >= cached.last_used]_mvars

\* "The cached master is dropped after --idle-timeout-secs without a
\* standard-tier use", with no request needed for it.
IdleMasterIsDropped ==
    (cached # None /\ now - cached.last_used >= IdleTimeout)
        ~> (cached = None \/ now - cached.last_used < IdleTimeout)

\* Every exit of get() releases the loading lock, and a waiting worker is not
\* left behind a free lock.
LoadingLockIsReleased ==
    /\ loading # None ~> loading = None
    /\ (\E w \in Workers : mpc[w] = "lock") ~> (loading # None)
=============================================================================
