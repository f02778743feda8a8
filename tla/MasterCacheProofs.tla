-------------------------- MODULE MasterCacheProofs --------------------------
(* Theorems about MasterCache, for every set of workers and of keys and every *)
(* idle timeout.                                                              *)
EXTENDS MasterCache, TLAPS

-----------------------------------------------------------------------------
(* The inductive invariant *)

\* No copy was used in the future: `last_used` is read from the clock under the
\* `cached` lock.
LastUsedInv == cached # None => cached.last_used <= now

CacheInv == LoadsAreShared /\ LastUsedInv

\* What use_cached does when it finds a master: the copy was fresh, and all that
\* changes in it is the idle clock.
LEMMA HitRefreshes ==
    ASSUME MasterTypeOK, LastUsedInv, NEW w \in Workers, Hit(w)
    PROVE  /\ cached \in Cached
           /\ now - cached.last_used < IdleTimeout
           /\ cached' \in Cached
           /\ cached'.key = cached.key
           /\ cached'.last_used = now
           /\ handle' = [handle EXCEPT ![w] = cached.key]
           /\ cached.key \in Keys
           /\ cached # None
<1>1. cached # None /\ Unexpired = cached /\ now - cached.last_used < IdleTimeout
  BY DEF Hit, Unexpired
<1>2. cached \in Cached
  BY <1>1 DEF MasterTypeOK
<1>. QED
  BY <1>1, <1>2 DEF Hit, Cached, MasterTypeOK

\* What expire leaves is the copy or nothing.
LEMMA UnexpiredIsCachedOrNone == Unexpired \in {cached, None}
BY DEF Unexpired

-----------------------------------------------------------------------------
(* The steps *)

LEMMA CacheInitially == Init => CacheInv
BY KeysAssumption
   DEF Init, MasterInit, CacheInv, LoadsAreShared, MasterTypeOK, LastUsedInv

\* While worker w is not loading, another may be; it keeps what it relies on.
LEMMA GetInv ==
    ASSUME CacheInv, NEW w \in Workers, Get(w)
    PROVE  CacheInv'
<1>0. MasterTypeOK /\ LastUsedInv /\ LoadsAreShared
  BY DEF CacheInv, LoadsAreShared
<1>1. CASE GetUnlocked(w)
  BY <1>0, <1>1, KeysAssumption
     DEF GetUnlocked, Goto, CacheInv, LoadsAreShared, MasterTypeOK, LastUsedInv
<1>2. CASE GetCached(w) /\ Hit(w) /\ Goto(w, "have")
  <2>1. /\ cached' \in Cached /\ cached'.last_used = now /\ cached # None
        /\ handle' = [handle EXCEPT ![w] = cached.key] /\ cached.key \in Keys
    BY <1>0, <1>2, HitRefreshes
  <2>2. /\ mpc' = [mpc EXCEPT ![w] = "have"] /\ mpc[w] = "out"
        /\ UNCHANGED <<now, source, stored, loading>>
    BY <1>2 DEF GetCached, Goto
  <2>3. MasterTypeOK'
    BY <1>0, <2>1, <2>2, KeysAssumption DEF MasterTypeOK
  <2>4. \A v \in Workers : mpc'[v] \notin {"load", "install"}
    BY <1>0, <2>1, <2>2 DEF LoadsAreShared, MasterTypeOK
  <2>5. LastUsedInv'
    BY <1>0, <2>1, <2>2 DEF LastUsedInv, MasterTypeOK
  <2>. QED
    BY <2>3, <2>4, <2>5 DEF CacheInv, LoadsAreShared
<1>3. CASE GetCached(w) /\ Miss /\ Goto(w, "lock") /\ UNCHANGED handle
  BY <1>0, <1>3
     DEF GetCached, Miss, Goto, CacheInv, LoadsAreShared, MasterTypeOK, LastUsedInv
<1>. QED
  BY <1>1, <1>2, <1>3 DEF Get, GetCached

LEMMA LockLoadingInv ==
    ASSUME CacheInv, NEW w \in Workers, LockLoading(w)
    PROVE  CacheInv'
BY KeysAssumption
   DEF LockLoading, Goto, CacheInv, LoadsAreShared, MasterTypeOK, LastUsedInv

LEMMA RecheckInv ==
    ASSUME CacheInv, NEW w \in Workers, Recheck(w)
    PROVE  CacheInv'
<1>0. MasterTypeOK /\ LastUsedInv /\ LoadsAreShared
  BY DEF CacheInv, LoadsAreShared
<1>1. /\ loading = w
      /\ \A v \in Workers : v # w => mpc[v] \notin {"recheck", "load", "install"}
  BY <1>0 DEF Recheck, MasterTypeOK
<1>2. CASE Hit(w) /\ Goto(w, "have") /\ loading' = None
  <2>1. /\ cached' \in Cached /\ cached'.last_used = now /\ cached # None
        /\ handle' = [handle EXCEPT ![w] = cached.key] /\ cached.key \in Keys
    BY <1>0, <1>2, HitRefreshes
  <2>2. /\ mpc' = [mpc EXCEPT ![w] = "have"] /\ loading' = None
        /\ UNCHANGED <<now, source, stored>>
    BY <1>2 DEF Recheck, Goto
  <2>3. MasterTypeOK'
    BY <1>0, <1>1, <2>1, <2>2, KeysAssumption DEF MasterTypeOK
  <2>4. \A v \in Workers : mpc'[v] \notin {"load", "install"}
    BY <1>0, <1>1, <2>2 DEF MasterTypeOK
  <2>5. LastUsedInv'
    BY <1>0, <2>1, <2>2 DEF LastUsedInv, MasterTypeOK
  <2>. QED
    BY <2>3, <2>4, <2>5 DEF CacheInv, LoadsAreShared
<1>3. CASE Miss /\ Goto(w, "load") /\ UNCHANGED <<handle, loading>>
  BY <1>0, <1>1, <1>3
     DEF Recheck, Miss, Goto, CacheInv, LoadsAreShared, MasterTypeOK, LastUsedInv
<1>. QED
  BY <1>2, <1>3 DEF Recheck

LEMMA LoadInv ==
    ASSUME CacheInv, NEW w \in Workers, Load(w)
    PROVE  CacheInv'
BY KeysAssumption
   DEF Load, Goto, CacheInv, LoadsAreShared, MasterTypeOK, LastUsedInv

LEMMA InstallInv ==
    ASSUME CacheInv, NEW w \in Workers, Install(w)
    PROVE  CacheInv'
<1>0. MasterTypeOK /\ LastUsedInv /\ LoadsAreShared
  BY DEF CacheInv, LoadsAreShared
<1>1. /\ handle[w] \in Keys
      /\ loading = w
      /\ \A v \in Workers : v # w => mpc[v] \notin {"recheck", "load", "install"}
  BY <1>0 DEF Install, MasterTypeOK
<1>2. cached' \in Cached /\ cached'.last_used = now
  BY <1>0, <1>1 DEF Install, Cached, MasterTypeOK
<1>3. MasterTypeOK'
  BY <1>0, <1>1, <1>2, KeysAssumption DEF Install, Goto, MasterTypeOK
<1>4. \A v \in Workers : mpc'[v] \notin {"load", "install"}
  BY <1>0, <1>1 DEF Install, Goto, MasterTypeOK
<1>5. LastUsedInv'
  BY <1>0, <1>2 DEF Install, LastUsedInv, MasterTypeOK
<1>. QED
  BY <1>3, <1>4, <1>5 DEF CacheInv, LoadsAreShared

LEMMA ReturnInv ==
    ASSUME CacheInv, NEW w \in Workers, Return(w)
    PROVE  CacheInv'
BY KeysAssumption
   DEF Return, Goto, CacheInv, LoadsAreShared, MasterTypeOK, LastUsedInv

LEMMA PurgeMasterInv ==
    ASSUME CacheInv, PurgeMaster
    PROVE  CacheInv'
BY UnexpiredIsCachedOrNone
   DEF PurgeMaster, CacheInv, LoadsAreShared, MasterTypeOK, LastUsedInv

LEMMA CacheStepInv == CacheInv /\ [Next]_mvars => CacheInv'
<1>. SUFFICES ASSUME CacheInv, [Next]_mvars PROVE CacheInv'
  OBVIOUS
<1>1. ASSUME NEW w \in Workers, Proceed(w)
      PROVE  CacheInv'
  BY <1>1, RecheckInv, LoadInv, InstallInv DEF Proceed
<1>2. CASE ReplaceStored
  BY <1>2 DEF ReplaceStored, CacheInv, LoadsAreShared, MasterTypeOK, LastUsedInv
<1>3. CASE Tick
  <2>1. MasterTypeOK' /\ LastUsedInv'
    BY <1>3 DEF Tick, cacheVars, CacheInv, LoadsAreShared, MasterTypeOK, LastUsedInv,
                Cached
  <2>. QED
    BY <1>3, <2>1 DEF Tick, cacheVars, CacheInv, LoadsAreShared
<1>4. CASE UNCHANGED mvars
  BY <1>4 DEF mvars, cacheVars, CacheInv, LoadsAreShared, MasterTypeOK, LastUsedInv
<1>. QED
  BY <1>1, <1>2, <1>3, <1>4, GetInv, LockLoadingInv, ReturnInv, PurgeMasterInv DEF Next

LEMMA CacheInvHolds == Spec => []CacheInv
BY CacheInitially, CacheStepInv, PTL DEF Spec

-----------------------------------------------------------------------------
(* Theorems *)

\* However many workers call get() at once and however the store answers, at
\* most one of them is in a store access, it found no cached copy under the
\* lock, and none appears before it installs its own (AgentMasterCache.get).
THEOREM LoadsShared == Spec => []LoadsAreShared
<1>1. CacheInv => LoadsAreShared
  BY DEF CacheInv
<1>. QED
  BY <1>1, CacheInvHolds, PTL

\* The step that a copy may take: stay as it is once idle for the timeout, else
\* keep its key and have a `last_used` no older.
CopyStep ==
    (cached # None /\ cached' # None) =>
        IF now - cached.last_used >= IdleTimeout
        THEN cached' = cached
        ELSE /\ cached'.key = cached.key
             /\ cached'.last_used >= cached.last_used

LEMMA CopyStepInv == CacheInv /\ [Next]_mvars => CopyStep
<1>. SUFFICES ASSUME CacheInv, [Next]_mvars, cached # None, cached' # None
              PROVE  CopyStep
  BY DEF CopyStep
<1>0. /\ MasterTypeOK /\ LastUsedInv /\ LoadsAreShared
      /\ cached.last_used \in Nat /\ now \in Nat /\ cached.last_used <= now
      /\ IdleTimeout \in Nat
  BY IdleAssumption DEF CacheInv, LoadsAreShared, LastUsedInv, MasterTypeOK, Cached
<1>1. CASE UNCHANGED cached
  BY <1>0, <1>1 DEF CopyStep
<1>2. ASSUME NEW w \in Workers, Hit(w)
      PROVE  CopyStep
  <2>1. /\ now - cached.last_used < IdleTimeout
        /\ cached'.key = cached.key
        /\ cached'.last_used = now
    BY <1>0, <1>2, HitRefreshes
  <2>. QED
    BY <1>0, <2>1 DEF CopyStep
<1>3. ASSUME NEW w \in Workers, Install(w)
      PROVE  FALSE
  BY <1>0, <1>3 DEF Install, LoadsAreShared
<1>4. CASE cached' = Unexpired
  BY <1>1, <1>4, UnexpiredIsCachedOrNone
<1>5. ASSUME NEW w \in Workers, Get(w) \/ Recheck(w)
      PROVE  CopyStep
  BY <1>1, <1>2, <1>5 DEF Get, GetUnlocked, GetCached, Recheck, Miss
<1>6. ASSUME NEW w \in Workers, LockLoading(w) \/ Load(w) \/ Return(w)
      PROVE  UNCHANGED cached
  BY <1>6 DEF LockLoading, Load, Return
<1>7. PurgeMaster => cached' = Unexpired
  BY DEF PurgeMaster
<1>8. ReplaceStored \/ Tick \/ UNCHANGED mvars => UNCHANGED cached
  BY DEF ReplaceStored, Tick, cacheVars, mvars
<1>. QED
  BY <1>1, <1>3, <1>4, <1>5, <1>6, <1>7, <1>8 DEF Next, Proceed

\* A master past its idle timeout is never refreshed, a fresh one never gets an
\* older `last_used`, and a copy in use is never exchanged for another key,
\* whatever the workers, the listener and `key import --force` do meanwhile.
THEOREM IdleMasterStaysDead == Spec => IdleMasterIsNotRevived
<1>1. CacheInv /\ [Next]_mvars => [CopyStep]_mvars
  BY CopyStepInv
<1>2. Spec => [][CopyStep]_mvars
  BY <1>1, CacheInvHolds, PTL DEF Spec
<1>. QED
  BY <1>2 DEF IdleMasterIsNotRevived, CopyStep
=============================================================================
