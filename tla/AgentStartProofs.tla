--------------------------- MODULE AgentStartProofs ---------------------------
(* Theorems about AgentStart and its two components, the passphrase store and *)
(* the socket path, for every set of processes and of passphrases.            *)
EXTENDS AgentStart, TLAPS

-----------------------------------------------------------------------------
(* The passphrase store: the inductive invariant *)

Unforced == \A p \in Procs : op[p] # "import_force"

\* What each process has in its hands.
ProcInv ==
    \A p \in Procs :
        /\ at[p] = "idle" => op[p] = None
        /\ at[p] # "idle" => pass[p] \in Passphrases
        /\ at[p] = "create" => key[p] = FreshKey(p)
        /\ at[p] = "import" => key[p] = ImportedKey
        /\ at[p] = "sync" => key[p] \in {FreshKey(p), ImportedKey}
        /\ at[p] = "done" => key[p] # None

\* Has process p got as far as making the store?
Created(p) == at[p] \in {"sync", "get_again", "done", "failed"}

\* A key a process generated is in the file, or on disk, only after it made the
\* store.
OwnKeyInv ==
    \A p \in Procs :
        /\ (wrapped # None /\ wrapped.key = FreshKey(p)) => Created(p)
        /\ (synced # None /\ synced.key = FreshKey(p)) => Created(p)

\* Unless an import is forced, what is on disk for certain is the file or
\* nothing; whoever unlocks a key of its own making finds it there.
SoleStoreInv ==
    Unforced =>
        /\ synced \in {None, wrapped}
        /\ \A p \in Procs :
            /\ (at[p] = "get_again" /\ wrapped # None /\ wrapped.key = FreshKey(p))
                    => synced = wrapped
            /\ (at[p] = "done" /\ Unlocks(p)) =>
                    \/ /\ wrapped = Wrap(key[p], pass[p])
                       /\ key[p] = FreshKey(p) => synced = wrapped
                    \/ powerLost /\ key[p] # FreshKey(p)

StoreInv == PassTypeOK /\ ProcInv /\ OwnKeyInv /\ SoleStoreInv

-----------------------------------------------------------------------------
(* Lemmas on keys *)

\* No two processes generate one key.
LEMMA FreshKeysDiffer ==
    ASSUME NEW p \in Procs, NEW q \in Procs, FreshKey(p) = FreshKey(q)
    PROVE  p = q
BY DEF FreshKey

\* Wrapping one of the program's keys gives a store file, with that key in it.
LEMMA WrapType ==
    ASSUME NEW k \in {ImportedKey} \union {FreshKey(p) : p \in Procs},
           NEW s \in Passphrases
    PROVE  /\ Wrap(k, s) \in WrappedKeys
           /\ Wrap(k, s) # None
           /\ Wrap(k, s).key = k
BY PassphraseAssumption DEF Wrap, WrappedKeys

\* Unwrapping succeeds exactly on the file that wraps its key.
LEMMA UnwrapsWraps ==
    ASSUME NEW s, wrapped \in WrappedKeys \union {None}, Unwraps(wrapped, s)
    PROVE  /\ wrapped = Wrap(wrapped.key, s)
           /\ wrapped.key \in {ImportedKey} \union {FreshKey(p) : p \in Procs}
           /\ wrapped # None
BY DEF Unwraps, Wrap, WrappedKeys

Ops == {"get", "get_or_create", "import", "import_force"}
Steps == {"idle", "get", "create", "get_again", "import", "sync", "done", "failed"}
Keyring == {ImportedKey, None} \union {FreshKey(p) : p \in Procs}

\* Process p takes a step to `label` with key k in its hands.
Moved(p, label, k) ==
    /\ at' \in [Procs -> Steps]
    /\ key' \in [Procs -> Keyring]
    /\ \A q \in Procs : /\ at'[q] = IF q = p THEN label ELSE at[q]
                        /\ key'[q] = IF q = p THEN k ELSE key[q]

LEMMA ProcMoves ==
    ASSUME PassTypeOK, NEW p \in Procs, NEW label \in Steps, NEW k \in Keyring,
           Goto(p, label), key' = [key EXCEPT ![p] = k]
    PROVE  Moved(p, label, k)
<1>1. /\ at \in [Procs -> Steps] /\ key \in [Procs -> Keyring]
      /\ at' = [at EXCEPT ![p] = label]
  BY DEF PassTypeOK, Goto, Steps, Keyring
<1>. QED
  BY <1>1 DEF Moved

\* A step of process p that leaves the file, its passphrase and its operation
\* alone, and does not go back before the store is made.
LEMMA ReadingStep ==
    ASSUME StoreInv, NEW p \in Procs, NEW label \in Steps \ {"idle", "import"},
           NEW k \in Keyring,
           Goto(p, label), key' = [key EXCEPT ![p] = k],
           UNCHANGED <<disk, op, pass>>,
           at[p] # "idle",
           label \in {"create", "sync", "get"} => ~Created(p),
           label = "create" => k = FreshKey(p),
           label = "done" => k # None,
           label \notin {"sync", "get"},
           (label = "get_again" /\ wrapped # None /\ wrapped.key = FreshKey(p)) =>
               synced = wrapped,
           (label = "done" /\ Unlocks(p)) =>
               /\ wrapped = Wrap(k, pass[p])
               /\ k = FreshKey(p) => synced = wrapped
    PROVE  StoreInv'
<1>1. /\ at' \in [Procs -> Steps]
      /\ key' \in [Procs -> Keyring]
      /\ \A q \in Procs : /\ at'[q] = IF q = p THEN label ELSE at[q]
                          /\ key'[q] = IF q = p THEN k ELSE key[q]
  <2>1. PassTypeOK /\ label \in Steps
    BY DEF StoreInv
  <2>2. Moved(p, label, k)
    BY <2>1, ProcMoves
  <2>. QED
    BY <2>2 DEF Moved
<1>2. UNCHANGED <<wrapped, synced, powerLost, op, pass>>
  BY DEF disk
<1>3. PassTypeOK'
  BY <1>1, <1>2 DEF StoreInv, PassTypeOK, Steps, Keyring
<1>4. ProcInv'
  BY <1>1, <1>2 DEF StoreInv, ProcInv
<1>5. OwnKeyInv'
  <2>1. \A q \in Procs : Created(q) => Created(q)'
    BY <1>1 DEF Created, Steps
  <2>. QED
    BY <1>2, <2>1 DEF StoreInv, OwnKeyInv
<1>6. SoleStoreInv'
  <2>1. Unforced' <=> Unforced
    BY <1>2 DEF Unforced
  <2>2. \A q \in Procs : Unlocks(q)' <=> Unlocks(q)
    BY <1>2 DEF Unlocks
  <2>. QED
    BY <1>1, <1>2, <2>1, <2>2 DEF StoreInv, SoleStoreInv
<1>. QED
  BY <1>3, <1>4, <1>5, <1>6 DEF StoreInv

-----------------------------------------------------------------------------
(* The passphrase store: the steps *)

LEMMA StoreInitially == PassInit => StoreInv
<1>. SUFFICES ASSUME PassInit PROVE StoreInv
  OBVIOUS
<1>1. PassTypeOK /\ ProcInv /\ OwnKeyInv
  BY PassphraseAssumption DEF PassInit, PassTypeOK, ProcInv, OwnKeyInv
<1>2. SoleStoreInv
  BY DEF PassInit, SoleStoreInv
<1>. QED
  BY <1>1, <1>2 DEF StoreInv

LEMMA BeginInv ==
    ASSUME StoreInv, NEW p \in Procs, NEW o \in Ops, NEW s \in Passphrases,
           Begin(p, o, s)
    PROVE  StoreInv'
<1>0. /\ at[p] = "idle" /\ UNCHANGED <<wrapped, synced, powerLost>>
      /\ PassTypeOK
  BY DEF Begin, disk, StoreInv
<1>1. PICK label \in {"get", "import"} :
        /\ \A q \in Procs : at'[q] = IF q = p THEN label ELSE at[q]
        /\ at' \in [Procs -> Steps]
        /\ key' \in [Procs -> Keyring]
        /\ \A q \in Procs : q # p => key'[q] = key[q]
        /\ label = "import" => key'[p] = ImportedKey
  <2>1. CASE o \in {"get", "get_or_create"}
    BY <1>0, <2>1 DEF Begin, Goto, PassTypeOK, Steps, Keyring
  <2>2. CASE o \notin {"get", "get_or_create"}
    BY <1>0, <2>2 DEF Begin, Goto, Keep, PassTypeOK, Steps, Keyring
  <2>. QED
    BY <2>1, <2>2
<1>2. /\ \A q \in Procs : op'[q] = IF q = p THEN o ELSE op[q]
      /\ \A q \in Procs : pass'[q] = IF q = p THEN s ELSE pass[q]
      /\ op' \in [Procs -> Ops \union {None}]
      /\ pass' \in [Procs -> Passphrases \union {None}]
  BY <1>0 DEF Begin, PassTypeOK, Ops
<1>3. PassTypeOK'
  BY <1>0, <1>1, <1>2 DEF PassTypeOK, Steps, Keyring, Ops
<1>4. ProcInv'
  BY <1>1, <1>2 DEF StoreInv, ProcInv
<1>5. OwnKeyInv'
  <2>1. \A q \in Procs : Created(q) => Created(q)'
    BY <1>0, <1>1 DEF Created
  <2>. QED
    BY <1>0, <2>1 DEF StoreInv, OwnKeyInv
<1>6. SoleStoreInv'
  <2>1. op[p] # "import_force"
    BY <1>0, PassphraseAssumption DEF StoreInv, ProcInv
  <2>2. Unforced' => Unforced
    BY <1>2, <2>1 DEF Unforced
  <2>3. \A q \in Procs : q # p => (Unlocks(q)' <=> Unlocks(q))
    BY <1>2 DEF Unlocks
  <2>. QED
    BY <1>0, <1>1, <1>2, <2>2, <2>3 DEF StoreInv, SoleStoreInv
<1>. QED
  BY <1>3, <1>4, <1>5, <1>6 DEF StoreInv

LEMMA GetInv ==
    ASSUME StoreInv, NEW p \in Procs, Get(p)
    PROVE  StoreInv'
<1>0. at[p] = "get" /\ ~Created(p) /\ UNCHANGED <<disk, op, pass>>
  BY DEF Get, Created
<1>1. CASE Unwraps(wrapped, pass[p]) /\ Succeed(p, wrapped.key)
  <2>1. /\ wrapped = Wrap(wrapped.key, pass[p]) /\ wrapped.key \in Keyring
        /\ wrapped # None /\ wrapped.key # None
    BY <1>1, UnwrapsWraps, PassphraseAssumption DEF StoreInv, PassTypeOK, Keyring
  <2>2. wrapped.key # FreshKey(p)
    BY <1>0, <2>1 DEF StoreInv, OwnKeyInv
  <2>. QED
    BY <1>0, <1>1, <2>1, <2>2, ReadingStep DEF Succeed, Keep, Steps
<1>2. CASE Goto(p, "create") /\ Keep(p, FreshKey(p))
  BY <1>0, <1>2, ReadingStep DEF Keep, Steps, Keyring
<1>3. CASE Fail(p)
  BY <1>0, <1>3, ReadingStep DEF Fail, Keep, Steps, Keyring
<1>. QED
  BY <1>1, <1>2, <1>3 DEF Get

LEMMA GetAgainInv ==
    ASSUME StoreInv, NEW p \in Procs, GetAgain(p)
    PROVE  StoreInv'
<1>0. at[p] = "get_again" /\ UNCHANGED <<disk, op, pass>>
  BY DEF GetAgain
<1>1. CASE Unwraps(wrapped, pass[p]) /\ Succeed(p, wrapped.key)
  <2>1. /\ wrapped = Wrap(wrapped.key, pass[p]) /\ wrapped.key \in Keyring
        /\ wrapped # None /\ wrapped.key # None
    BY <1>1, UnwrapsWraps, PassphraseAssumption DEF StoreInv, PassTypeOK, Keyring
  <2>2. CASE Unforced
    <3>1. wrapped.key = FreshKey(p) => synced = wrapped
      BY <1>0, <2>1, <2>2 DEF StoreInv, SoleStoreInv
    <3>. QED
      BY <1>0, <1>1, <2>1, <3>1, ReadingStep DEF Succeed, Keep, Steps
  <2>3. CASE ~Unforced
    <3>1. /\ at' \in [Procs -> Steps]
          /\ key' \in [Procs -> Keyring]
          /\ \A q \in Procs : /\ at'[q] = IF q = p THEN "done" ELSE at[q]
                              /\ key'[q] = IF q = p THEN wrapped.key ELSE key[q]
      <4>1. /\ PassTypeOK /\ "done" \in Steps
            /\ Goto(p, "done") /\ key' = [key EXCEPT ![p] = wrapped.key]
        BY <1>1 DEF StoreInv, Succeed, Keep, Steps
      <4>2. Moved(p, "done", wrapped.key)
        BY <2>1, <4>1, ProcMoves
      <4>. QED
        BY <4>2 DEF Moved
    <3>2. PassTypeOK' /\ ProcInv'
      BY <1>0, <2>1, <3>1 DEF StoreInv, PassTypeOK, ProcInv, disk, Steps, Keyring
    <3>3. OwnKeyInv' /\ SoleStoreInv'
      BY <1>0, <2>3, <3>1 DEF StoreInv, OwnKeyInv, SoleStoreInv, Unforced, Created, disk
    <3>. QED
      BY <3>2, <3>3 DEF StoreInv
  <2>. QED
    BY <2>2, <2>3
<1>2. CASE Fail(p)
  BY <1>0, <1>2, ReadingStep DEF Fail, Keep, Steps, Keyring
<1>. QED
  BY <1>1, <1>2 DEF GetAgain

\* Process p makes the store, or replaces it by a forced import, with the key it
\* has in its hands.
LEMMA StoreMade ==
    ASSUME StoreInv, NEW p \in Procs, at[p] \in {"create", "import"},
           wrapped = None \/ Forced(p),
           wrapped' = Wrap(key[p], pass[p]),
           Goto(p, "sync"), UNCHANGED <<key, synced, powerLost, op, pass>>
    PROVE  StoreInv'
<1>0. PassTypeOK /\ ProcInv /\ OwnKeyInv /\ SoleStoreInv
  BY DEF StoreInv
<1>1. /\ key[p] \in {FreshKey(p), ImportedKey}
      /\ pass[p] \in Passphrases
  BY <1>0 DEF ProcInv
<1>2. wrapped' \in WrappedKeys /\ wrapped' # None /\ wrapped'.key = key[p]
  BY <1>1, WrapType
<1>3. /\ at' \in [Procs -> Steps]
      /\ \A q \in Procs : at'[q] = IF q = p THEN "sync" ELSE at[q]
  BY <1>0 DEF PassTypeOK, Goto, Steps
<1>4. PassTypeOK'
  BY <1>0, <1>2, <1>3 DEF PassTypeOK, Steps
<1>5. ProcInv'
  BY <1>0, <1>1, <1>3 DEF ProcInv
<1>6. OwnKeyInv'
  <2>1. \A q \in Procs : Created(q) => Created(q)'
    BY <1>3 DEF Created
  <2>2. Created(p)'
    BY <1>3 DEF Created
  <2>3. \A q \in Procs : wrapped'.key = FreshKey(q) => q = p
    BY <1>1, <1>2, FreshKeysDiffer, PassphraseAssumption
  <2>. QED
    BY <1>0, <2>1, <2>2, <2>3 DEF OwnKeyInv
<1>7. SoleStoreInv'
  <2>. SUFFICES ASSUME Unforced' PROVE SoleStoreInv'
    BY DEF SoleStoreInv
  <2>1. Unforced /\ wrapped = None
    BY DEF Unforced, Forced
  <2>2. synced = None
    BY <1>0, <2>1 DEF SoleStoreInv
  <2>3. \A q \in Procs : wrapped'.key = FreshKey(q) => q = p
    BY <1>1, <1>2, FreshKeysDiffer, PassphraseAssumption
  <2>4. ASSUME NEW q \in Procs, at'[q] = "done", Unlocks(q)'
        PROVE  powerLost' /\ key'[q] # FreshKey(q)
    <3>1. at[q] = "done" /\ Unlocks(q)
      BY <1>3, <2>4 DEF Unlocks
    <3>2. Wrap(key[q], pass[q]) # None
      BY <1>0, <3>1, WrapType DEF ProcInv, PassTypeOK
    <3>. QED
      BY <1>0, <2>1, <3>1, <3>2 DEF SoleStoreInv
  <2>. QED
    BY <1>3, <2>2, <2>3, <2>4 DEF SoleStoreInv
<1>. QED
  BY <1>4, <1>5, <1>6, <1>7 DEF StoreInv

LEMMA CreateInv ==
    ASSUME StoreInv, NEW p \in Procs, Create(p)
    PROVE  StoreInv'
<1>1. CASE wrapped = None
  BY <1>1, StoreMade DEF Create
<1>2. CASE wrapped # None
  <2>1. at[p] = "create" /\ ~Created(p)
    BY DEF Create, Created
  <2>2. wrapped.key # FreshKey(p)
    BY <1>2, <2>1 DEF StoreInv, OwnKeyInv
  <2>. QED
    BY <1>2, <2>1, <2>2, ReadingStep DEF Create, Keep, Steps, Keyring, disk
<1>. QED
  BY <1>1, <1>2

LEMMA ImportInv ==
    ASSUME StoreInv, NEW p \in Procs, Import(p)
    PROVE  StoreInv'
<1>1. CASE wrapped = None \/ Forced(p)
  BY <1>1, StoreMade DEF Import
<1>2. CASE wrapped # None /\ ~Forced(p)
  BY <1>2, ReadingStep DEF Import, Fail, Keep, Steps, Keyring, disk
<1>. QED
  BY <1>1, <1>2

LEMMA SyncInv ==
    ASSUME StoreInv, NEW p \in Procs, SyncParentDir(p)
    PROVE  StoreInv'
<1>0. /\ PassTypeOK /\ ProcInv /\ OwnKeyInv /\ SoleStoreInv
      /\ at[p] = "sync" /\ synced' = wrapped
      /\ UNCHANGED <<wrapped, powerLost, op, pass>>
  BY DEF StoreInv, SyncParentDir
<1>1. PICK label \in {"get_again", "done"}, k \in Keyring :
        /\ Goto(p, label) /\ key' = [key EXCEPT ![p] = k]
        /\ label = "done" => ~Unlocks(p) /\ k # None
  <2>1. key[p] \in Keyring /\ key[p] # None
    BY <1>0, PassphraseAssumption DEF PassTypeOK, ProcInv, Keyring
  <2>. QED
    BY <2>1 DEF SyncParentDir, Succeed, Keep, Keyring
<1>2. /\ at' \in [Procs -> Steps]
      /\ key' \in [Procs -> Keyring]
      /\ \A q \in Procs : /\ at'[q] = IF q = p THEN label ELSE at[q]
                          /\ key'[q] = IF q = p THEN k ELSE key[q]
  <2>1. label \in Steps
    BY DEF Steps
  <2>2. Moved(p, label, k)
    BY <1>0, <1>1, <2>1, ProcMoves
  <2>. QED
    BY <2>2 DEF Moved
<1>3. PassTypeOK' /\ ProcInv'
  BY <1>0, <1>1, <1>2 DEF PassTypeOK, ProcInv, Steps, Keyring
<1>4. OwnKeyInv'
  <2>1. \A q \in Procs : Created(q) => Created(q)'
    BY <1>2 DEF Created
  <2>. QED
    BY <1>0, <2>1 DEF OwnKeyInv
<1>5. SoleStoreInv'
  BY <1>0, <1>1, <1>2 DEF SoleStoreInv, Unforced, Unlocks
<1>. QED
  BY <1>3, <1>4, <1>5 DEF StoreInv

LEMMA KilledInv ==
    ASSUME StoreInv, NEW p \in Procs, Killed(p)
    PROVE  StoreInv'
BY ReadingStep DEF Killed, Running, Fail, Keep, Steps, Keyring

LEMMA PowerLossInv ==
    ASSUME StoreInv, PowerLoss
    PROVE  StoreInv'
<1>0. /\ PassTypeOK /\ ProcInv /\ OwnKeyInv /\ SoleStoreInv
      /\ powerLost' = TRUE /\ wrapped' \in {wrapped, synced} /\ synced' = wrapped'
      /\ UNCHANGED <<op, pass>>
  BY DEF StoreInv, PowerLoss
<1>1. /\ at' \in [Procs -> Steps]
      /\ \A q \in Procs : at'[q] = IF at[q] \in {"idle", "done", "failed"}
                                   THEN at[q] ELSE "failed"
  BY <1>0 DEF PassTypeOK, PowerLoss, Running, Steps
<1>2. /\ key' \in [Procs -> Keyring]
      /\ \A q \in Procs : at'[q] = "done" => key'[q] = key[q]
  BY <1>0, <1>1 DEF PassTypeOK, PowerLoss, Running, Keyring
<1>3. PassTypeOK' /\ ProcInv'
  BY <1>0, <1>1, <1>2 DEF PassTypeOK, ProcInv, Steps, Keyring
<1>4. OwnKeyInv'
  <2>1. \A q \in Procs : Created(q) => Created(q)'
    BY <1>1 DEF Created
  <2>. QED
    BY <1>0, <2>1 DEF OwnKeyInv
<1>5. SoleStoreInv'
  BY <1>0, <1>1, <1>2 DEF SoleStoreInv, Unforced, Unlocks
<1>. QED
  BY <1>3, <1>4, <1>5 DEF StoreInv

\* The steps of AgentStart, as the store sees them.
StoreNext ==
    \/ \E p \in Procs :
        \/ \E o \in Ops, s \in Passphrases : Begin(p, o, s)
        \/ Operate(p)
        \/ Killed(p)
    \/ PowerLoss

LEMMA StartIsStoreStep == [StartNext]_startVars => [StoreNext]_passVars
<1>. SUFFICES ASSUME [StartNext]_startVars PROVE [StoreNext]_passVars
  OBVIOUS
<1>1. ASSUME NEW p \in Procs, Command(p) \/ StartUnlocking(p)
      PROVE  StoreNext
  BY <1>1 DEF Command, StartUnlocking, StoreOps, Ops, StoreNext
<1>2. ASSUME NEW p \in Procs, StoreStep(p) \/ Kill(p)
      PROVE  [StoreNext]_passVars
  BY <1>2 DEF StoreStep, Kill, StoreNext
<1>3. ASSUME NEW p \in Procs, BindSocket(p) \/ SocketStep(p)
      PROVE  UNCHANGED passVars
  BY <1>3 DEF BindSocket, SocketStep
<1>. QED
  BY <1>1, <1>2, <1>3 DEF StartNext, Outage, StoreNext, startVars

LEMMA StoreStepInv == StoreInv /\ [StoreNext]_passVars => StoreInv'
<1>. SUFFICES ASSUME StoreInv, [StoreNext]_passVars PROVE StoreInv'
  OBVIOUS
<1>1. ASSUME NEW p \in Procs, Operate(p)
      PROVE  StoreInv'
  BY <1>1, GetInv, CreateInv, GetAgainInv, ImportInv, SyncInv DEF Operate
<1>2. CASE UNCHANGED passVars
  BY <1>2 DEF passVars, disk, procs, StoreInv, PassTypeOK, ProcInv, OwnKeyInv,
              SoleStoreInv, Unforced, Unlocks, Created
<1>. QED
  BY <1>1, <1>2, BeginInv, KilledInv, PowerLossInv DEF StoreNext

LEMMA StoreInvHolds == StartSpec => []StoreInv
<1>1. StartInit => StoreInv
  BY StoreInitially DEF StartInit
<1>2. StoreInv /\ [StartNext]_startVars => StoreInv'
  BY StartIsStoreStep, StoreStepInv
<1>. QED
  BY <1>1, <1>2, PTL DEF StartSpec

-----------------------------------------------------------------------------
(* The passphrase store: theorems *)

\* Unless an import is forced, whoever unlocks the passphrase store has the key
\* the file wraps under the passphrase it typed, any number of processes
\* creating it at once, killed anywhere, with any passphrases; after a power
\* loss that may fail only for a key somebody else made.
THEOREM OneKeyUnderPassphrase == StartSpec => []OneWrappedKey
<1>1. StoreInv => OneWrappedKey
  BY DEF StoreInv, SoleStoreInv, Unforced, OneWrappedKey
<1>. QED
  BY <1>1, StoreInvHolds, PTL

\* What WrongPassphraseReplacesNothing says of a step.
ReplaceStep ==
    (wrapped # None /\ wrapped' # wrapped) =>
        \/ \E p \in Procs : /\ Forced(p) /\ at[p] = "import"
                            /\ wrapped' = Wrap(ImportedKey, pass[p])
        \/ powerLost' /\ synced' = synced /\ wrapped' = synced

LEMMA ReplaceStepInv == StoreInv /\ [StoreNext]_passVars => [ReplaceStep]_passVars
<1>. SUFFICES ASSUME StoreInv, StoreNext, wrapped # None, wrapped' # wrapped
              PROVE  ReplaceStep
  BY DEF ReplaceStep
<1>1. ASSUME NEW p \in Procs, Import(p)
      PROVE  ReplaceStep
  <2>1. Forced(p) /\ at[p] = "import" /\ wrapped' = Wrap(key[p], pass[p])
    BY <1>1 DEF Import
  <2>2. key[p] = ImportedKey
    BY <2>1 DEF StoreInv, ProcInv
  <2>. QED
    BY <2>1, <2>2 DEF ReplaceStep
<1>2. ASSUME NEW p \in Procs,
             Get(p) \/ Create(p) \/ GetAgain(p) \/ SyncParentDir(p) \/ Killed(p)
      PROVE  FALSE
  BY <1>2 DEF Get, Create, GetAgain, SyncParentDir, Killed, disk
<1>3. ASSUME NEW p \in Procs, NEW o \in Ops, NEW s \in Passphrases, Begin(p, o, s)
      PROVE  FALSE
  BY <1>3 DEF Begin, disk
<1>4. CASE PowerLoss
  BY <1>4 DEF PowerLoss, ReplaceStep
<1>. QED
  BY <1>1, <1>2, <1>3, <1>4 DEF StoreNext, Operate

\* A store file that is there is replaced only by a forced import, with the
\* imported key, or rolled back by a power loss to what was synced: in
\* particular never by get_or_create after a wrong passphrase, nor by a racing
\* creation.
THEOREM NothingElseReplaces == StartSpec => WrongPassphraseReplacesNothing
<1>1. StoreInv /\ [StartNext]_startVars => [ReplaceStep]_passVars
  BY StartIsStoreStep, ReplaceStepInv
<1>2. StartSpec => [][ReplaceStep]_passVars
  BY <1>1, StoreInvHolds, PTL DEF StartSpec
<1>. QED
  BY <1>2 DEF WrongPassphraseReplacesNothing, ReplaceStep

-----------------------------------------------------------------------------
(* The socket path: the inductive invariant *)

\* Past validate_agent_runtime_directory the directory is private, as it stays.
PrivateInv ==
    /\ path # NoFile => dir = "private"
    /\ \A a \in Agents : sat[a] \in {"stat", "probe", "remove", "bind", "listen",
                                     "chmod", "serving"} => dir = "private"

\* Whoever answered when agent b found a stale socket has not got the path, and
\* will not bind again.
ProbeInv ==
    \A b \in Agents : sat[b] = "remove" =>
        \A a \in answering[b] : /\ path # a
                                /\ sat[a] \in {"chmod", "serving", "failed"}

SocketInv == SocketTypeOK /\ PrivateInv /\ ProbeInv

SocketSteps == {"off", "dir", "mkdir", "secure", "validate", "stat", "probe",
                "remove", "bind", "listen", "chmod", "serving", "failed"}

-----------------------------------------------------------------------------
(* The socket path: the steps *)

LEMMA SocketInitially == SocketInit => SocketInv
BY DEF SocketInit, SocketInv, SocketTypeOK, PrivateInv, ProbeInv

\* Agent a moves to `label`.
LEMMA AgentMoves ==
    ASSUME SocketTypeOK, NEW a \in Agents, NEW label \in SocketSteps,
           GotoS(a, label)
    PROVE  /\ sat' \in [Agents -> SocketSteps]
           /\ \A b \in Agents : sat'[b] = IF b = a THEN label ELSE sat[b]
BY DEF SocketTypeOK, GotoS, SocketSteps

\* A step before listen(2) that touches neither the path nor a probe's result.
LEMMA QuietStep ==
    ASSUME SocketInv, NEW a \in Agents,
           NEW label \in {"mkdir", "secure", "validate", "stat", "probe", "bind",
                          "failed", "dir"},
           GotoS(a, label),
           sat[a] \in {"off", "dir", "mkdir", "secure", "validate", "stat", "probe",
                       "remove", "bind"},
           UNCHANGED <<path, listening, answering>>,
           dir' \in {"missing", "open", "private"},
           dir = "private" => dir' = "private",
           label \in {"stat", "probe", "bind"} => dir' = "private"
    PROVE  SocketInv'
<1>1. /\ sat' \in [Agents -> SocketSteps]
      /\ \A b \in Agents : sat'[b] = IF b = a THEN label ELSE sat[b]
  BY AgentMoves DEF SocketInv, SocketSteps
<1>2. SocketTypeOK'
  BY <1>1 DEF SocketInv, SocketTypeOK, SocketSteps
<1>3. PrivateInv'
  BY <1>1 DEF SocketInv, PrivateInv
<1>4. ProbeInv'
  <2>1. \A b \in Agents : sat'[b] = "remove" => sat[b] = "remove"
    BY <1>1
  <2>2. \A b \in Agents : answering[b] \subseteq Agents
    BY DEF SocketInv, SocketTypeOK
  <2>3. \A b \in Agents : sat[b] \in {"chmod", "serving", "failed"} => sat'[b] = sat[b]
    BY <1>1
  <2>. QED
    BY <2>1, <2>2, <2>3 DEF SocketInv, ProbeInv
<1>. QED
  BY <1>2, <1>3, <1>4 DEF SocketInv

LEMMA ProbeStepInv ==
    ASSUME SocketInv, NEW a \in Agents, Probe(a)
    PROVE  SocketInv'
<1>. DEFINE label == IF path \in listening THEN "failed" ELSE "remove"
<1>1. /\ sat' \in [Agents -> SocketSteps]
      /\ \A b \in Agents : sat'[b] = IF b = a THEN label ELSE sat[b]
  BY AgentMoves DEF SocketInv, SocketSteps, Probe
<1>2. /\ label \in {"failed", "remove"}
      /\ label = "remove" => path \notin listening
      /\ sat[a] = "probe"
  BY DEF Probe
<1>. HIDE DEF label
<1>3. /\ answering' \in [Agents -> SUBSET Agents]
      /\ \A b \in Agents : answering'[b] = IF b = a THEN listening ELSE answering[b]
      /\ listening = {b \in Agents : sat[b] \in {"chmod", "serving"}}
  BY DEF SocketInv, SocketTypeOK, Probe
<1>4. UNCHANGED <<dir, path, listening>>
  BY DEF Probe
<1>5. SocketTypeOK'
  <2>1. listening' = {b \in Agents : sat'[b] \in {"chmod", "serving"}}
    BY <1>1, <1>2, <1>3, <1>4
  <2>. QED
    BY <1>1, <1>3, <1>4, <2>1 DEF SocketInv, SocketTypeOK, SocketSteps
<1>6. PrivateInv'
  BY <1>1, <1>2, <1>4 DEF SocketInv, PrivateInv
<1>7. ProbeInv'
  <2>1. \A b \in Agents : sat[b] \in {"chmod", "serving", "failed"} => sat'[b] = sat[b]
    BY <1>1, <1>2
  <2>2. ASSUME NEW b \in Agents, sat'[b] = "remove", NEW c \in answering'[b]
        PROVE  path' # c /\ sat'[c] \in {"chmod", "serving", "failed"}
    <3>1. CASE b = a
      BY <1>1, <1>2, <1>3, <1>4, <2>1, <2>2, <3>1
    <3>2. CASE b # a
      <4>1. sat[b] = "remove" /\ c \in answering[b] /\ c \in Agents
        BY <1>1, <1>3, <2>2, <3>2
      <4>. QED
        BY <1>4, <2>1, <4>1 DEF SocketInv, ProbeInv
    <3>. QED
      BY <3>1, <3>2
  <2>. QED
    BY <2>2 DEF ProbeInv
<1>. QED
  BY <1>5, <1>6, <1>7 DEF SocketInv

LEMMA RemoveInv ==
    ASSUME SocketInv, NEW a \in Agents, Remove(a)
    PROVE  SocketInv'
<1>. DEFINE label == IF path = NoFile THEN "failed" ELSE "bind"
<1>1. /\ sat' \in [Agents -> SocketSteps]
      /\ \A b \in Agents : sat'[b] = IF b = a THEN label ELSE sat[b]
  BY AgentMoves DEF SocketInv, SocketSteps, Remove
<1>2. /\ label \in {"failed", "bind"} /\ sat[a] = "remove"
      /\ path' = NoFile /\ UNCHANGED <<dir, listening, answering>>
  BY DEF Remove
<1>. HIDE DEF label
<1>3. SocketTypeOK'
  BY <1>1, <1>2 DEF SocketInv, SocketTypeOK, SocketSteps
<1>4. PrivateInv'
  BY <1>1, <1>2 DEF SocketInv, PrivateInv
<1>5. ProbeInv'
  <2>1. \A b \in Agents : answering[b] \subseteq Agents
    BY DEF SocketInv, SocketTypeOK
  <2>2. \A b \in Agents : sat[b] \in {"chmod", "serving", "failed"} => sat'[b] = sat[b]
    BY <1>1, <1>2
  <2>3. \A c \in Agents : path' # c
    BY <1>2, SocketAssumption
  <2>4. \A b \in Agents : sat'[b] = "remove" => sat[b] = "remove"
    BY <1>1, <1>2
  <2>. QED
    BY <1>2, <2>1, <2>2, <2>3, <2>4 DEF SocketInv, ProbeInv
<1>. QED
  BY <1>3, <1>4, <1>5 DEF SocketInv

LEMMA BindInv ==
    ASSUME SocketInv, NEW a \in Agents, Bind(a)
    PROVE  SocketInv'
<1>1. CASE path # NoFile
  BY <1>1, QuietStep DEF Bind, SocketInv, SocketTypeOK
<1>2. CASE path = NoFile
  <2>0. /\ sat[a] = "bind" /\ GotoS(a, "listen") /\ path' = a
        /\ UNCHANGED <<dir, listening, answering>>
    BY <1>2 DEF Bind
  <2>1. /\ sat' \in [Agents -> SocketSteps]
        /\ \A b \in Agents : sat'[b] = IF b = a THEN "listen" ELSE sat[b]
    BY <2>0, AgentMoves DEF SocketInv, SocketSteps
  <2>2. SocketTypeOK'
    BY <2>0, <2>1 DEF SocketInv, SocketTypeOK, SocketSteps
  <2>3. PrivateInv'
    BY <2>0, <2>1 DEF SocketInv, PrivateInv
  <2>4. ProbeInv'
    <3>1. \A b \in Agents : answering[b] \subseteq Agents
      BY DEF SocketInv, SocketTypeOK
    <3>2. \A b \in Agents : sat[b] \in {"chmod", "serving", "failed"} =>
                                sat'[b] = sat[b] /\ b # a
      BY <2>0, <2>1
    <3>3. \A b \in Agents : sat'[b] = "remove" => sat[b] = "remove"
      BY <2>0, <2>1
    <3>. QED
      BY <2>0, <3>1, <3>2, <3>3 DEF SocketInv, ProbeInv
  <2>. QED
    BY <2>2, <2>3, <2>4 DEF SocketInv
<1>. QED
  BY <1>1, <1>2

\* The steps from listen(2) on, and the end of agents.
LEMMA ServingStep ==
    ASSUME SocketInv, sat' \in [Agents -> SocketSteps],
           \A b \in Agents :
              \/ sat'[b] = sat[b]
              \/ sat'[b] = "failed"
              \/ sat[b] = "listen" /\ sat'[b] = "chmod"
              \/ sat[b] = "chmod" /\ sat'[b] = "serving",
           listening' = {b \in Agents : sat'[b] \in {"chmod", "serving"}},
           UNCHANGED <<dir, path, answering>>
    PROVE  SocketInv'
<1>1. SocketTypeOK'
  BY DEF SocketInv, SocketTypeOK, SocketSteps
<1>2. PrivateInv'
  BY DEF SocketInv, PrivateInv
<1>3. ProbeInv'
  <2>1. \A b \in Agents : answering[b] \subseteq Agents
    BY DEF SocketInv, SocketTypeOK
  <2>2. \A b \in Agents : sat[b] \in {"chmod", "serving", "failed"} =>
                              sat'[b] \in {"chmod", "serving", "failed"}
    OBVIOUS
  <2>3. \A b \in Agents : sat'[b] = "remove" => sat[b] = "remove"
    OBVIOUS
  <2>. QED
    BY <2>1, <2>2, <2>3 DEF SocketInv, ProbeInv
<1>. QED
  BY <1>1, <1>2, <1>3 DEF SocketInv

LEMMA ListenInv ==
    ASSUME SocketInv, NEW a \in Agents, Listen(a)
    PROVE  SocketInv'
<1>1. /\ sat' \in [Agents -> SocketSteps]
      /\ \A b \in Agents : sat'[b] = IF b = a THEN "chmod" ELSE sat[b]
  BY AgentMoves DEF SocketInv, SocketSteps, Listen
<1>2. listening' = {b \in Agents : sat'[b] \in {"chmod", "serving"}}
  BY <1>1 DEF SocketInv, SocketTypeOK, Listen
<1>. QED
  BY <1>1, <1>2, ServingStep DEF Listen

LEMMA ChmodInv ==
    ASSUME SocketInv, NEW a \in Agents, Chmod(a)
    PROVE  SocketInv'
<1>1. PICK label \in {"serving", "failed"} :
        /\ GotoS(a, label)
        /\ listening' = IF label = "serving" THEN listening ELSE listening \ {a}
  BY DEF Chmod
<1>2. /\ sat' \in [Agents -> SocketSteps]
      /\ \A b \in Agents : sat'[b] = IF b = a THEN label ELSE sat[b]
  BY <1>1, AgentMoves DEF SocketInv, SocketSteps
<1>3. sat[a] = "chmod" /\ UNCHANGED <<dir, path, answering>>
  BY DEF Chmod
<1>4. listening' = {b \in Agents : sat'[b] \in {"chmod", "serving"}}
  BY <1>1, <1>2, <1>3 DEF SocketInv, SocketTypeOK
<1>. QED
  BY <1>2, <1>3, <1>4, ServingStep

LEMMA AgentsEndInv ==
    ASSUME SocketInv, NEW A \in SUBSET Agents, AgentsEnd(A)
    PROVE  SocketInv'
<1>1. /\ sat' \in [Agents -> SocketSteps]
      /\ \A b \in Agents : sat'[b] = IF b \in A /\ sat[b] # "off" THEN "failed"
                                     ELSE sat[b]
  BY DEF SocketInv, SocketTypeOK, AgentsEnd, SocketSteps
<1>2. listening' = {b \in Agents : sat'[b] \in {"chmod", "serving"}}
  BY <1>1 DEF SocketInv, SocketTypeOK, AgentsEnd
<1>. QED
  BY <1>1, <1>2, ServingStep DEF AgentsEnd

\* The steps of AgentStart, as the socket path sees them.
SocketNext ==
    \/ \E a \in Agents :
        \/ sat[a] = "off" /\ GotoS(a, "dir") /\ UNCHANGED <<dir, path, listening, answering>>
        \/ Opening(a)
    \/ \E A \in SUBSET Agents : AgentsEnd(A)

LEMMA StartIsSocketStep == [StartNext]_startVars => [SocketNext]_socketVars
<1>. SUFFICES ASSUME [StartNext]_startVars PROVE [SocketNext]_socketVars
  OBVIOUS
<1>1. ASSUME NEW p \in Procs, BindSocket(p) \/ SocketStep(p)
      PROVE  SocketNext
  BY <1>1, OneSetOfProcesses DEF BindSocket, SocketStep, SocketNext
<1>2. ASSUME NEW p \in Procs, Command(p) \/ StartUnlocking(p) \/ StoreStep(p)
      PROVE  UNCHANGED socketVars
  BY <1>2 DEF Command, StartUnlocking, StoreStep
<1>3. ASSUME NEW p \in Procs, Kill(p)
      PROVE  [SocketNext]_socketVars
  <2>1. {p} \in SUBSET Agents
    BY OneSetOfProcesses
  <2>. QED
    BY <1>3, <2>1 DEF Kill, SocketNext
<1>4. Outage => SocketNext
  <2>1. Agents \in SUBSET Agents
    OBVIOUS
  <2>. QED
    BY <2>1 DEF Outage, SocketNext
<1>. QED
  BY <1>1, <1>2, <1>3, <1>4 DEF StartNext, startVars

LEMMA SocketStepInv == SocketInv /\ [SocketNext]_socketVars => SocketInv'
<1>. SUFFICES ASSUME SocketInv, [SocketNext]_socketVars PROVE SocketInv'
  OBVIOUS
<1>0. SocketTypeOK /\ PrivateInv
  BY DEF SocketInv
<1>1. CASE UNCHANGED socketVars
  BY <1>1 DEF socketVars, SocketInv, SocketTypeOK, PrivateInv, ProbeInv
<1>2. ASSUME NEW a \in Agents, sat[a] = "off", GotoS(a, "dir"),
             UNCHANGED <<dir, path, listening, answering>>
      PROVE  SocketInv'
  BY <1>0, <1>2, QuietStep DEF SocketTypeOK
<1>3. ASSUME NEW a \in Agents,
             CheckDir(a) \/ MakeDir(a) \/ SecureDir(a) \/ ValidateDir(a)
      PROVE  SocketInv'
  BY <1>0, <1>3, QuietStep
     DEF SocketTypeOK, CheckDir, MakeDir, SecureDir, ValidateDir
<1>4. ASSUME NEW a \in Agents, Stat(a)
      PROVE  SocketInv'
  <2>1. PICK label \in {"bind", "failed", "probe"} : GotoS(a, label)
    BY <1>4 DEF Stat
  <2>2. dir = "private" /\ sat[a] = "stat" /\ UNCHANGED <<dir, path, listening, answering>>
    BY <1>0, <1>4 DEF Stat, PrivateInv
  <2>. QED
    BY <1>0, <2>1, <2>2, QuietStep DEF SocketTypeOK
<1>5. ASSUME NEW a \in Agents, Opening(a)
      PROVE  SocketInv'
  BY <1>3, <1>4, <1>5, ProbeStepInv, RemoveInv, BindInv, ListenInv, ChmodInv DEF Opening
<1>. QED
  BY <1>1, <1>2, <1>5, AgentsEndInv DEF SocketNext

LEMMA SocketInvHolds == StartSpec => []SocketInv
<1>1. StartInit => SocketInv
  BY SocketInitially DEF StartInit
<1>2. SocketInv /\ [StartNext]_startVars => SocketInv'
  BY StartIsSocketStep, SocketStepInv
<1>. QED
  BY <1>1, <1>2, PTL DEF StartSpec

-----------------------------------------------------------------------------
(* The socket path: theorems *)

\* No agent makes its socket in a directory others can enter, any number of
\* agents racing to make, secure and check it, and dying in between
\* (ensure_agent_socket_parent, validate_agent_runtime_directory).
THEOREM SocketsArePrivate == StartSpec => []SocketDirIsPrivate
<1>1. SocketInv => SocketDirIsPrivate
  BY DEF SocketInv, PrivateInv, SocketDirIsPrivate
<1>. QED
  BY <1>1, SocketInvHolds, PTL

\* What LiveSocketIsNotRemoved says of a step.
UnseatStep ==
    \A a \in listening : (path = a /\ path' # a) =>
        \E b \in Agents : /\ sat[b] = "remove" /\ sat'[b] = "bind"
                          /\ a \notin answering[b]

LEMMA UnseatStepInv == SocketInv /\ [SocketNext]_socketVars => [UnseatStep]_socketVars
<1>. SUFFICES ASSUME SocketInv, SocketNext, NEW a \in listening, path = a, path' # a
              PROVE  \E b \in Agents : /\ sat[b] = "remove" /\ sat'[b] = "bind"
                                       /\ a \notin answering[b]
  BY DEF UnseatStep
<1>0. a \in Agents /\ path # NoFile
  BY SocketAssumption DEF SocketInv, SocketTypeOK
<1>1. PICK b \in Agents : Remove(b)
  <2>1. ASSUME NEW b \in Agents, Opening(b)
        PROVE  Remove(b)
    BY <1>0, <2>1 DEF Opening, CheckDir, MakeDir, SecureDir, ValidateDir, Stat, Probe,
                      Bind, Listen, Chmod
  <2>. QED
    BY <2>1 DEF SocketNext, AgentsEnd
<1>2. sat[b] = "remove" /\ sat'[b] = "bind"
  BY <1>0, <1>1 DEF Remove, GotoS, SocketInv, SocketTypeOK
<1>3. a \notin answering[b]
  BY <1>2 DEF SocketInv, ProbeInv
<1>. QED
  BY <1>2, <1>3

\* A listening agent loses its socket path only to an agent that had probed the
\* path before the first was listening: one that answered the probe is never
\* unseated, whatever stale sockets, removals and binds of other agents come
\* between (remove_stale_socket, "second_agent_refuses_live_socket").
THEOREM LiveSocketKept == StartSpec => LiveSocketIsNotRemoved
<1>1. SocketInv /\ [StartNext]_startVars => [UnseatStep]_socketVars
  BY StartIsSocketStep, UnseatStepInv
<1>2. StartSpec => [][UnseatStep]_socketVars
  BY <1>1, SocketInvHolds, PTL DEF StartSpec
<1>. QED
  BY <1>2 DEF LiveSocketIsNotRemoved, UnseatStep
=============================================================================
