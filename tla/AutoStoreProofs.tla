--------------------------- MODULE AutoStoreProofs ---------------------------
(***************************************************************************)
(* Proofs about AutoStore.  The two platforms share nothing but the file   *)
(* store and the shape of a command, so each has an inductive invariant of *)
(* its own: MacInv and LinuxInv.  Both say what a command holds at each of *)
(* its steps (a key it made, the file's, the imported one), and how the    *)
(* two stores are related while nobody forces an import.                   *)
(***************************************************************************)
EXTENDS AutoStore, TLAPS

-----------------------------------------------------------------------------
(* The invariants *)

\* macOS: what command p may hold, and knows of the stores, at step a with key k.
MacHolds(p, a, k) ==
    /\ a = "idle" => op[p] = None
    /\ a \in {"replace", "replace_both", "replace_file"} => Mac!Forced(p)
    /\ a \notin {"replace", "replace_both", "replace_file", "done", "failed"} =>
            ~Mac!Forced(p)
    /\ a = "create" => k = Mac!FreshKey(p)
    /\ a \in {"import", "replace", "replace_both", "replace_file"} => k \in ImportedKeys
    /\ a = "read_created" => keychain # None
    /\ a = "read_file" => file # None
    /\ a \in {"compare", "migrate", "recompare", "done"} => k # None
    /\ a = "replace_file" => keychain \in ImportedKeys
    /\ a = "replace" => file = None
    /\ a \in {"replace_both", "replace_file"} => file # None
    /\ (a = "done" /\ Mac!Forced(p)) =>
            keychain \in ImportedKeys /\ file \in {None} \union ImportedKeys

\* macOS, as long as nobody forces an import: a command that found a file works
\* with the file's key, one that found none stays clear of it, and one that is
\* done has a key that is stored.
MacQuiet(p, a, k) ==
    /\ a \in {"compare", "migrate", "recompare"} => k = file
    /\ a \in {"create", "import", "read", "read_created"} => file = None
    /\ a = "done" => k \in {file, keychain}

MacProcInv == \A p \in Procs : MacHolds(p, at[p], key[p])

MacQuietInv ==
    Mac!NobodyForces =>
        /\ (file # None /\ keychain # None) => file = keychain
        /\ \A p \in Procs : MacQuiet(p, at[p], key[p])

MacInv == Mac!MacTypeOK /\ MacProcInv /\ MacQuietInv

\* Linux: what command p may hold at step a with key k.
LinuxHolds(p, a, k) ==
    /\ a = "idle" => op[p] = None /\ k = None
    /\ a \in {"create_tpm", "get_created"} => k = FreshKey(p, "tpm")
    /\ a \in {"create_file", "sync_then_get"} => k = FreshKey(p, "file")
    /\ a \in {"import_tpm", "force_tpm", "import_file", "sync_then_file"} =>
            k \in ImportedKeys
    /\ a \in {"force_tpm", "sync_then_file"} => Forced(p)
    /\ a \in {"compare", "migrate", "recheck", "sync", "done"} => k # None
    /\ a = "read_file" => file # None
    /\ a = "get_created" => tpm # None

LinuxProcInv == \A p \in Procs : LinuxHolds(p, at[p], key[p])

\* Linux: what is on disk is what the directory shows, or a forced import has
\* put the new key over it.
OnDisk(shown, disk) ==
    disk # None => shown = disk \/ (shown \in ImportedKeys /\ ~NobodyForces)

SyncedInv == OnDisk(file, synced.file) /\ OnDisk(tpm, synced.tpm)

\* Linux, as long as nobody forces an import: where a command's key is, and that
\* one it made is in no store before it put it there nor after a failure to.
LinuxQuiet(p, a, k) ==
    /\ a \in {"compare", "migrate", "recheck", "sync_then_get"} => k = file
    /\ a = "sync" => k \in {file, tpm}
    /\ FreshKey(p, "file") \in {file, tpm, synced.file, synced.tpm} =>
            a \in {"sync_then_get", "get_file", "done", "failed"}
    /\ FreshKey(p, "tpm") \in {file, tpm, synced.file, synced.tpm} =>
            a \in {"sync", "done", "failed"}
    /\ (a = "get_file" /\ FreshKey(p, "file") \in {file, tpm, synced.file, synced.tpm}) =>
            file = FreshKey(p, "file") /\ synced.file = file
    /\ (a = "done" /\ k \in Fresh(p)) => k \in {synced.file, synced.tpm}
    /\ a = "done" => k \in {file, tpm} \/ powerLost
    /\ powerLost \/ k \in {None, file, tpm} \union ImportedKeys \union Fresh(p)

LinuxQuietInv == NobodyForces => \A p \in Procs : LinuxQuiet(p, at[p], key[p])

\* Linux with a TPM that is always there, as long as nobody forces: no command
\* falls back to the file, and only commands that found no file create blobs.
TpmOnly(a) ==
    /\ a \notin {"get_file", "create_file", "sync_then_get", "import_file"}
    /\ a \in {"check_tpm", "get_or_create", "create_tpm", "get_created", "import_tpm"} =>
            file = None

SteadyTpmInv ==
    NobodyForces =>
        /\ tpmMode = "down" => tpm = None /\ synced.tpm = None
        /\ tpmMode = "up" =>
            /\ synced.file = file
            /\ (file # None /\ tpm # None) => file = tpm
            /\ \A p \in Procs : TpmOnly(at[p])

\* Linux with a TPM that answers: a command that began on a half-done forced
\* import meets the new key in the TPM blob, and the file key never gets past it.
MeetsImport(a, k) ==
    /\ a \in {"read_file", "compare", "force_tpm", "sync_then_file", "import_file",
              "sync", "done", "failed"}
    /\ a \in {"sync", "done"} => k \in ImportedKeys

SplitInv ==
    (tpmMode = "up" /\ ~powerLost) =>
        \A p \in split : tpm \in ImportedKeys /\ MeetsImport(at[p], key[p])

LinuxLabels ==
    {"idle", "check_tpm", "get_tpm", "get_or_create", "create_tpm", "get_created",
     "get_file", "create_file", "read_file", "compare", "migrate", "recheck",
     "import_tpm", "force_tpm", "import_file", "sync", "sync_then_get",
     "sync_then_file", "done", "failed"}

LinuxTypes ==
    /\ tpmMode \in TpmModes
    /\ file \in AllKeys \union {None}
    /\ tpm \in AllKeys \union {None}
    /\ synced \in [file: AllKeys \union {None}, tpm: AllKeys \union {None}]
    /\ powerLost \in BOOLEAN
    /\ op \in [Procs -> Ops \union {None}]
    /\ key \in [Procs -> AllKeys \union {None}]
    /\ at \in [Procs -> LinuxLabels]
    /\ split \subseteq Procs

LinuxInv ==
    /\ LinuxTypes /\ LinuxProcInv /\ SyncedInv
    /\ LinuxQuietInv /\ SteadyTpmInv /\ SplitInv

\* Linux: a TPM that is never there has no blob; with one that always is nobody
\* makes a file key, but for a forced import over one that is there.
FallbackInv ==
    /\ tpmMode = "down" => tpm = None /\ synced.tpm = None
    /\ tpmMode = "up" => \A p \in Procs :
            /\ at[p] \notin {"get_file", "create_file", "sync_then_get"}
            /\ at[p] \in {"force_tpm", "sync_then_file", "import_file"} => file # None
            /\ at[p] = "import_tpm" => file = None

\* What a forced import without a rival has written of its key k at step a, and that
\* it is there: on macOS, and on Linux with a TPM that is always there or never.
MacAlone(a, k) ==
    /\ a \in {"replace", "replace_both", "replace_file", "done"}
    /\ a \in {"replace_file", "done"} => keychain = k
    /\ a = "done" => file \in {None, k}

LinuxAlone(a, k) ==
    /\ a \in {"import_tpm", "force_tpm", "sync_then_file", "import_file", "sync", "done"}
    /\ tpmMode = "up" =>
        /\ a \in {"sync_then_file", "import_file", "sync", "done"} => tpm = k
        /\ a \in {"sync", "done"} => file \in {None, k}
        /\ a = "done" => synced.tpm = k /\ synced.file \in {None, k}
    /\ tpmMode = "down" =>
        /\ a \in {"sync", "done"} => file = k
        /\ a = "done" => synced.file = k

AloneInv ==
    \A p \in alone :
        /\ p \in Procs /\ Forced(p) /\ Rivals(p) = {} /\ key[p] \in ImportedKeys
        /\ platform = "macos" => MacAlone(at[p], key[p])
        /\ platform = "linux" => LinuxAlone(at[p], key[p])

AutoInv ==
    /\ platform \in {"linux", "macos"}
    /\ split \subseteq Procs
    /\ platform = "linux" => LinuxInv /\ FallbackInv /\ keychain = None
    /\ platform = "macos" => MacInv /\ tpm = None
    /\ AloneInv

-----------------------------------------------------------------------------
(* macOS *)

MacLabels ==
    {"idle", "read_file", "compare", "migrate", "recompare", "read", "create",
     "read_created", "import", "replace", "replace_both", "replace_file", "done",
     "failed"}

\* What the constants are, as the macOS proofs use it.
LEMMA MacConstants ==
    /\ OldKey # None /\ OldKey \notin ImportedKeys /\ None \notin ImportedKeys
    /\ Ops \subseteq AnyOp /\ None \notin AnyOp
    /\ \A p \in Procs : Mac!FreshKey(p) \notin {OldKey, None} \union ImportedKeys
  BY StoreAssumption, KeychainAssumption

\* The invariant holds of a fresh or an existing install.
LEMMA MacInitInv ==
    ASSUME AutoInit, platform = "macos"
    PROVE  MacInv
<1>1. /\ file \in {None, OldKey} /\ keychain \in {None, OldKey}
      /\ op = [p \in Procs |-> None]
      /\ at = [p \in Procs |-> "idle"]
      /\ key = [p \in Procs |-> None]
  BY DEF AutoInit, Mac!MacInit
<1>2. Mac!MacTypeOK
  BY <1>1, MacConstants DEF Mac!MacTypeOK, Mac!AllKeys
<1>3. MacProcInv
  BY <1>1, MacConstants DEF MacProcInv, MacHolds, Mac!Forced, AnyOp
<1>4. MacQuietInv
  BY <1>1, MacConstants DEF MacQuietInv, MacQuiet
<1>5. QED
  BY <1>2, <1>3, <1>4 DEF MacInv

\* A step of p that writes no store: it is enough to look at what p holds after.
LEMMA MacReadOnlyStep ==
    ASSUME MacInv, NEW p \in Procs, NEW l \in MacLabels,
           NEW k \in Mac!AllKeys \union {None},
           at' = [at EXCEPT ![p] = l], key' = [key EXCEPT ![p] = k],
           UNCHANGED <<file, keychain, op>>,
           MacHolds(p, l, k),
           Mac!NobodyForces => MacQuiet(p, l, k)
    PROVE  MacInv'
<1>1. \A q \in Procs : /\ at'[q] = IF q = p THEN l ELSE at[q]
                       /\ key'[q] = IF q = p THEN k ELSE key[q]
  BY DEF MacInv, Mac!MacTypeOK
<1>2. Mac!MacTypeOK'
  BY <1>1 DEF MacInv, Mac!MacTypeOK, MacLabels, MacHolds, Mac!AllKeys
<1>3. MacProcInv'
  <2>1. \A q \in Procs : MacHolds(q, at'[q], key'[q])
    BY <1>1 DEF MacInv, MacProcInv
  <2>2. QED
    BY <2>1 DEF MacProcInv, MacHolds, Mac!Forced
<1>4. MacQuietInv'
  <2>1. Mac!NobodyForces => \A q \in Procs : MacQuiet(q, at'[q], key'[q])
    BY <1>1 DEF MacInv, MacQuietInv
  <2>2. QED
    BY <2>1 DEF MacInv, MacQuietInv, MacQuiet, Mac!NobodyForces
<1>5. QED
  BY <1>2, <1>3, <1>4 DEF MacInv

\* A step of p that puts k in the empty Keychain item, and is done.
LEMMA MacAddStep ==
    ASSUME MacInv, NEW p \in Procs, at[p] \in {"migrate", "create", "import"},
           keychain = None, keychain' = key[p],
           at' = [at EXCEPT ![p] = "done"], key' = [key EXCEPT ![p] = key[p]],
           UNCHANGED <<file, op>>
    PROVE  MacInv'
<1>1. \A q \in Procs : /\ at'[q] = IF q = p THEN "done" ELSE at[q]
                       /\ key'[q] = key[q]
  BY DEF MacInv, Mac!MacTypeOK
<1>2. key[p] # None /\ key[p] \in Mac!AllKeys /\ ~Mac!Forced(p)
  BY MacConstants DEF MacInv, MacProcInv, MacHolds, Mac!MacTypeOK
<1>3. Mac!MacTypeOK'
  BY <1>1, <1>2 DEF MacInv, Mac!MacTypeOK, Mac!AllKeys
<1>4. MacProcInv'
  BY <1>1, <1>2, MacConstants DEF MacInv, MacProcInv, MacHolds, Mac!Forced
<1>5. MacQuietInv'
  BY <1>1, <1>2 DEF MacInv, MacQuietInv, MacQuiet, MacProcInv, MacHolds, Mac!NobodyForces
<1>6. QED
  BY <1>3, <1>4, <1>5 DEF MacInv

\* Starting operation o: p goes to step l with key k.
LEMMA MacStartStep ==
    ASSUME MacInv, NEW p \in Procs, NEW o \in Ops, at[p] = "idle",
           NEW l \in {"read_file", "read", "import", "replace_both", "replace", "failed"},
           NEW k \in Mac!AllKeys \union {None},
           at' = [at EXCEPT ![p] = l], key' = [key EXCEPT ![p] = k],
           op' = [op EXCEPT ![p] = o],
           UNCHANGED <<file, keychain>>,
           l \in {"replace_both", "replace"} <=> Mac!Forced(p)',
           l = "read_file" => file # None,
           l \in {"read", "import", "replace"} => file = None,
           l = "replace_both" => file # None,
           l \in {"import", "replace_both", "replace"} => k \in ImportedKeys
    PROVE  MacInv'
<1>1. /\ op[p] = None
      /\ \A q \in Procs : /\ at'[q] = IF q = p THEN l ELSE at[q]
                          /\ key'[q] = IF q = p THEN k ELSE key[q]
                          /\ op'[q] = IF q = p THEN o ELSE op[q]
  <2>1. MacHolds(p, at[p], key[p])
    BY DEF MacInv, MacProcInv
  <2>2. op[p] = None
    BY <2>1 DEF MacHolds
  <2>3. QED
    BY <2>2 DEF MacInv, Mac!MacTypeOK
<1>2. Mac!MacTypeOK'
  BY <1>1 DEF MacInv, Mac!MacTypeOK, Mac!AllKeys
<1>3. MacProcInv'
  BY <1>1 DEF MacInv, MacProcInv, MacHolds, Mac!Forced
<1>4. MacQuietInv'
  <2>1. Mac!NobodyForces' => Mac!NobodyForces
    BY <1>1, MacConstants DEF Mac!NobodyForces, AnyOp
  <2>2. QED
    BY <1>1, <2>1 DEF MacInv, MacQuietInv, MacQuiet
<1>5. QED
  BY <1>2, <1>3, <1>4 DEF MacInv

LEMMA MacStart ==
    ASSUME MacInv, NEW p \in Procs, NEW o \in Ops, Mac!Start(p, o)
    PROVE  MacInv'
<1>0. Mac!Forced(p)' <=> o = "import_force"
  BY DEF MacInv, Mac!MacTypeOK, Mac!Start, Mac!Forced
<1>1. CASE o \in {"load", "load_or_create"}
  <2>1. key' = [key EXCEPT ![p] = key[p]] /\ key[p] \in Mac!AllKeys \union {None}
    BY <1>1 DEF MacInv, Mac!MacTypeOK, Mac!Start
  <2>2. CASE file # None
    <3>1. at' = [at EXCEPT ![p] = "read_file"]
      BY <1>0, <1>1, <2>2 DEF Mac!Start, Mac!Goto
    <3>2. QED
      BY <1>0, <1>1, <2>1, <2>2, <3>1, MacStartStep DEF Mac!Start
  <2>3. CASE file = None
    <3>1. at' = [at EXCEPT ![p] = "read"]
      BY <1>0, <1>1, <2>3 DEF Mac!Start, Mac!Goto
    <3>2. QED
      BY <1>0, <1>1, <2>1, <2>3, <3>1, MacStartStep DEF Mac!Start
  <2>4. QED
    BY <2>2, <2>3
<1>2. CASE o = "import" /\ file # None
  BY <1>0, <1>2, MacStartStep DEF Mac!Start, Mac!Fail, Mac!Goto, Mac!Keep
<1>3. CASE o = "import" /\ file = None
  <2>1. PICK k \in ImportedKeys : key' = [key EXCEPT ![p] = k] /\ k \in Mac!AllKeys
    BY <1>3 DEF Mac!Start, Mac!Keep, Mac!AllKeys
  <2>2. at' = [at EXCEPT ![p] = "import"]
    BY <1>3 DEF Mac!Start, Mac!Goto
  <2>3. QED
    BY <1>0, <1>3, <2>1, <2>2, MacStartStep DEF Mac!Start
<1>4. CASE o = "import_force"
  <2>1. PICK k \in ImportedKeys : key' = [key EXCEPT ![p] = k] /\ k \in Mac!AllKeys
    BY <1>4 DEF Mac!Start, Mac!Keep, Mac!AllKeys
  <2>2. CASE file # None
    <3>1. at' = [at EXCEPT ![p] = "replace_both"]
      BY <1>0, <1>4, <2>2 DEF Mac!Start, Mac!Goto
    <3>2. QED
      BY <1>0, <1>4, <2>1, <2>2, <3>1, MacStartStep DEF Mac!Start
  <2>3. CASE file = None
    <3>1. at' = [at EXCEPT ![p] = "replace"]
      BY <1>0, <1>4, <2>3 DEF Mac!Start, Mac!Goto
    <3>2. QED
      BY <1>0, <1>4, <2>1, <2>3, <3>1, MacStartStep DEF Mac!Start
  <2>4. QED
    BY <2>2, <2>3
<1>5. QED
  BY <1>1, <1>2, <1>3, <1>4 DEF Mac!Start

\* A step of p after which it has failed, or that goes on with its key.
LEMMA MacFailStep ==
    ASSUME MacInv, NEW p \in Procs, at[p] # "idle", Mac!Fail(p),
           UNCHANGED <<file, keychain, op>>
    PROVE  MacInv'
<1>1. MacHolds(p, "failed", None) /\ MacQuiet(p, "failed", None)
  BY DEF MacHolds, MacQuiet
<1>2. QED
  BY <1>1, MacReadOnlyStep DEF Mac!Fail, Mac!Goto, Mac!Keep, MacLabels

LEMMA MacGoOnStep ==
    ASSUME MacInv, NEW p \in Procs, NEW l \in MacLabels, Mac!Goto(p, l),
           UNCHANGED <<file, keychain, op, key>>,
           MacHolds(p, l, key[p]),
           Mac!NobodyForces => MacQuiet(p, l, key[p])
    PROVE  MacInv'
<1>1. key' = [key EXCEPT ![p] = key[p]] /\ key[p] \in Mac!AllKeys \union {None}
  BY DEF MacInv, Mac!MacTypeOK
<1>2. QED
  BY <1>1, MacReadOnlyStep DEF Mac!Goto

\* An existing file key: read, compared with the item, migrated.
LEMMA MacMigration ==
    ASSUME MacInv, NEW p \in Procs,
           Mac!ReadFile(p) \/ Mac!Compare(p) \/ Mac!Migrate(p) \/ Mac!Recompare(p)
    PROVE  MacInv'
<1> DEFINE k == key[p]
<1>1. /\ k \in Mac!AllKeys \union {None}
      /\ file \in Mac!AllKeys \union {None}
      /\ MacHolds(p, at[p], k)
      /\ Mac!NobodyForces => MacQuiet(p, at[p], k)
  BY DEF MacInv, Mac!MacTypeOK, MacProcInv, MacQuietInv
<1>2. CASE Mac!ReadFile(p)
  <2>1. MacHolds(p, "compare", file) /\ MacQuiet(p, "compare", file)
    BY <1>1, <1>2 DEF Mac!ReadFile, MacHolds, MacQuiet
  <2>2. QED
    BY <1>1, <1>2, <2>1, MacReadOnlyStep
    DEF Mac!ReadFile, Mac!ReadOnly, Mac!Goto, Mac!Keep, MacLabels
<1>3. ASSUME at[p] \in {"compare", "migrate", "recompare"},
             Mac!Succeed(p, k), UNCHANGED <<file, keychain, op>>
      PROVE  MacInv'
  <2>1. MacHolds(p, "done", k)
    BY <1>1, <1>3 DEF MacHolds
  <2>2. Mac!NobodyForces => MacQuiet(p, "done", k)
    BY <1>1, <1>3 DEF MacQuiet
  <2>3. QED
    BY <1>1, <1>3, <2>1, <2>2, MacReadOnlyStep DEF Mac!Succeed, Mac!Goto, Mac!Keep, MacLabels
<1>4. CASE Mac!Compare(p)
  <2>1. CASE Mac!Goto(p, "migrate") /\ UNCHANGED key
    <3>1. /\ MacHolds(p, "migrate", key[p])
          /\ Mac!NobodyForces => MacQuiet(p, "migrate", key[p])
      BY <1>1, <1>4 DEF Mac!Compare, MacHolds, MacQuiet
    <3>2. QED
      BY <1>4, <2>1, <3>1, MacGoOnStep DEF Mac!Compare, Mac!ReadOnly, MacLabels
  <2>2. CASE Mac!Succeed(p, key[p])
    BY <1>3, <1>4, <2>2 DEF Mac!Compare, Mac!ReadOnly
  <2>3. CASE Mac!Fail(p)
    BY <1>4, <2>3, MacFailStep DEF Mac!Compare, Mac!ReadOnly
  <2>4. QED
    BY <1>4, <2>1, <2>2, <2>3 DEF Mac!Compare
<1>5. CASE Mac!Migrate(p)
  <2>1. CASE keychain = None /\ keychain' = key[p] /\ Mac!Succeed(p, key[p])
    BY <1>5, <2>1, MacAddStep DEF Mac!Migrate, Mac!Succeed, Mac!Goto, Mac!Keep
  <2>2. CASE Mac!Goto(p, "recompare") /\ UNCHANGED <<key, keychain>>
    <3>1. /\ MacHolds(p, "recompare", key[p])
          /\ Mac!NobodyForces => MacQuiet(p, "recompare", key[p])
      BY <1>1, <1>5 DEF Mac!Migrate, MacHolds, MacQuiet
    <3>2. QED
      BY <1>5, <2>2, <3>1, MacGoOnStep DEF Mac!Migrate, MacLabels
  <2>3. CASE Mac!Succeed(p, key[p]) /\ UNCHANGED keychain
    BY <1>3, <1>5, <2>3 DEF Mac!Migrate
  <2>4. CASE Mac!Fail(p) /\ UNCHANGED keychain
    BY <1>5, <2>4, MacFailStep DEF Mac!Migrate
  <2>5. QED
    BY <1>5, <2>1, <2>2, <2>3, <2>4 DEF Mac!Migrate
<1>6. CASE Mac!Recompare(p)
  <2>1. CASE Mac!Succeed(p, key[p])
    BY <1>3, <1>6, <2>1 DEF Mac!Recompare, Mac!ReadOnly
  <2>2. CASE Mac!Fail(p)
    BY <1>6, <2>2, MacFailStep DEF Mac!Recompare, Mac!ReadOnly
  <2>3. QED
    BY <1>6, <2>1, <2>2 DEF Mac!Recompare
<1>7. QED
  BY <1>2, <1>4, <1>5, <1>6

\* No file key: the item is read, or created.
LEMMA MacFirstUse ==
    ASSUME MacInv, NEW p \in Procs,
           Mac!Read(p) \/ Mac!Create(p) \/ Mac!ReadCreated(p)
    PROVE  MacInv'
<1>1. /\ keychain \in Mac!AllKeys \union {None}
      /\ MacHolds(p, at[p], key[p])
      /\ Mac!NobodyForces => MacQuiet(p, at[p], key[p])
  BY DEF MacInv, Mac!MacTypeOK, MacProcInv, MacQuietInv
<1>2. ASSUME at[p] \in {"read", "read_created"}, keychain # None,
             Mac!Succeed(p, keychain), UNCHANGED <<file, keychain, op>>
      PROVE  MacInv'
  <2>1. MacHolds(p, "done", keychain)
    BY <1>1, <1>2 DEF MacHolds
  <2>2. Mac!NobodyForces => MacQuiet(p, "done", keychain)
    BY DEF MacQuiet
  <2>3. QED
    BY <1>1, <1>2, <2>1, <2>2, MacReadOnlyStep
    DEF Mac!Succeed, Mac!Goto, Mac!Keep, MacLabels
<1>3. CASE Mac!Read(p)
  <2>1. CASE keychain # None /\ Mac!Succeed(p, keychain)
    BY <1>2, <1>3, <2>1 DEF Mac!Read, Mac!ReadOnly
  <2>2. CASE Mac!Goto(p, "create") /\ Mac!Keep(p, Mac!FreshKey(p))
    <3>1. MacHolds(p, "create", Mac!FreshKey(p))
      BY <1>1, <1>3 DEF Mac!Read, MacHolds
    <3>2. Mac!NobodyForces => MacQuiet(p, "create", Mac!FreshKey(p))
      BY <1>1, <1>3 DEF Mac!Read, MacQuiet
    <3>3. QED
      BY <1>3, <2>2, <3>1, <3>2, MacReadOnlyStep
      DEF Mac!Read, Mac!ReadOnly, Mac!Goto, Mac!Keep, MacLabels, Mac!AllKeys
  <2>3. CASE Mac!Fail(p)
    BY <1>3, <2>3, MacFailStep DEF Mac!Read, Mac!ReadOnly
  <2>4. QED
    BY <1>3, <2>1, <2>2, <2>3 DEF Mac!Read
<1>4. CASE Mac!Create(p)
  <2>1. CASE keychain = None /\ keychain' = key[p] /\ Mac!Succeed(p, key[p])
    BY <1>4, <2>1, MacAddStep DEF Mac!Create, Mac!Succeed, Mac!Goto, Mac!Keep
  <2>2. CASE /\ keychain # None /\ Mac!Goto(p, "read_created")
             /\ Mac!Keep(p, None) /\ UNCHANGED keychain
    <3>1. MacHolds(p, "read_created", None)
      BY <1>1, <1>4, <2>2 DEF Mac!Create, MacHolds
    <3>2. Mac!NobodyForces => MacQuiet(p, "read_created", None)
      BY <1>1, <1>4 DEF Mac!Create, MacQuiet
    <3>3. QED
      BY <1>4, <2>2, <3>1, <3>2, MacReadOnlyStep
      DEF Mac!Create, Mac!Goto, Mac!Keep, MacLabels
  <2>3. CASE Mac!Fail(p) /\ UNCHANGED keychain
    BY <1>4, <2>3, MacFailStep DEF Mac!Create
  <2>4. QED
    BY <1>4, <2>1, <2>2, <2>3 DEF Mac!Create
<1>5. CASE Mac!ReadCreated(p)
  <2>1. keychain # None
    BY <1>1, <1>5 DEF Mac!ReadCreated, MacHolds
  <2>2. CASE Mac!Succeed(p, keychain)
    BY <1>2, <1>5, <2>1, <2>2 DEF Mac!ReadCreated, Mac!ReadOnly
  <2>3. CASE Mac!Fail(p)
    BY <1>5, <2>3, MacFailStep DEF Mac!ReadCreated, Mac!ReadOnly
  <2>4. QED
    BY <1>5, <2>2, <2>3 DEF Mac!ReadCreated
<1>6. QED
  BY <1>3, <1>4, <1>5

\* A forced import writes the item, or the file after it.
LEMMA MacForceStep ==
    ASSUME MacInv, NEW p \in Procs, NEW l \in {"replace_file", "done"},
           at' = [at EXCEPT ![p] = l], key' = key, op' = op,
           \/ at[p] \in {"replace", "replace_both"} /\ keychain' = key[p] /\ file' = file
           \/ at[p] = "replace_file" /\ keychain' = keychain /\ file' = key[p],
           at[p] = "replace_both" <=> l = "replace_file"
    PROVE  MacInv'
<1>1. \A q \in Procs : at'[q] = IF q = p THEN l ELSE at[q]
  BY DEF MacInv, Mac!MacTypeOK
<1>2. /\ key[p] \in ImportedKeys /\ Mac!Forced(p) /\ keychain' \in ImportedKeys
      /\ at[p] = "replace" => file = None
      /\ at[p] \in {"replace_both", "replace_file"} => file # None
  BY DEF MacInv, MacProcInv, MacHolds
<1>3. Mac!MacTypeOK'
  BY <1>1, <1>2, MacConstants DEF MacInv, Mac!MacTypeOK, Mac!AllKeys
<1>4. MacProcInv'
  BY <1>1, <1>2, MacConstants DEF MacInv, MacProcInv, MacHolds, Mac!Forced
<1>5. MacQuietInv'
  BY <1>2 DEF MacQuietInv, Mac!NobodyForces, Mac!Forced
<1>6. QED
  BY <1>3, <1>4, <1>5 DEF MacInv

LEMMA MacImport ==
    ASSUME MacInv, NEW p \in Procs,
           Mac!Import(p) \/ Mac!Replace(p) \/ Mac!ReplaceFile(p)
    PROVE  MacInv'
<1>1. CASE Mac!Import(p)
  <2>1. CASE keychain = None /\ keychain' = key[p] /\ Mac!Succeed(p, key[p])
    BY <1>1, <2>1, MacAddStep DEF Mac!Import, Mac!Succeed, Mac!Goto, Mac!Keep
  <2>2. CASE Mac!Fail(p) /\ UNCHANGED keychain
    BY <1>1, <2>2, MacFailStep DEF Mac!Import
  <2>3. QED
    BY <1>1, <2>1, <2>2 DEF Mac!Import
<1>2. key \in [Procs -> Mac!AllKeys \union {None}]
  BY DEF MacInv, Mac!MacTypeOK
<1>3. CASE Mac!Replace(p)
  <2>1. CASE at[p] = "replace" /\ keychain' = key[p] /\ Mac!Succeed(p, key[p])
    <3>1. key' = key
      BY <1>2, <2>1 DEF Mac!Succeed, Mac!Keep
    <3>2. QED
      BY <1>3, <2>1, <3>1, MacForceStep DEF Mac!Replace, Mac!Succeed, Mac!Goto
  <2>2. CASE at[p] = "replace_both" /\ keychain' = key[p]
             /\ Mac!Goto(p, "replace_file") /\ UNCHANGED key
    BY <1>3, <2>2, MacForceStep DEF Mac!Replace, Mac!Goto
  <2>3. CASE Mac!Fail(p) /\ UNCHANGED keychain
    BY <1>3, <2>3, MacFailStep DEF Mac!Replace
  <2>4. QED
    BY <1>3, <2>1, <2>2, <2>3 DEF Mac!Replace
<1>4. CASE Mac!ReplaceFile(p)
  <2>1. key' = key
    BY <1>2, <1>4 DEF Mac!ReplaceFile, Mac!Succeed, Mac!Keep
  <2>2. QED
    BY <1>4, <2>1, MacForceStep DEF Mac!ReplaceFile, Mac!Succeed, Mac!Goto
<1>5. QED
  BY <1>1, <1>3, <1>4

\* Every step of a macOS behaviour keeps the invariant.
LEMMA MacNextInv ==
    ASSUME MacInv, [Mac!MacNext]_(Mac!macVars)
    PROVE  MacInv'
<1>1. CASE UNCHANGED Mac!macVars
  <2>1. file' = file /\ keychain' = keychain /\ op' = op /\ at' = at /\ key' = key
    BY <1>1 DEF Mac!macVars
  <2>2. QED
    BY <2>1 DEF MacInv, Mac!MacTypeOK, MacProcInv, MacHolds, MacQuietInv, MacQuiet,
                Mac!NobodyForces, Mac!Forced
<1>2. ASSUME NEW p \in Procs, Mac!Killed(p)
      PROVE  MacInv'
  BY <1>2, MacFailStep DEF Mac!Killed, Mac!Running, Mac!ReadOnly
<1>3. QED
  BY <1>1, <1>2, MacStart, MacMigration, MacFirstUse, MacImport DEF Mac!MacNext

\* The action property of the steps.
LEMMA MacForcedStep ==
    ASSUME MacInv, Mac!MacNext
    PROVE  Mac!ReplacementIsForced
<1>1. PICK p \in Procs :
        \/ \E o \in Ops : Mac!Start(p, o)
        \/ Mac!ReadFile(p) \/ Mac!Compare(p) \/ Mac!Migrate(p) \/ Mac!Recompare(p)
        \/ Mac!Read(p) \/ Mac!Create(p) \/ Mac!ReadCreated(p)
        \/ Mac!Import(p) \/ Mac!Replace(p) \/ Mac!ReplaceFile(p)
        \/ Mac!Killed(p)
  BY DEF Mac!MacNext
<1>2. at[p] \in {"replace", "replace_both", "replace_file"} => Mac!Forced(p)
  BY DEF MacInv, MacProcInv, MacHolds
<1>3. at[p] = "replace_file" => keychain \in ImportedKeys
  BY DEF MacInv, MacProcInv, MacHolds
<1>4. (keychain # None /\ keychain' # keychain) => Mac!Replace(p)
  BY <1>1 DEF Mac!Start, Mac!ReadFile, Mac!Compare, Mac!Migrate, Mac!Recompare, Mac!Read,
              Mac!Create, Mac!ReadCreated, Mac!Import, Mac!ReplaceFile, Mac!Killed,
              Mac!ReadOnly
<1>5. file' # file => Mac!ReplaceFile(p)
  BY <1>1 DEF Mac!Start, Mac!ReadFile, Mac!Compare, Mac!Migrate, Mac!Recompare, Mac!Read,
              Mac!Create, Mac!ReadCreated, Mac!Import, Mac!Replace, Mac!Killed,
              Mac!ReadOnly
<1>6. QED
  BY <1>2, <1>3, <1>4, <1>5 DEF Mac!ReplacementIsForced, Mac!Replace, Mac!ReplaceFile

-----------------------------------------------------------------------------
(* Linux *)

\* The keys there are, and that they are told apart.
LEMMA LinuxConstants ==
    /\ Ops \subseteq AnyOp /\ None \notin AnyOp
    /\ OldKey # None /\ OldKey \notin ImportedKeys /\ None \notin ImportedKeys
    /\ OldKey \in AllKeys /\ ImportedKeys \subseteq AllKeys
  BY StoreAssumption DEF AllKeys

LEMMA FreshKeys ==
    /\ \A p \in Procs : Fresh(p) = {FreshKey(p, "file"), FreshKey(p, "tpm")}
    /\ \A p \in Procs : Fresh(p) \subseteq AllKeys
    /\ \A p \in Procs, k \in {OldKey, None} \union ImportedKeys :
            FreshKey(p, "file") # k /\ FreshKey(p, "tpm") # k
    /\ \A p, q \in Procs : FreshKey(p, "file") # FreshKey(q, "tpm")
    /\ \A p, q \in Procs : p # q =>
            /\ FreshKey(p, "file") # FreshKey(q, "file")
            /\ FreshKey(p, "tpm") # FreshKey(q, "tpm")
<1>1. \A p \in Procs : Fresh(p) = {FreshKey(p, "file"), FreshKey(p, "tpm")}
  BY DEF Fresh
<1>2. \A p \in Procs : Fresh(p) \subseteq AllKeys
  BY DEF AllKeys
<1>3. \A p \in Procs, k \in {OldKey, None} \union ImportedKeys :
        FreshKey(p, "file") # k /\ FreshKey(p, "tpm") # k
  BY <1>1, StoreAssumption
<1>4. \A p, q \in Procs : FreshKey(p, "file") # FreshKey(q, "tpm")
  BY DEF FreshKey
<1>5. \A p, q \in Procs : p # q =>
        /\ FreshKey(p, "file") # FreshKey(q, "file")
        /\ FreshKey(p, "tpm") # FreshKey(q, "tpm")
  BY DEF FreshKey
<1>6. QED
  BY <1>1, <1>2, <1>3, <1>4, <1>5

\* What step l with key k must satisfy for p to go there and leave the stores be.
StepOK(p, l, k) ==
    /\ LinuxHolds(p, l, k)
    /\ NobodyForces => LinuxQuiet(p, l, k)
    /\ (NobodyForces /\ tpmMode = "up") => TpmOnly(l)
    /\ (tpmMode = "up" /\ ~powerLost /\ p \in split) => MeetsImport(l, k)

\* The invariant, read at one command.
LEMMA LinuxInvAt ==
    ASSUME LinuxInv, NEW p \in Procs
    PROVE  /\ StepOK(p, at[p], key[p])
           /\ key[p] \in AllKeys \union {None}
           /\ (tpmMode = "up" /\ ~powerLost /\ p \in split) => tpm \in ImportedKeys
  BY DEF LinuxInv, LinuxTypes, LinuxProcInv, LinuxQuietInv, SteadyTpmInv, SplitInv, StepOK

LEMMA LinuxInitInv ==
    ASSUME AutoInit, platform = "linux"
    PROVE  LinuxInv
<1>1. /\ split = {} /\ tpmMode \in TpmModes
      /\ file \in {None, OldKey} /\ tpm = None
      /\ synced = [file |-> file, tpm |-> tpm]
      /\ powerLost = FALSE
      /\ op = [p \in Procs |-> None]
      /\ at = [p \in Procs |-> "idle"]
      /\ key = [p \in Procs |-> None]
  BY DEF AutoInit, StoreInit
<1>2. LinuxTypes
  BY <1>1, LinuxConstants DEF LinuxTypes, LinuxLabels
<1>3. LinuxProcInv /\ SyncedInv
  BY <1>1 DEF LinuxProcInv, LinuxHolds, SyncedInv, OnDisk
<1>4. LinuxQuietInv
  BY <1>1, FreshKeys DEF LinuxQuietInv, LinuxQuiet
<1>5. SteadyTpmInv /\ SplitInv
  BY <1>1 DEF SteadyTpmInv, TpmOnly, SplitInv
<1>6. QED
  BY <1>2, <1>3, <1>4, <1>5 DEF LinuxInv

\* A step of p that writes no store.
LEMMA LinuxReadOnlyStep ==
    ASSUME LinuxInv, NEW p \in Procs, NEW l \in LinuxLabels,
           NEW k \in AllKeys \union {None},
           Goto(p, l), Keep(p, k), ReadOnly, split' = split,
           StepOK(p, l, k)
    PROVE  LinuxInv'
<1>1. \A q \in Procs : /\ at'[q] = IF q = p THEN l ELSE at[q]
                       /\ key'[q] = IF q = p THEN k ELSE key[q]
  BY DEF LinuxInv, LinuxTypes, Goto, Keep
<1>2. /\ tpmMode' = tpmMode /\ file' = file /\ tpm' = tpm /\ synced' = synced
      /\ powerLost' = powerLost /\ op' = op
  BY DEF ReadOnly, stores
<1>3. LinuxTypes'
  BY <1>2 DEF LinuxInv, LinuxTypes, Goto, Keep, AllKeys
<1>4. NobodyForces' = NobodyForces
  BY <1>2 DEF NobodyForces
<1>5. LinuxProcInv'
  <2>1. \A q \in Procs : LinuxHolds(q, at'[q], key'[q])
    BY <1>1 DEF LinuxInv, LinuxProcInv, StepOK
  <2>2. QED
    BY <1>2, <2>1 DEF LinuxProcInv, LinuxHolds, Forced
<1>6. SyncedInv'
  BY <1>2, <1>4 DEF LinuxInv, SyncedInv, OnDisk
<1>7. LinuxQuietInv'
  <2>1. NobodyForces => \A q \in Procs : LinuxQuiet(q, at'[q], key'[q])
    BY <1>1 DEF LinuxInv, LinuxQuietInv, StepOK
  <2>2. QED
    BY <1>2, <1>4, <2>1 DEF LinuxQuietInv, LinuxQuiet
<1>8. SteadyTpmInv'
  BY <1>1, <1>2, <1>4 DEF LinuxInv, SteadyTpmInv, TpmOnly, StepOK
<1>9. SplitInv'
  <2>1. SUFFICES ASSUME tpmMode = "up", ~powerLost, NEW q \in split
                 PROVE  tpm \in ImportedKeys /\ MeetsImport(at'[q], key'[q])
    BY <1>2 DEF SplitInv, MeetsImport
  <2>2. tpm \in ImportedKeys /\ MeetsImport(at[q], key[q])
    BY <2>1 DEF LinuxInv, SplitInv
  <2>3. CASE q = p
    BY <1>1, <2>1, <2>2, <2>3 DEF StepOK
  <2>4. CASE q # p
    <3>1. q \in Procs
      BY DEF LinuxInv, LinuxTypes
    <3>2. at'[q] = at[q] /\ key'[q] = key[q]
      BY <1>1, <2>4, <3>1
    <3>3. QED
      BY <2>2, <3>2
  <2>5. QED
    BY <2>3, <2>4
<1>10. QED
  BY <1>3, <1>5, <1>6, <1>7, <1>8, <1>9 DEF LinuxInv

LEMMA LinuxFailStep ==
    ASSUME LinuxInv, NEW p \in Procs, at[p] # "idle", Fail(p), ReadOnly, split' = split
    PROVE  LinuxInv'
<1>1. StepOK(p, "failed", None)
  BY DEF StepOK, LinuxHolds, LinuxQuiet, TpmOnly, MeetsImport
<1>2. QED
  BY <1>1, LinuxReadOnlyStep DEF Fail, LinuxLabels

LEMMA LinuxGoOnStep ==
    ASSUME LinuxInv, NEW p \in Procs, NEW l \in LinuxLabels, Goto(p, l),
           UNCHANGED key, ReadOnly, split' = split, StepOK(p, l, key[p])
    PROVE  LinuxInv'
<1>1. Keep(p, key[p]) /\ key[p] \in AllKeys \union {None}
  BY DEF LinuxInv, LinuxTypes, Keep
<1>2. QED
  BY <1>1, LinuxReadOnlyStep

\* What a TPM that is always, or never, there comes to.
LEMMA TpmAnswers ==
    ASSUME TRUE
    PROVE  /\ \A k : \A b \in SealMasterKey(k) :
                /\ b \in {k, None}
                /\ tpmMode = "up" => b = k
                /\ tpmMode = "down" => b = None
           /\ \A k \in UnsealMasterKey :
                /\ k \in {tpm, None}
                /\ tpmMode = "up" => k = tpm
                /\ tpmMode = "down" => k = None
<1>1. /\ Available \subseteq BOOLEAN
      /\ tpmMode = "up" => Available = {TRUE}
      /\ tpmMode = "down" => Available = {FALSE}
  BY DEF Available
<1>2. \A k : \A b \in SealMasterKey(k) :
        /\ b \in {k, None}
        /\ tpmMode = "up" => b = k
        /\ tpmMode = "down" => b = None
  BY <1>1 DEF SealMasterKey
<1>3. \A k \in UnsealMasterKey :
        /\ k \in {tpm, None}
        /\ tpmMode = "up" => k = tpm
        /\ tpmMode = "down" => k = None
  BY <1>1 DEF UnsealMasterKey
<1>4. QED
  BY <1>2, <1>3

\* A key p finds in the TPM blob, at a step where it has stored none of its own.
LEMMA UnsealedKey ==
    ASSUME LinuxInv, NEW p \in Procs, tpm # None,
           at[p] \in {"get_tpm", "get_or_create", "get_created"},
           Succeed(p, tpm), ReadOnly, split' = split
    PROVE  LinuxInv'
<1>1. StepOK(p, at[p], key[p])
  BY LinuxInvAt
<1>2. LinuxHolds(p, "done", tpm)
  BY DEF LinuxHolds
<1>3. NobodyForces => LinuxQuiet(p, "done", tpm)
  BY <1>1, FreshKeys DEF StepOK, LinuxQuiet
<1>4. StepOK(p, "done", tpm)
  BY <1>1, <1>2, <1>3 DEF StepOK, TpmOnly, MeetsImport
<1>5. tpm \in AllKeys \union {None}
  BY DEF LinuxInv, LinuxTypes
<1>6. QED
  BY <1>4, <1>5, LinuxReadOnlyStep DEF Succeed, LinuxLabels

\* The TPM did not answer: on to the file.
LEMMA FallBack ==
    ASSUME LinuxInv, NEW p \in Procs, tpmMode # "up",
           at[p] \in {"get_or_create", "create_tpm", "get_created"},
           Goto(p, "get_file"), Keep(p, None), ReadOnly, split' = split
    PROVE  LinuxInv'
<1>1. StepOK(p, at[p], key[p])
  BY LinuxInvAt
<1>2. StepOK(p, "get_file", None)
  BY <1>1 DEF StepOK, LinuxHolds, LinuxQuiet
<1>3. QED
  BY <1>2, LinuxReadOnlyStep DEF LinuxLabels

\* The steps of a first use that only read.
LEMMA LinuxReads ==
    ASSUME LinuxInv, NEW p \in Procs, split' = split,
           CheckTpm(p) \/ GetTpm(p) \/ GetOrCreateTpm(p) \/ GetCreatedTpm(p)
    PROVE  LinuxInv'
<1>1. StepOK(p, at[p], key[p])
  BY LinuxInvAt
<1>2. CASE CheckTpm(p)
  <2>1. CASE tpm # None
    <3>1. StepOK(p, "get_tpm", key[p])
      BY <1>1, <1>2 DEF CheckTpm, StepOK, LinuxHolds, LinuxQuiet, TpmOnly, MeetsImport
    <3>2. QED
      BY <1>2, <2>1, <3>1, LinuxGoOnStep DEF CheckTpm, LinuxLabels
  <2>2. CASE tpm = None
    <3>1. StepOK(p, "get_or_create", key[p])
      BY <1>1, <1>2 DEF CheckTpm, StepOK, LinuxHolds, LinuxQuiet, TpmOnly, MeetsImport
    <3>2. QED
      BY <1>2, <2>2, <3>1, LinuxGoOnStep DEF CheckTpm, LinuxLabels
  <2>3. QED
    BY <2>1, <2>2
<1>3. CASE GetTpm(p)
  <2>1. PICK k \in UnsealMasterKey : IF k # None THEN Succeed(p, k) ELSE Fail(p)
    BY <1>3 DEF GetTpm
  <2>2. k \in {tpm, None}
    BY TpmAnswers
  <2>3. CASE k # None
    BY <1>3, <2>1, <2>2, <2>3, UnsealedKey DEF GetTpm
  <2>4. CASE k = None
    BY <1>3, <2>1, <2>4, LinuxFailStep DEF GetTpm
  <2>5. QED
    BY <2>3, <2>4
<1>4. ASSUME at[p] \in {"get_or_create", "get_created"}, ReadOnly, NEW k \in UnsealMasterKey,
             tpm # None,
             IF k # None THEN Succeed(p, k) ELSE Goto(p, "get_file") /\ Keep(p, None)
      PROVE  LinuxInv'
  <2>1. k \in {tpm, None} /\ (tpmMode = "up" => k = tpm)
    BY TpmAnswers
  <2>2. CASE k # None
    BY <1>4, <2>1, <2>2, UnsealedKey
  <2>3. CASE k = None
    BY <1>4, <2>1, <2>3, FallBack
  <2>4. QED
    BY <2>2, <2>3
<1>5. CASE GetOrCreateTpm(p)
  <2>1. CASE tpm = None /\ Goto(p, "create_tpm") /\ Keep(p, FreshKey(p, "tpm"))
    <3>1. LinuxHolds(p, "create_tpm", FreshKey(p, "tpm"))
      BY FreshKeys DEF LinuxHolds
    <3>2. NobodyForces => LinuxQuiet(p, "create_tpm", FreshKey(p, "tpm"))
      BY <1>1, <1>5, FreshKeys DEF GetOrCreateTpm, StepOK, LinuxQuiet
    <3>3. StepOK(p, "create_tpm", FreshKey(p, "tpm"))
      BY <1>1, <1>5, <3>1, <3>2 DEF GetOrCreateTpm, StepOK, TpmOnly, MeetsImport
    <3>4. FreshKey(p, "tpm") \in AllKeys
      BY FreshKeys
    <3>5. QED
      BY <1>5, <2>1, <3>3, <3>4, LinuxReadOnlyStep DEF GetOrCreateTpm, LinuxLabels
  <2>2. CASE tpm # None
    BY <1>4, <1>5, <2>2 DEF GetOrCreateTpm
  <2>3. QED
    BY <1>5, <2>1, <2>2 DEF GetOrCreateTpm
<1>6. CASE GetCreatedTpm(p)
  <2>1. tpm # None
    BY <1>1, <1>6 DEF GetCreatedTpm, StepOK, LinuxHolds
  <2>2. QED
    BY <1>4, <1>6, <2>1 DEF GetCreatedTpm
<1>7. QED
  BY <1>2, <1>3, <1>5, <1>6

\* The file key, as GetFile, ReadFile and the migration of it use it.
LEMMA LinuxFileReads ==
    ASSUME LinuxInv, NEW p \in Procs, split' = split,
           GetFile(p) \/ ReadFile(p) \/ CompareTpm(p) \/ RecheckTpm(p)
    PROVE  LinuxInv'
<1>1. StepOK(p, at[p], key[p])
  BY LinuxInvAt
<1>2. /\ file \in AllKeys \union {None} /\ key[p] \in AllKeys \union {None}
      /\ (tpmMode = "up" /\ ~powerLost /\ p \in split) => tpm \in ImportedKeys
  BY LinuxInvAt DEF LinuxInv, LinuxTypes
<1>3. CASE GetFile(p)
  <2>1. CASE file # None /\ Succeed(p, file)
    <3>1. LinuxHolds(p, "done", file)
      BY <2>1 DEF LinuxHolds
    <3>2. NobodyForces => LinuxQuiet(p, "done", file)
      BY <1>1, <1>3, FreshKeys DEF GetFile, StepOK, LinuxQuiet
    <3>3. StepOK(p, "done", file)
      BY <1>1, <1>3, <3>1, <3>2 DEF GetFile, StepOK, TpmOnly, MeetsImport
    <3>4. QED
      BY <1>2, <1>3, <2>1, <3>3, LinuxReadOnlyStep DEF GetFile, Succeed, LinuxLabels
  <2>2. CASE file = None /\ Goto(p, "create_file") /\ Keep(p, FreshKey(p, "file"))
    <3>1. LinuxHolds(p, "create_file", FreshKey(p, "file"))
      BY FreshKeys DEF LinuxHolds
    <3>2. NobodyForces => LinuxQuiet(p, "create_file", FreshKey(p, "file"))
      BY <1>1, <1>3, <2>2, FreshKeys DEF GetFile, StepOK, LinuxQuiet
    <3>3. StepOK(p, "create_file", FreshKey(p, "file"))
      BY <1>1, <1>3, <3>1, <3>2 DEF GetFile, StepOK, TpmOnly, MeetsImport
    <3>4. FreshKey(p, "file") \in AllKeys
      BY FreshKeys
    <3>5. QED
      BY <1>3, <2>2, <3>3, <3>4, LinuxReadOnlyStep DEF GetFile, LinuxLabels
  <2>3. QED
    BY <1>3, <2>1, <2>2 DEF GetFile
<1>4. CASE ReadFile(p)
  <2>1. LinuxHolds(p, "compare", file)
    BY <1>1, <1>4 DEF ReadFile, StepOK, LinuxHolds
  <2>2. NobodyForces => LinuxQuiet(p, "compare", file)
    BY <1>1, <1>4 DEF ReadFile, StepOK, LinuxQuiet
  <2>3. StepOK(p, "compare", file)
    BY <2>1, <2>2 DEF StepOK, TpmOnly, MeetsImport
  <2>4. QED
    BY <1>2, <1>4, <2>3, LinuxReadOnlyStep DEF ReadFile, LinuxLabels
<1>5. ASSUME at[p] \in {"compare", "recheck"}, ReadOnly, Succeed(p, key[p]),
             (tpmMode = "up" /\ ~powerLost /\ p \in split) => key[p] \in ImportedKeys
      PROVE  LinuxInv'
  <2>1. LinuxHolds(p, "done", key[p])
    BY <1>1, <1>5 DEF StepOK, LinuxHolds
  <2>2. NobodyForces => LinuxQuiet(p, "done", key[p])
    BY <1>1, <1>5, FreshKeys DEF StepOK, LinuxQuiet
  <2>3. StepOK(p, "done", key[p])
    BY <1>5, <2>1, <2>2 DEF StepOK, TpmOnly, MeetsImport
  <2>4. QED
    BY <1>2, <1>5, <2>3, LinuxReadOnlyStep DEF Succeed, LinuxLabels
<1>6. CASE CompareTpm(p)
  <2>1. CASE tpm = None /\ Goto(p, "migrate") /\ UNCHANGED key
    <3>1. LinuxHolds(p, "migrate", key[p])
      BY <1>1, <1>6 DEF CompareTpm, StepOK, LinuxHolds
    <3>2. NobodyForces => LinuxQuiet(p, "migrate", key[p])
      BY <1>1, <1>6 DEF CompareTpm, StepOK, LinuxQuiet
    <3>3. StepOK(p, "migrate", key[p])
      BY <1>2, <2>1, <3>1, <3>2, LinuxConstants DEF StepOK, TpmOnly, MeetsImport
    <3>4. QED
      BY <1>6, <2>1, <3>3, LinuxGoOnStep DEF CompareTpm, LinuxLabels
  <2>2. CASE /\ tpm # None
             /\ \E k \in UnsealMasterKey :
                   IF k \in {key[p], None} THEN Succeed(p, key[p]) ELSE Fail(p)
    <3>1. PICK k \in UnsealMasterKey :
                IF k \in {key[p], None} THEN Succeed(p, key[p]) ELSE Fail(p)
      BY <2>2
    <3>2. k \in {tpm, None} /\ (tpmMode = "up" => k = tpm)
      BY TpmAnswers
    <3>3. CASE k \in {key[p], None}
      BY <1>2, <1>5, <1>6, <2>2, <3>1, <3>2, <3>3 DEF CompareTpm
    <3>4. CASE k \notin {key[p], None}
      BY <1>6, <3>1, <3>4, LinuxFailStep DEF CompareTpm
    <3>5. QED
      BY <3>3, <3>4
  <2>3. QED
    BY <1>6, <2>1, <2>2 DEF CompareTpm
<1>7. CASE RecheckTpm(p)
  <2>1. PICK k \in UnsealMasterKey : IF k = key[p] THEN Succeed(p, k) ELSE Fail(p)
    BY <1>7 DEF RecheckTpm
  <2>2. CASE k = key[p]
    <3>1. ~(tpmMode = "up" /\ ~powerLost /\ p \in split)
      BY <1>1, <1>7 DEF RecheckTpm, StepOK, MeetsImport
    <3>2. QED
      BY <1>5, <1>7, <2>1, <2>2, <3>1 DEF RecheckTpm
  <2>3. CASE k # key[p]
    BY <1>7, <2>1, <2>3, LinuxFailStep DEF RecheckTpm
  <2>4. QED
    BY <2>2, <2>3
<1>8. QED
  BY <1>3, <1>4, <1>6, <1>7

\* A blob is written where there was none, or by a forced import over another.
LEMMA TpmWriteStep ==
    ASSUME LinuxInv, NEW p \in Procs, NEW l \in {"sync", "sync_then_file"},
           at[p] \in {"create_tpm", "migrate", "import_tpm", "force_tpm"},
           tpmMode # "down", tpm' = key[p],
           tpm = None \/ (Forced(p) /\ key[p] \in ImportedKeys),
           l = "sync_then_file" <=> at[p] = "force_tpm",
           Goto(p, l), UNCHANGED <<tpmMode, file, synced, powerLost, op, key, split>>
    PROVE  LinuxInv'
<1>1. \A q \in Procs : at'[q] = IF q = p THEN l ELSE at[q]
  BY DEF LinuxInv, LinuxTypes, Goto
<1>2. /\ StepOK(p, at[p], key[p]) /\ key[p] \in AllKeys \union {None}
      /\ (tpmMode = "up" /\ ~powerLost /\ p \in split) => tpm \in ImportedKeys
  BY LinuxInvAt
<1>3. key[p] # None /\ (l = "sync_then_file" => Forced(p) /\ key[p] \in ImportedKeys)
  BY <1>2, FreshKeys, LinuxConstants DEF StepOK, LinuxHolds
<1>4. NobodyForces' = NobodyForces /\ (NobodyForces => ~Forced(p) /\ tpm = None)
  BY DEF NobodyForces, Forced
<1>5. LinuxTypes'
  BY <1>2 DEF LinuxInv, LinuxTypes, Goto, LinuxLabels, AllKeys
<1>6. LinuxProcInv'
  BY <1>1, <1>3 DEF LinuxInv, LinuxProcInv, LinuxHolds, Forced
<1>7. SyncedInv'
  BY <1>4, LinuxConstants DEF LinuxInv, SyncedInv, OnDisk, NobodyForces, Forced
<1>8. LinuxQuietInv'
  <2>1. SUFFICES ASSUME NobodyForces, NEW q \in Procs
                 PROVE  LinuxQuiet(q, at[q], key[q])'
    BY <1>4 DEF LinuxQuietInv
  <2>2. /\ LinuxQuiet(q, at[q], key[q]) /\ LinuxHolds(q, at[q], key[q])
        /\ LinuxQuiet(p, at[p], key[p]) /\ LinuxHolds(p, at[p], key[p])
    BY <2>1 DEF LinuxInv, LinuxQuietInv, LinuxProcInv
  <2>3. tpm = None /\ l = "sync" /\ at[p] # "force_tpm"
    BY <1>3, <1>4, <2>1
  <2>4. key[p] \in {FreshKey(p, "tpm"), file} \union ImportedKeys
    BY <2>2, <2>3 DEF LinuxQuiet, LinuxHolds
  <2>5. CASE q = p
    BY <1>1, <1>3, <2>2, <2>3, <2>4, <2>5, FreshKeys DEF LinuxQuiet, LinuxHolds
  <2>6. CASE q # p
    BY <1>1, <1>3, <2>2, <2>3, <2>4, <2>6, FreshKeys DEF LinuxQuiet, LinuxHolds
  <2>7. QED
    BY <2>5, <2>6
<1>9. SteadyTpmInv'
  <2>1. SUFFICES ASSUME NobodyForces, tpmMode = "up"
                 PROVE  /\ synced.file = file
                        /\ file # None => file = key[p]
                        /\ \A q \in Procs : TpmOnly(at[q])'
    BY <1>4 DEF SteadyTpmInv
  <2>2. synced.file = file /\ \A q \in Procs : TpmOnly(at[q])
    BY <2>1 DEF LinuxInv, SteadyTpmInv
  <2>3. file # None => file = key[p]
    BY <1>2, <1>3, <1>4, <2>1 DEF StepOK, LinuxQuiet, TpmOnly
  <2>4. QED
    BY <1>1, <2>2, <2>3 DEF TpmOnly
<1>10. SplitInv'
  <2>1. SUFFICES ASSUME tpmMode = "up", ~powerLost, NEW q \in split
                 PROVE  key[p] \in ImportedKeys /\ MeetsImport(at'[q], key[q])
    BY DEF SplitInv, MeetsImport
  <2>2. q \in Procs /\ tpm \in ImportedKeys /\ MeetsImport(at[q], key[q])
    BY <2>1 DEF LinuxInv, SplitInv, LinuxTypes
  <2>3. key[p] \in ImportedKeys
    BY <2>2, LinuxConstants
  <2>4. QED
    BY <1>1, <2>2, <2>3 DEF MeetsImport
<1>11. QED
  BY <1>5, <1>6, <1>7, <1>8, <1>9, <1>10 DEF LinuxInv

\* The steps that write a blob, or find that they cannot.
LEMMA LinuxTpmWrites ==
    ASSUME LinuxInv, NEW p \in Procs, split' = split,
           CreateTpm(p) \/ Migrate(p) \/ ImportTpm(p)
    PROVE  LinuxInv'
<1>1. /\ StepOK(p, at[p], key[p]) /\ key[p] \in AllKeys \union {None}
      /\ (tpmMode = "up" /\ ~powerLost /\ p \in split) => tpm \in ImportedKeys
  BY LinuxInvAt
<1>2. PICK b \in SealMasterKey(key[p]) :
        \/ CreateTpm(p) /\
            \/ b = None /\ Goto(p, "get_file") /\ Keep(p, None) /\ UNCHANGED tpm
            \/ b # None /\ tpm = None /\ tpm' = b /\ Goto(p, "sync") /\ UNCHANGED key
            \/ b # None /\ tpm # None /\ Goto(p, "get_created") /\ UNCHANGED <<key, tpm>>
        \/ Migrate(p) /\
            \/ b = None /\ Succeed(p, key[p]) /\ UNCHANGED tpm
            \/ b # None /\ tpm = None /\ tpm' = b /\ Goto(p, "sync") /\ UNCHANGED key
            \/ b # None /\ tpm # None /\ Goto(p, "recheck") /\ UNCHANGED <<key, tpm>>
        \/ ImportTpm(p) /\
            \/ tpm # None /\ (~Forced(p) \/ b = None) /\ Fail(p) /\ UNCHANGED tpm
            \/ tpm = None /\ b = None /\ Goto(p, "import_file") /\ UNCHANGED <<key, tpm>>
            \/ /\ b # None /\ (tpm = None \/ Forced(p)) /\ tpm' = b
               /\ Goto(p, IF at[p] = "force_tpm" THEN "sync_then_file" ELSE "sync")
               /\ UNCHANGED key
  BY DEF CreateTpm, Migrate, ImportTpm
<1>3. /\ b \in {key[p], None}
      /\ tpmMode = "up" => b = key[p]
      /\ tpmMode = "down" => b = None
  BY TpmAnswers
<1>4. /\ at[p] \in {"create_tpm", "migrate", "import_tpm", "force_tpm"}
      /\ UNCHANGED <<tpmMode, file, synced, powerLost, op>>
      /\ CreateTpm(p) => at[p] = "create_tpm"
      /\ Migrate(p) => at[p] = "migrate"
      /\ ImportTpm(p) => at[p] \in {"import_tpm", "force_tpm"}
  BY <1>2 DEF CreateTpm, Migrate, ImportTpm
<1>5. key[p] # None
  BY <1>1, <1>4, FreshKeys, LinuxConstants DEF StepOK, LinuxHolds
<1>6. tpm' = tpm => ReadOnly
  BY <1>4 DEF ReadOnly, stores
<1>7. ASSUME b # None, tpm' = b, UNCHANGED key, NEW l \in {"sync", "sync_then_file"},
             Goto(p, l), l = "sync_then_file" <=> at[p] = "force_tpm",
             tpm = None \/ (ImportTpm(p) /\ Forced(p))
      PROVE  LinuxInv'
  <2>1. ImportTpm(p) => key[p] \in ImportedKeys
    BY <1>1, <1>4 DEF StepOK, LinuxHolds
  <2>2. QED
    BY <1>3, <1>4, <1>7, <2>1, TpmWriteStep
<1>8. CASE CreateTpm(p) /\ b = None /\ Goto(p, "get_file") /\ Keep(p, None) /\ UNCHANGED tpm
  BY <1>3, <1>4, <1>5, <1>6, <1>8, FallBack
<1>9. CASE CreateTpm(p) /\ b # None /\ tpm # None /\ Goto(p, "get_created")
           /\ UNCHANGED <<key, tpm>>
  <2>1. LinuxHolds(p, "get_created", key[p])
    BY <1>1, <1>4, <1>9 DEF StepOK, LinuxHolds
  <2>2. NobodyForces => LinuxQuiet(p, "get_created", key[p])
    BY <1>1, <1>4, <1>9 DEF StepOK, LinuxQuiet
  <2>3. StepOK(p, "get_created", key[p])
    BY <1>1, <1>4, <1>9, <2>1, <2>2 DEF StepOK, TpmOnly, MeetsImport
  <2>4. QED
    BY <1>6, <1>9, <2>3, LinuxGoOnStep DEF LinuxLabels
<1>10. CASE Migrate(p) /\ b = None /\ Succeed(p, key[p]) /\ UNCHANGED tpm
  <2>1. LinuxHolds(p, "done", key[p])
    BY <1>5 DEF LinuxHolds
  <2>2. NobodyForces => LinuxQuiet(p, "done", key[p])
    BY <1>1, <1>4, <1>10, FreshKeys DEF StepOK, LinuxQuiet
  <2>3. StepOK(p, "done", key[p])
    BY <1>3, <1>5, <1>10, <2>1, <2>2 DEF StepOK, TpmOnly, MeetsImport
  <2>4. QED
    BY <1>1, <1>6, <1>10, <2>3, LinuxReadOnlyStep DEF Succeed, LinuxLabels
<1>11. CASE Migrate(p) /\ b # None /\ tpm # None /\ Goto(p, "recheck")
            /\ UNCHANGED <<key, tpm>>
  <2>1. LinuxHolds(p, "recheck", key[p])
    BY <1>5 DEF LinuxHolds
  <2>2. NobodyForces => LinuxQuiet(p, "recheck", key[p])
    BY <1>1, <1>4, <1>11 DEF StepOK, LinuxQuiet
  <2>3. StepOK(p, "recheck", key[p])
    BY <1>1, <1>4, <1>11, <2>1, <2>2 DEF StepOK, TpmOnly, MeetsImport
  <2>4. QED
    BY <1>6, <1>11, <2>3, LinuxGoOnStep DEF LinuxLabels
<1>12. CASE Fail(p) /\ UNCHANGED tpm
  BY <1>4, <1>6, <1>12, LinuxFailStep
<1>13. CASE ImportTpm(p) /\ tpm = None /\ b = None /\ Goto(p, "import_file")
            /\ UNCHANGED <<key, tpm>>
  <2>1. LinuxHolds(p, "import_file", key[p])
    BY <1>1, <1>4, <1>13, LinuxConstants DEF StepOK, LinuxHolds
  <2>2. NobodyForces => LinuxQuiet(p, "import_file", key[p])
    BY <1>1, <1>4, <1>13 DEF StepOK, LinuxQuiet
  <2>3. StepOK(p, "import_file", key[p])
    BY <1>3, <1>5, <1>13, <2>1, <2>2 DEF StepOK, TpmOnly, MeetsImport
  <2>4. QED
    BY <1>6, <1>13, <2>3, LinuxGoOnStep DEF LinuxLabels
<1>14. CASE CreateTpm(p) /\ b # None /\ tpm = None /\ tpm' = b /\ Goto(p, "sync")
            /\ UNCHANGED key
  BY <1>4, <1>7, <1>14
<1>15. CASE Migrate(p) /\ b # None /\ tpm = None /\ tpm' = b /\ Goto(p, "sync")
            /\ UNCHANGED key
  BY <1>4, <1>7, <1>15
<1>16. CASE /\ ImportTpm(p) /\ b # None /\ (tpm = None \/ Forced(p)) /\ tpm' = b
            /\ Goto(p, IF at[p] = "force_tpm" THEN "sync_then_file" ELSE "sync")
            /\ UNCHANGED key
  <2>1. CASE at[p] = "force_tpm"
    BY <1>7, <1>16, <2>1
  <2>2. CASE at[p] # "force_tpm"
    BY <1>7, <1>16, <2>2
  <2>3. QED
    BY <2>1, <2>2
<1>17. QED
  BY <1>2, <1>8, <1>9, <1>10, <1>11, <1>12, <1>13, <1>14, <1>15, <1>16

\* The file is written where there was none, or by a forced import over another.
LEMMA FileWriteStep ==
    ASSUME LinuxInv, NEW p \in Procs, NEW l \in {"sync", "sync_then_get"},
           \/ at[p] = "create_file" /\ l = "sync_then_get" /\ file = None
           \/ at[p] = "import_file" /\ l = "sync" /\ (file = None \/ Forced(p)),
           file' = key[p], Goto(p, l),
           UNCHANGED <<tpmMode, tpm, synced, powerLost, op, key, split>>
    PROVE  LinuxInv'
<1>1. \A q \in Procs : at'[q] = IF q = p THEN l ELSE at[q]
  BY DEF LinuxInv, LinuxTypes, Goto
<1>2. /\ StepOK(p, at[p], key[p]) /\ key[p] \in AllKeys \union {None}
      /\ (tpmMode = "up" /\ ~powerLost /\ p \in split) => tpm \in ImportedKeys
  BY LinuxInvAt
<1>3. /\ at[p] = "create_file" => key[p] = FreshKey(p, "file")
      /\ at[p] = "import_file" => key[p] \in ImportedKeys
      /\ key[p] # None
  BY <1>2, FreshKeys, LinuxConstants DEF StepOK, LinuxHolds
<1>4. NobodyForces' = NobodyForces /\ (NobodyForces => file = None)
  BY DEF NobodyForces, Forced
<1>5. LinuxTypes'
  BY <1>2 DEF LinuxInv, LinuxTypes, Goto, LinuxLabels, AllKeys
<1>6. LinuxProcInv'
  BY <1>1, <1>3 DEF LinuxInv, LinuxProcInv, LinuxHolds, Forced
<1>7. SyncedInv'
  BY <1>3, <1>4, LinuxConstants DEF LinuxInv, SyncedInv, OnDisk, NobodyForces, Forced
<1>8. LinuxQuietInv'
  <2>1. SUFFICES ASSUME NobodyForces, NEW q \in Procs
                 PROVE  LinuxQuiet(q, at[q], key[q])'
    BY <1>4 DEF LinuxQuietInv
  <2>2. /\ LinuxQuiet(q, at[q], key[q]) /\ LinuxHolds(q, at[q], key[q])
        /\ LinuxQuiet(p, at[p], key[p]) /\ LinuxHolds(p, at[p], key[p])
    BY <2>1 DEF LinuxInv, LinuxQuietInv, LinuxProcInv
  <2>3. file = None
    BY <1>4, <2>1
  <2>4. CASE q = p
    BY <1>1, <1>3, <2>2, <2>3, <2>4, FreshKeys DEF LinuxQuiet, LinuxHolds
  <2>5. CASE q # p
    BY <1>1, <1>3, <2>2, <2>3, <2>5, FreshKeys DEF LinuxQuiet, LinuxHolds
  <2>6. QED
    BY <2>4, <2>5
<1>9. SteadyTpmInv'
  BY <1>2, <1>4 DEF LinuxInv, SteadyTpmInv, StepOK, TpmOnly
<1>10. SplitInv'
  <2>1. SUFFICES ASSUME tpmMode = "up", ~powerLost, NEW q \in split
                 PROVE  tpm \in ImportedKeys /\ MeetsImport(at'[q], key[q])
    BY DEF SplitInv, MeetsImport
  <2>2. q \in Procs /\ tpm \in ImportedKeys /\ MeetsImport(at[q], key[q])
    BY <2>1 DEF LinuxInv, SplitInv, LinuxTypes
  <2>3. QED
    BY <1>1, <1>3, <2>2 DEF MeetsImport
<1>11. QED
  BY <1>5, <1>6, <1>7, <1>8, <1>9, <1>10 DEF LinuxInv

LEMMA LinuxFileWrites ==
    ASSUME LinuxInv, NEW p \in Procs, split' = split, CreateFile(p) \/ ImportFile(p)
    PROVE  LinuxInv'
<1>1. StepOK(p, at[p], key[p])
  BY LinuxInvAt
<1>2. CASE CreateFile(p)
  <2>1. CASE file = None /\ file' = key[p] /\ Goto(p, "sync_then_get")
    BY <1>2, <2>1, FileWriteStep DEF CreateFile
  <2>2. CASE file # None /\ Goto(p, "get_file") /\ UNCHANGED file
    <3>1. LinuxHolds(p, "get_file", key[p])
      BY DEF LinuxHolds
    <3>2. NobodyForces => LinuxQuiet(p, "get_file", key[p])
      BY <1>1, <1>2 DEF CreateFile, StepOK, LinuxQuiet
    <3>3. StepOK(p, "get_file", key[p])
      BY <1>1, <1>2, <3>1, <3>2 DEF CreateFile, StepOK, TpmOnly, MeetsImport
    <3>4. QED
      BY <1>2, <2>2, <3>3, LinuxGoOnStep DEF CreateFile, ReadOnly, stores, LinuxLabels
  <2>3. QED
    BY <1>2, <2>1, <2>2 DEF CreateFile
<1>3. CASE ImportFile(p)
  <2>1. CASE (file = None \/ Forced(p)) /\ file' = key[p] /\ Goto(p, "sync") /\ UNCHANGED key
    BY <1>3, <2>1, FileWriteStep DEF ImportFile
  <2>2. CASE Fail(p) /\ UNCHANGED file
    BY <1>3, <2>2, LinuxFailStep DEF ImportFile, ReadOnly, stores
  <2>3. QED
    BY <1>3, <2>1, <2>2 DEF ImportFile
<1>4. QED
  BY <1>2, <1>3

\* sync_parent_dir: from now on the disk holds what the directory shows.
LEMMA LinuxSync ==
    ASSUME LinuxInv, NEW p \in Procs, split' = split, SyncParentDir(p)
    PROVE  LinuxInv'
<1>1. PICK l \in {"done", "get_file", "import_file"} :
        /\ Goto(p, l) /\ key' = key
        /\ \/ at[p] = "sync" /\ l = "done"
           \/ at[p] = "sync_then_get" /\ l = "get_file"
           \/ at[p] = "sync_then_file" /\ l = "import_file"
  <2>1. Keep(p, key[p]) => key' = key
    BY DEF LinuxInv, LinuxTypes, Keep
  <2>2. QED
    BY <2>1 DEF SyncParentDir, Succeed
<1>2. \A q \in Procs : at'[q] = IF q = p THEN l ELSE at[q]
  BY <1>1 DEF LinuxInv, LinuxTypes, Goto
<1>3. /\ tpmMode' = tpmMode /\ file' = file /\ tpm' = tpm /\ powerLost' = powerLost
      /\ op' = op /\ synced'.file = file /\ synced'.tpm = tpm
  BY DEF SyncParentDir
<1>4. StepOK(p, at[p], key[p])
  BY LinuxInvAt
<1>5. NobodyForces' = NobodyForces
  BY <1>3 DEF NobodyForces
<1>6. LinuxTypes'
  BY <1>1, <1>3 DEF LinuxInv, LinuxTypes, Goto, LinuxLabels, AllKeys, SyncParentDir
<1>7. LinuxProcInv'
  BY <1>1, <1>2, <1>3 DEF LinuxInv, LinuxProcInv, LinuxHolds, Forced
<1>8. SyncedInv'
  BY <1>3 DEF SyncedInv, OnDisk
<1>9. LinuxQuietInv'
  <2>1. SUFFICES ASSUME NobodyForces, NEW q \in Procs
                 PROVE  LinuxQuiet(q, at[q], key[q])'
    BY <1>5 DEF LinuxQuietInv
  <2>2. /\ LinuxQuiet(q, at[q], key[q]) /\ LinuxHolds(q, at[q], key[q])
        /\ synced.file \in {file, None} /\ synced.tpm \in {tpm, None}
    BY <2>1 DEF LinuxInv, LinuxQuietInv, LinuxProcInv, SyncedInv, OnDisk
  <2>3. CASE q = p
    BY <1>1, <1>2, <1>3, <2>2, <2>3, FreshKeys DEF LinuxQuiet, LinuxHolds
  <2>4. CASE q # p
    BY <1>1, <1>2, <1>3, <2>2, <2>4, FreshKeys DEF LinuxQuiet, LinuxHolds
  <2>5. QED
    BY <2>3, <2>4
<1>10. SteadyTpmInv'
  <2>1. NobodyForces => ~Forced(p)
    BY DEF NobodyForces, Forced
  <2>2. QED
    BY <1>1, <1>2, <1>3, <1>4, <1>5, <2>1
    DEF LinuxInv, SteadyTpmInv, StepOK, TpmOnly, LinuxHolds
<1>11. SplitInv'
  <2>1. SUFFICES ASSUME tpmMode = "up", ~powerLost, NEW q \in split
                 PROVE  tpm \in ImportedKeys /\ MeetsImport(at'[q], key[q])
    BY <1>1, <1>3 DEF SplitInv, MeetsImport
  <2>2. q \in Procs /\ tpm \in ImportedKeys /\ MeetsImport(at[q], key[q])
    BY <2>1 DEF LinuxInv, SplitInv, LinuxTypes
  <2>3. QED
    BY <1>1, <1>2, <2>2 DEF MeetsImport
<1>12. QED
  BY <1>6, <1>7, <1>8, <1>9, <1>10, <1>11 DEF LinuxInv

\* A power loss may undo what was not synced; nobody is left running.
LEMMA LinuxPowerLoss ==
    ASSUME LinuxInv, split' = split, PowerLoss
    PROVE  LinuxInv'
<1>1. /\ tpmMode' = tpmMode /\ op' = op /\ powerLost' = TRUE
      /\ file' \in {file, synced.file} /\ tpm' \in {tpm, synced.tpm}
      /\ synced' = [file |-> file', tpm |-> tpm']
      /\ synced'.file = file' /\ synced'.tpm = tpm'
  BY DEF PowerLoss
<1>2. \A q \in Procs :
        /\ at'[q] = IF Running(q) THEN "failed" ELSE at[q]
        /\ key'[q] = IF Running(q) THEN None ELSE key[q]
  BY DEF PowerLoss
<1>3. \A q \in Procs : at'[q] \in {"idle", "done", "failed"}
  BY <1>2 DEF Running
<1>4. NobodyForces' = NobodyForces
  BY <1>1 DEF NobodyForces
<1>5. LinuxTypes'
  <2>1. synced.file \in AllKeys \union {None} /\ synced.tpm \in AllKeys \union {None}
    BY DEF LinuxInv, LinuxTypes
  <2>2. /\ at' \in [Procs -> LinuxLabels] /\ key' \in [Procs -> AllKeys \union {None}]
    BY DEF LinuxInv, LinuxTypes, LinuxLabels, PowerLoss
  <2>3. QED
    BY <1>1, <2>1, <2>2 DEF LinuxInv, LinuxTypes, AllKeys
<1>6. LinuxProcInv'
  BY <1>1, <1>2, <1>3 DEF LinuxInv, LinuxProcInv, LinuxHolds, Running
<1>7. SyncedInv'
  BY <1>1 DEF SyncedInv, OnDisk
<1>8. NobodyForces => synced.file \in {file, None} /\ synced.tpm \in {tpm, None}
  BY DEF LinuxInv, SyncedInv, OnDisk
<1>9. LinuxQuietInv'
  <2>1. SUFFICES ASSUME NobodyForces, NEW q \in Procs
                 PROVE  LinuxQuiet(q, at[q], key[q])'
    BY <1>4 DEF LinuxQuietInv
  <2>2. LinuxQuiet(q, at[q], key[q]) /\ LinuxHolds(q, at[q], key[q])
    BY <2>1 DEF LinuxInv, LinuxQuietInv, LinuxProcInv
  <2>3. CASE Running(q)
    BY <1>1, <1>2, <2>3 DEF LinuxQuiet
  <2>4. CASE ~Running(q)
    BY <1>1, <1>2, <1>3, <1>8, <2>1, <2>2, <2>4, FreshKeys DEF LinuxQuiet, LinuxHolds
  <2>5. QED
    BY <2>3, <2>4
<1>10. SteadyTpmInv'
  BY <1>1, <1>3, <1>4, <1>8 DEF LinuxInv, SteadyTpmInv, TpmOnly
<1>11. SplitInv'
  BY <1>1 DEF SplitInv
<1>12. QED
  BY <1>5, <1>6, <1>7, <1>9, <1>10, <1>11 DEF LinuxInv

\* Starting operation o: p goes to step l with key k.
LEMMA LinuxStartStep ==
    ASSUME LinuxInv, NEW p \in Procs, NEW o \in Ops, at[p] = "idle",
           NEW l \in {"force_tpm", "import_tpm", "read_file", "get_tpm", "check_tpm",
                      "failed"},
           NEW k \in ImportedKeys \union {None},
           Goto(p, l), Keep(p, k), op' = [op EXCEPT ![p] = o],
           UNCHANGED <<tpmMode, file, tpm, synced, powerLost>>,
           split' \in {split, split \union {p}},
           split' # split => tpm \in ImportedKeys /\ file # None,
           l = "force_tpm" => Forced(p)',
           l \in {"force_tpm", "import_tpm"} => k \in ImportedKeys,
           l \in {"import_tpm", "get_tpm", "check_tpm"} => file = None,
           l = "read_file" => file # None
    PROVE  LinuxInv'
<1>1. /\ op[p] = None
      /\ \A q \in Procs : /\ at'[q] = IF q = p THEN l ELSE at[q]
                          /\ key'[q] = IF q = p THEN k ELSE key[q]
                          /\ op'[q] = IF q = p THEN o ELSE op[q]
  <2>1. LinuxHolds(p, at[p], key[p])
    BY DEF LinuxInv, LinuxProcInv
  <2>2. op[p] = None
    BY <2>1 DEF LinuxHolds
  <2>3. QED
    BY <2>2 DEF LinuxInv, LinuxTypes, Goto, Keep
<1>2. NobodyForces' => NobodyForces
  BY <1>1, LinuxConstants DEF NobodyForces, AnyOp
<1>3. StepOK(p, "idle", key[p])
  BY LinuxInvAt
<1>4. LinuxTypes'
  BY LinuxConstants DEF LinuxInv, LinuxTypes, LinuxLabels, Goto, Keep, AllKeys
<1>5. LinuxProcInv'
  BY <1>1 DEF LinuxInv, LinuxProcInv, LinuxHolds, Forced
<1>6. SyncedInv'
  BY <1>2 DEF LinuxInv, SyncedInv, OnDisk
<1>7. LinuxQuietInv'
  <2>1. SUFFICES ASSUME NobodyForces, NEW q \in Procs
                 PROVE  LinuxQuiet(q, at[q], key[q])'
    BY <1>2 DEF LinuxQuietInv
  <2>2. LinuxQuiet(q, at[q], key[q])
    BY <2>1 DEF LinuxInv, LinuxQuietInv
  <2>3. CASE q = p
    BY <1>1, <1>3, <2>1, <2>3 DEF StepOK, LinuxQuiet
  <2>4. CASE q # p
    BY <1>1, <2>2, <2>4 DEF LinuxQuiet
  <2>5. QED
    BY <2>3, <2>4
<1>8. SteadyTpmInv'
  BY <1>1, <1>2 DEF LinuxInv, SteadyTpmInv, TpmOnly
<1>9. SplitInv'
  <2>1. SUFFICES ASSUME tpmMode = "up", ~powerLost, NEW q \in split'
                 PROVE  tpm \in ImportedKeys /\ MeetsImport(at'[q], key'[q])
    BY DEF SplitInv, MeetsImport
  <2>2. p \notin split
    BY <1>3, <2>1 DEF StepOK, MeetsImport
  <2>3. CASE q = p
    BY <1>1, <2>2, <2>3 DEF MeetsImport
  <2>4. CASE q # p
    <3>1. q \in split /\ q \in Procs
      BY <2>1, <2>4 DEF LinuxInv, LinuxTypes
    <3>2. QED
      BY <1>1, <2>1, <2>4, <3>1 DEF LinuxInv, SplitInv, MeetsImport
  <2>5. QED
    BY <2>3, <2>4
<1>10. QED
  BY <1>4, <1>5, <1>6, <1>7, <1>8, <1>9 DEF LinuxInv

NewlySplit == {q \in Procs : HalfImported /\ at[q] = "idle" /\ at'[q] # "idle"}

LEMMA LinuxStart ==
    ASSUME LinuxInv, NEW p \in Procs, NEW o \in Ops, Start(p, o),
           split' = split \union NewlySplit
    PROVE  LinuxInv'
<1>1. /\ at[p] = "idle" /\ op' = [op EXCEPT ![p] = o]
      /\ UNCHANGED <<tpmMode, file, tpm, synced, powerLost>>
  BY DEF Start, stores
<1>2. Forced(p)' <=> o = "import_force"
  BY <1>1 DEF LinuxInv, LinuxTypes, Forced
<1>3. ASSUME NEW l, Goto(p, l)
      PROVE  /\ split' \in {split, split \union {p}}
             /\ split' # split => tpm \in ImportedKeys /\ file # None
  <2>1. \A q \in Procs : q # p => at'[q] = at[q]
    BY <1>3 DEF LinuxInv, LinuxTypes, Goto
  <2>2. NewlySplit \subseteq {p} /\ (NewlySplit # {} => HalfImported)
    BY <2>1 DEF NewlySplit
  <2>3. QED
    BY <2>2 DEF HalfImported
<1>4. CASE file # None /\ o = "import" /\ Fail(p)
  <2>1. Goto(p, "failed") /\ Keep(p, None)
    BY <1>4 DEF Fail
  <2>2. QED
    BY <1>1, <1>3, <2>1, LinuxStartStep
<1>5. CASE ~(file # None /\ o = "import" /\ Fail(p))
  <2>1. PICK k \in IF o \in {"import", "import_force"} THEN ImportedKeys ELSE {None} :
          /\ ~(file # None /\ o = "import") /\ Keep(p, k)
          /\ Goto(p, CASE k # None /\ file # None -> "force_tpm"
                       [] k # None /\ file = None -> "import_tpm"
                       [] k = None /\ file # None -> "read_file"
                       [] k = None /\ file = None /\ o = "load" -> "get_tpm"
                       [] OTHER -> "check_tpm")
    BY <1>5 DEF Start
  <2>2. CASE o = "import_force" /\ file # None
    <3>1. k \in ImportedKeys /\ k # None
      BY <2>1, <2>2, LinuxConstants
    <3>2. Goto(p, "force_tpm")
      BY <2>1, <2>2, <3>1
    <3>3. QED
      BY <1>1, <1>2, <1>3, <2>1, <2>2, <3>1, <3>2, LinuxStartStep
  <2>3. CASE o \in {"import", "import_force"} /\ file = None
    <3>1. k \in ImportedKeys /\ k # None
      BY <2>1, <2>3, LinuxConstants
    <3>2. Goto(p, "import_tpm")
      BY <2>1, <2>3, <3>1
    <3>3. QED
      BY <1>1, <1>3, <2>1, <2>3, <3>1, <3>2, LinuxStartStep
  <2>4. CASE o \notin {"import", "import_force"} /\ file # None
    <3>1. Keep(p, None) /\ Goto(p, "read_file")
      BY <2>1, <2>4
    <3>2. QED
      BY <1>1, <1>3, <2>4, <3>1, LinuxStartStep
  <2>5. CASE o \notin {"import", "import_force"} /\ file = None
    <3>1. Keep(p, None) /\ (Goto(p, "get_tpm") \/ Goto(p, "check_tpm"))
      BY <2>1, <2>5
    <3>2. QED
      BY <1>1, <1>3, <2>5, <3>1, LinuxStartStep
  <2>6. QED
    BY <2>1, <2>2, <2>3, <2>4, <2>5
<1>6. QED
  BY <1>4, <1>5

\* Every step of a Linux behaviour keeps the invariant.
LEMMA LinuxNextInv ==
    ASSUME LinuxInv, StoreNext, split' = split \union NewlySplit
    PROVE  LinuxInv'
<1>1. ASSUME NEW p \in Procs, at[p] # "idle", NEW l, Goto(p, l)
      PROVE  split' = split
  <2>1. \A q \in Procs : q # p => at'[q] = at[q]
    BY <1>1 DEF LinuxInv, LinuxTypes, Goto
  <2>2. NewlySplit = {}
    BY <1>1, <2>1 DEF NewlySplit
  <2>3. QED
    BY <2>2
<1>2. ASSUME NEW p \in Procs, NEW o \in Ops, Start(p, o)
      PROVE  LinuxInv'
  BY <1>2, LinuxStart
<1>3. ASSUME NEW p \in Procs,
             CheckTpm(p) \/ GetTpm(p) \/ GetOrCreateTpm(p) \/ GetCreatedTpm(p)
      PROVE  LinuxInv'
  <2>1. at[p] # "idle" /\ \E l : Goto(p, l)
    BY <1>3 DEF CheckTpm, GetTpm, GetOrCreateTpm, GetCreatedTpm, Succeed, Fail
  <2>2. QED
    BY <1>1, <1>3, <2>1, LinuxReads
<1>4. ASSUME NEW p \in Procs,
             GetFile(p) \/ ReadFile(p) \/ CompareTpm(p) \/ RecheckTpm(p)
      PROVE  LinuxInv'
  <2>1. at[p] # "idle" /\ \E l : Goto(p, l)
    BY <1>4 DEF GetFile, ReadFile, CompareTpm, RecheckTpm, Succeed, Fail
  <2>2. QED
    BY <1>1, <1>4, <2>1, LinuxFileReads
<1>5. ASSUME NEW p \in Procs, CreateTpm(p) \/ Migrate(p) \/ ImportTpm(p)
      PROVE  LinuxInv'
  <2>1. at[p] # "idle" /\ \E l : Goto(p, l)
    BY <1>5 DEF CreateTpm, Migrate, ImportTpm, Succeed, Fail
  <2>2. QED
    BY <1>1, <1>5, <2>1, LinuxTpmWrites
<1>6. ASSUME NEW p \in Procs, CreateFile(p) \/ ImportFile(p)
      PROVE  LinuxInv'
  <2>1. at[p] # "idle" /\ \E l : Goto(p, l)
    BY <1>6 DEF CreateFile, ImportFile, Fail
  <2>2. QED
    BY <1>1, <1>6, <2>1, LinuxFileWrites
<1>7. ASSUME NEW p \in Procs, SyncParentDir(p)
      PROVE  LinuxInv'
  <2>1. at[p] # "idle" /\ \E l : Goto(p, l)
    BY <1>7 DEF SyncParentDir, Succeed
  <2>2. QED
    BY <1>1, <1>7, <2>1, LinuxSync
<1>8. ASSUME NEW p \in Procs, Killed(p)
      PROVE  LinuxInv'
  <2>1. at[p] # "idle" /\ Fail(p) /\ ReadOnly
    BY <1>8 DEF Killed, Running
  <2>2. QED
    BY <1>1, <2>1, LinuxFailStep DEF Fail
<1>9. CASE PowerLoss
  <2>1. \A q \in Procs : at[q] = "idle" => at'[q] = "idle"
    BY <1>9 DEF PowerLoss, Running
  <2>2. split' = split
    BY <2>1 DEF NewlySplit
  <2>3. QED
    BY <1>9, <2>2, LinuxPowerLoss
<1>10. QED
  BY <1>2, <1>3, <1>4, <1>5, <1>6, <1>7, <1>8, <1>9 DEF StoreNext

\* What is on disk gives way to a forced import only.
LEMMA LinuxForcedStep ==
    ASSUME LinuxInv, StoreNext
    PROVE  OverwriteIsForced
<1>1. /\ synced' # synced => synced'.file \in {file, synced.file}
      /\ synced' # synced => synced'.tpm \in {tpm, synced.tpm}
  <2>1. CASE PowerLoss
    BY <2>1 DEF PowerLoss
  <2>2. ASSUME NEW p \in Procs, SyncParentDir(p)
        PROVE  <1>1
    BY <2>2 DEF SyncParentDir
  <2>3. ASSUME NEW p \in Procs,
               \/ \E o \in Ops : Start(p, o)
               \/ CheckTpm(p) \/ GetTpm(p)
               \/ GetOrCreateTpm(p) \/ CreateTpm(p) \/ GetCreatedTpm(p)
               \/ GetFile(p) \/ CreateFile(p)
               \/ ReadFile(p) \/ CompareTpm(p) \/ Migrate(p) \/ RecheckTpm(p)
               \/ ImportTpm(p) \/ ImportFile(p) \/ Killed(p)
        PROVE  synced' = synced
    BY <2>3 DEF Start, CheckTpm, GetTpm, GetOrCreateTpm, CreateTpm, GetCreatedTpm,
                GetFile, CreateFile, ReadFile, CompareTpm, Migrate, RecheckTpm,
                ImportTpm, ImportFile, Killed, ReadOnly, stores
  <2>4. QED
    BY <2>1, <2>2, <2>3 DEF StoreNext
<1>2. ASSUME NEW shown, NEW disk, NEW new, OnDisk(shown, disk), disk # None,
             new \in {shown, disk}, new # disk
      PROVE  new \in ImportedKeys /\ \E p \in Procs : op[p] = "import_force"
  BY <1>2 DEF OnDisk, NobodyForces
<1>3. (synced.file # None /\ synced'.file # synced.file) =>
        synced'.file \in ImportedKeys /\ \E p \in Procs : op[p] = "import_force"
  BY <1>1, <1>2 DEF LinuxInv, SyncedInv
<1>4. (synced.tpm # None /\ synced'.tpm # synced.tpm) =>
        synced'.tpm \in ImportedKeys /\ \E p \in Procs : op[p] = "import_force"
  BY <1>1, <1>2 DEF LinuxInv, SyncedInv
<1>5. QED
  BY <1>3, <1>4 DEF OverwriteIsForced

-----------------------------------------------------------------------------
(* Linux, with a TPM that does not come and go (FallbackInv) *)

\* A step of p that leaves the file key there if it was.
LEMMA FallbackStep ==
    ASSUME LinuxInv, FallbackInv, NEW p \in Procs, NEW l, Goto(p, l), tpmMode' = tpmMode,
           file # None => file' # None,
           tpmMode = "up" /\ file = None => file' = None,
           tpmMode = "up" /\ l = "import_tpm" => file = None,
           tpmMode = "down" => tpm' = None /\ synced'.tpm = None,
           tpmMode = "up" => l \notin {"get_file", "create_file", "sync_then_get"},
           tpmMode = "up" /\ l \in {"force_tpm", "sync_then_file", "import_file"} => file # None
    PROVE  FallbackInv'
<1>1. \A q \in Procs : at'[q] = IF q = p THEN l ELSE at[q]
  BY DEF LinuxInv, LinuxTypes, Goto
<1>. QED
  BY <1>1 DEF FallbackInv

LEMMA FallbackReads ==
    ASSUME LinuxInv, FallbackInv, NEW p \in Procs,
           \/ CheckTpm(p) \/ GetTpm(p) \/ GetOrCreateTpm(p) \/ GetCreatedTpm(p)
           \/ GetFile(p) \/ ReadFile(p) \/ CompareTpm(p) \/ RecheckTpm(p) \/ Killed(p)
    PROVE  FallbackInv'
<1>1. /\ tpmMode' = tpmMode /\ file' = file /\ tpm' = tpm /\ synced' = synced
  BY DEF CheckTpm, GetTpm, GetOrCreateTpm, GetCreatedTpm, GetFile, ReadFile, CompareTpm,
         RecheckTpm, Killed, ReadOnly, stores
<1>2. LinuxHolds(p, at[p], key[p])
  BY DEF LinuxInv, LinuxProcInv
<1>3. PICK l : /\ Goto(p, l)
               /\ l \in {"get_tpm", "get_or_create", "create_tpm", "create_file", "get_file",
                         "compare", "migrate", "done", "failed"}
               /\ tpmMode = "up" => l \notin {"get_file", "create_file"}
  <2>1. CASE CheckTpm(p) \/ GetTpm(p) \/ ReadFile(p) \/ CompareTpm(p) \/ RecheckTpm(p) \/ Killed(p)
    BY <2>1 DEF CheckTpm, GetTpm, ReadFile, CompareTpm, RecheckTpm, Killed, Succeed, Fail
  <2>2. CASE GetOrCreateTpm(p) \/ GetCreatedTpm(p)
    <3>1. \A k \in UnsealMasterKey : tpmMode = "up" => k = tpm
      BY TpmAnswers
    <3>2. at[p] = "get_created" => tpm # None
      BY <1>2 DEF LinuxHolds
    <3>. QED
      BY <2>2, <3>1, <3>2 DEF GetOrCreateTpm, GetCreatedTpm, Succeed
  <2>3. CASE GetFile(p)
    BY <2>3 DEF GetFile, Succeed, FallbackInv
  <2>. QED
    BY <2>1, <2>2, <2>3
<1>. QED
  BY <1>1, <1>3, FallbackStep DEF FallbackInv

LEMMA FallbackWrites ==
    ASSUME LinuxInv, FallbackInv, NEW p \in Procs,
           \/ CreateTpm(p) \/ Migrate(p) \/ ImportTpm(p)
           \/ CreateFile(p) \/ ImportFile(p) \/ SyncParentDir(p)
    PROVE  FallbackInv'
<1>1. LinuxHolds(p, at[p], key[p])
  BY DEF LinuxInv, LinuxProcInv
<1>2. at[p] \in {"create_tpm", "migrate", "import_tpm", "force_tpm", "create_file", "import_file"}
         => key[p] # None
  BY <1>1, FreshKeys, LinuxConstants DEF LinuxHolds
<1>3. \A b \in SealMasterKey(key[p]) : /\ tpmMode = "up" => b = key[p]
                                       /\ tpmMode = "down" => b = None
  BY TpmAnswers
<1>4. CASE CreateTpm(p)
  <2>1. /\ tpmMode' = tpmMode /\ file' = file /\ synced' = synced
        /\ tpmMode = "down" => tpm' = tpm
    BY <1>3, <1>4 DEF CreateTpm
  <2>2. PICK l : /\ Goto(p, l) /\ l \in {"get_file", "sync", "get_created"}
                 /\ tpmMode = "up" => l # "get_file"
    BY <1>2, <1>3, <1>4 DEF CreateTpm
  <2>. QED
    BY <2>1, <2>2, FallbackStep DEF FallbackInv
<1>5. CASE Migrate(p)
  <2>1. /\ tpmMode' = tpmMode /\ file' = file /\ synced' = synced
        /\ tpmMode = "down" => tpm' = tpm
    BY <1>3, <1>5 DEF Migrate
  <2>2. PICK l : Goto(p, l) /\ l \in {"done", "sync", "recheck"}
    BY <1>5 DEF Migrate, Succeed
  <2>. QED
    BY <2>1, <2>2, FallbackStep DEF FallbackInv
<1>6. CASE ImportTpm(p)
  <2>1. /\ tpmMode' = tpmMode /\ file' = file /\ synced' = synced
        /\ tpmMode = "down" => tpm' = tpm
    BY <1>3, <1>6 DEF ImportTpm
  <2>2. PICK l : /\ Goto(p, l) /\ l \in {"failed", "import_file", "sync", "sync_then_file"}
                 /\ tpmMode = "up" => l # "import_file"
                 /\ l = "sync_then_file" => at[p] = "force_tpm"
    BY <1>2, <1>3, <1>6 DEF ImportTpm, Fail
  <2>. QED
    BY <2>1, <2>2, FallbackStep DEF FallbackInv
<1>7. CASE CreateFile(p)
  <2>1. /\ tpmMode' = tpmMode /\ (file # None => file' # None)
        /\ tpm' = tpm /\ synced' = synced /\ tpmMode # "up"
    BY <1>7 DEF CreateFile, FallbackInv
  <2>2. PICK l : Goto(p, l)
    BY <1>7 DEF CreateFile
  <2>3. tpmMode = "down" => tpm' = None /\ synced'.tpm = None
    BY <2>1 DEF FallbackInv
  <2>. QED
    BY <2>1, <2>2, <2>3, FallbackStep
<1>8. CASE ImportFile(p)
  <2>1. /\ tpmMode' = tpmMode /\ (file # None => file' # None)
        /\ tpm' = tpm /\ synced' = synced
        /\ tpmMode = "up" => file # None
    BY <1>2, <1>8 DEF ImportFile, FallbackInv
  <2>2. PICK l : Goto(p, l) /\ l \in {"sync", "failed"}
    BY <1>8 DEF ImportFile, Fail
  <2>3. tpmMode = "down" => tpm' = None /\ synced'.tpm = None
    BY <2>1 DEF FallbackInv
  <2>. QED
    BY <2>1, <2>2, <2>3, FallbackStep
<1>9. CASE SyncParentDir(p)
  <2>1. /\ tpmMode' = tpmMode /\ file' = file /\ tpm' = tpm
        /\ tpmMode = "down" => synced'.tpm = None
    BY <1>9 DEF SyncParentDir, FallbackInv
  <2>2. PICK l : /\ Goto(p, l) /\ l \in {"done", "get_file", "import_file"}
                 /\ l = "get_file" => at[p] = "sync_then_get"
                 /\ l = "import_file" => at[p] = "sync_then_file"
    BY <1>9 DEF SyncParentDir, Succeed
  <2>. QED
    BY <2>1, <2>2, FallbackStep DEF FallbackInv
<1>. QED
  BY <1>4, <1>5, <1>6, <1>7, <1>8, <1>9

LEMMA FallbackNext ==
    ASSUME LinuxInv, FallbackInv, StoreNext
    PROVE  FallbackInv'
<1>1. ASSUME NEW p \in Procs, NEW o \in Ops, Start(p, o) PROVE FallbackInv'
  <2>1. tpmMode' = tpmMode /\ file' = file /\ tpm' = tpm /\ synced' = synced
    BY <1>1 DEF Start, stores
  <2>2. PICK l : /\ Goto(p, l) /\ l \in {"failed", "force_tpm", "import_tpm", "read_file", "get_tpm",
                                        "check_tpm"}
                 /\ l = "force_tpm" => file # None
                 /\ l = "import_tpm" => file = None
    <3>. QED
      BY <1>1 DEF Start, Fail
  <2>. QED
    BY <2>1, <2>2, FallbackStep DEF FallbackInv
<1>2. ASSUME PowerLoss PROVE FallbackInv'
  <2>1. \A p \in Procs : at'[p] \in {"failed", "idle", "done"}
    BY <1>2 DEF PowerLoss, Running
  <2>2. tpmMode' = tpmMode /\ (tpmMode = "down" => tpm' = None /\ synced'.tpm = None)
    BY <1>2 DEF PowerLoss, FallbackInv
  <2>. QED
    BY <2>1, <2>2 DEF FallbackInv
<1>. QED
  BY <1>1, <1>2, FallbackReads, FallbackWrites DEF StoreNext

\* Who makes a file key does so beside no TPM blob.
LEMMA FallbackMade ==
    ASSUME LinuxInv, FallbackInv, StoreNext, tpmMode # "flaky", file = None, file' # None
    PROVE  tpm = None
<1>1. CASE PowerLoss
  BY <1>1, LinuxConstants DEF PowerLoss, LinuxInv, SyncedInv, OnDisk
<1>2. CASE ~PowerLoss
  <2>1. PICK p \in Procs : CreateFile(p) \/ ImportFile(p)
    BY <1>2 DEF StoreNext, Start, CheckTpm, GetTpm, GetOrCreateTpm, CreateTpm, GetCreatedTpm,
                GetFile, ReadFile, CompareTpm, Migrate, RecheckTpm, ImportTpm, SyncParentDir,
                Killed, ReadOnly, stores
  <2>. QED
    BY <2>1, StoreAssumption DEF CreateFile, ImportFile, FallbackInv, LinuxInv, LinuxTypes
<1>. QED
  BY <1>1, <1>2

-----------------------------------------------------------------------------
(* Forced imports without a rival (AloneInv) *)

\* The steps of one process.
LinuxStep(q) ==
    \/ \E o \in Ops : Start(q, o)
    \/ CheckTpm(q) \/ GetTpm(q)
    \/ GetOrCreateTpm(q) \/ CreateTpm(q) \/ GetCreatedTpm(q)
    \/ GetFile(q) \/ CreateFile(q)
    \/ ReadFile(q) \/ CompareTpm(q) \/ Migrate(q) \/ RecheckTpm(q)
    \/ ImportTpm(q) \/ ImportFile(q)
    \/ SyncParentDir(q)
    \/ Killed(q)

MacStep(q) ==
    \/ \E o \in Ops : Mac!Start(q, o)
    \/ Mac!ReadFile(q) \/ Mac!Compare(q) \/ Mac!Migrate(q) \/ Mac!Recompare(q)
    \/ Mac!Read(q) \/ Mac!Create(q) \/ Mac!ReadCreated(q)
    \/ Mac!Import(q) \/ Mac!Replace(q) \/ Mac!ReplaceFile(q)
    \/ Mac!Killed(q)

\* A step of q, and the stores beside it.
OneStep(q) ==
    \/ platform = "linux" /\ LinuxStep(q) /\ keychain' = keychain
    \/ platform = "macos" /\ MacStep(q) /\ UNCHANGED <<tpmMode, tpm, synced, powerLost>>

\* A step of q is a step of nobody else.
LEMMA StepOfOne ==
    ASSUME AutoInv, NEW p \in Procs, NEW q \in Procs, p # q, OneStep(q)
    PROVE  at'[p] = at[p] /\ key'[p] = key[p] /\ op'[p] = op[p]
<1>1. /\ at \in [Procs -> LinuxLabels \union MacLabels] /\ DOMAIN key = Procs /\ DOMAIN op = Procs
  BY DEF AutoInv, LinuxInv, LinuxTypes, MacInv, Mac!MacTypeOK, MacLabels
<1>2. CASE LinuxStep(q)
  <2>1. at' = [at EXCEPT ![q] = at'[q]]
    BY <1>1, <1>2 DEF LinuxStep, Start, CheckTpm, GetTpm, GetOrCreateTpm, CreateTpm,
        GetCreatedTpm, GetFile, CreateFile, ReadFile, CompareTpm, Migrate, RecheckTpm,
        ImportTpm, ImportFile, SyncParentDir, Killed, Succeed, Fail, Goto
  <2>2. key' = key \/ \E k : key' = [key EXCEPT ![q] = k]
    BY <1>2 DEF LinuxStep, Start, CheckTpm, GetTpm, GetOrCreateTpm, CreateTpm,
        GetCreatedTpm, GetFile, CreateFile, ReadFile, CompareTpm, Migrate, RecheckTpm,
        ImportTpm, ImportFile, SyncParentDir, Killed, Succeed, Fail, Keep
  <2>3. op' = op \/ \E o : op' = [op EXCEPT ![q] = o]
    BY <1>2 DEF LinuxStep, Start, CheckTpm, GetTpm, GetOrCreateTpm, CreateTpm,
        GetCreatedTpm, GetFile, CreateFile, ReadFile, CompareTpm, Migrate, RecheckTpm,
        ImportTpm, ImportFile, SyncParentDir, Killed, ReadOnly
  <2>. QED
    BY <1>1, <2>1, <2>2, <2>3
<1>3. CASE MacStep(q)
  <2>1. at' = [at EXCEPT ![q] = at'[q]]
    BY <1>1, <1>3 DEF MacStep, Mac!Start, Mac!ReadFile, Mac!Compare, Mac!Migrate,
        Mac!Recompare, Mac!Read, Mac!Create, Mac!ReadCreated, Mac!Import, Mac!Replace,
        Mac!ReplaceFile, Mac!Killed, Mac!Succeed, Mac!Fail, Mac!Goto
  <2>2. key' = key \/ \E k : key' = [key EXCEPT ![q] = k]
    BY <1>3 DEF MacStep, Mac!Start, Mac!ReadFile, Mac!Compare, Mac!Migrate,
        Mac!Recompare, Mac!Read, Mac!Create, Mac!ReadCreated, Mac!Import, Mac!Replace,
        Mac!ReplaceFile, Mac!Killed, Mac!Succeed, Mac!Fail, Mac!Keep
  <2>3. op' = op \/ \E o : op' = [op EXCEPT ![q] = o]
    BY <1>3 DEF MacStep, Mac!Start, Mac!ReadFile, Mac!Compare, Mac!Migrate,
        Mac!Recompare, Mac!Read, Mac!Create, Mac!ReadCreated, Mac!Import, Mac!Replace,
        Mac!ReplaceFile, Mac!Killed, Mac!ReadOnly
  <2>. QED
    BY <1>1, <2>1, <2>2, <2>3
<1>. QED
  BY <1>2, <1>3 DEF OneStep

\* What a process that forces no other key than k may write: it fills an empty
\* store, or writes k.
LEMMA OthersWrite ==
    ASSUME AutoInv, NEW q \in Procs, OneStep(q), NEW k, Forced(q) /\ Running(q) => key[q] = k
    PROVE  /\ tpmMode' = tpmMode
           /\ tpm' = tpm \/ tpm = None \/ tpm' = k
           /\ keychain' = keychain \/ keychain = None \/ keychain' = k
           /\ \/ file' = file \/ file' = k
              \/ file = None /\ platform = "linux" /\ tpmMode # "up"
           /\ \/ synced' = synced
              \/ file' = file /\ tpm' = tpm /\ synced'.file = file /\ synced'.tpm = tpm
<1>1. CASE platform = "linux"
  <2>1. LinuxStep(q) /\ keychain' = keychain /\ LinuxInv /\ FallbackInv
    BY <1>1 DEF OneStep, AutoInv
  <2>2. LinuxHolds(q, at[q], key[q])
    BY <2>1 DEF LinuxInv, LinuxProcInv
  <2>3. CASE CreateTpm(q) \/ Migrate(q)
    BY <2>1, <2>3 DEF CreateTpm, Migrate
  <2>4. CASE ImportTpm(q)
    <3>1. PICK b \in SealMasterKey(key[q]) :
            \/ tpm' = tpm
            \/ b # None /\ (tpm = None \/ Forced(q)) /\ tpm' = b
      BY <2>4 DEF ImportTpm
    <3>2. b \in {key[q], None}
      BY TpmAnswers
    <3>3. Running(q)
      BY <2>4 DEF ImportTpm, Running
    <3>. QED
      BY <2>1, <2>4, <3>1, <3>2, <3>3 DEF ImportTpm
  <2>5. CASE CreateFile(q)
    <3>1. tpmMode # "up"
      BY <2>1, <2>5 DEF CreateFile, FallbackInv
    <3>. QED
      BY <1>1, <2>1, <2>5, <3>1 DEF CreateFile
  <2>6. CASE ImportFile(q)
    <3>1. Running(q) /\ (tpmMode = "up" => file # None)
      BY <2>1, <2>6 DEF ImportFile, Running, FallbackInv
    <3>. QED
      BY <1>1, <2>1, <2>6, <3>1 DEF ImportFile
  <2>7. CASE SyncParentDir(q)
    BY <2>1, <2>7 DEF SyncParentDir
  <2>8. CASE \/ \E o \in Ops : Start(q, o)
             \/ CheckTpm(q) \/ GetTpm(q) \/ GetOrCreateTpm(q) \/ GetCreatedTpm(q)
             \/ GetFile(q) \/ ReadFile(q) \/ CompareTpm(q) \/ RecheckTpm(q) \/ Killed(q)
    BY <2>1, <2>8 DEF Start, CheckTpm, GetTpm, GetOrCreateTpm, GetCreatedTpm, GetFile,
        ReadFile, CompareTpm, RecheckTpm, Killed, ReadOnly, stores
  <2>. QED
    BY <2>1, <2>3, <2>4, <2>5, <2>6, <2>7, <2>8 DEF LinuxStep
<1>2. CASE platform = "macos"
  <2>1. MacStep(q) /\ UNCHANGED <<tpmMode, tpm, synced, powerLost>>
    BY <1>2 DEF OneStep
  <2>2. MacHolds(q, at[q], key[q])
    BY <1>2 DEF AutoInv, MacInv, MacProcInv
  <2>3. at[q] \in {"replace", "replace_both", "replace_file"} => key[q] = k
    BY <2>2 DEF MacHolds, Mac!Forced, Forced, Running
  <2>4. CASE Mac!Replace(q) \/ Mac!ReplaceFile(q)
    BY <2>1, <2>3, <2>4 DEF Mac!Replace, Mac!ReplaceFile
  <2>5. CASE Mac!Migrate(q) \/ Mac!Create(q) \/ Mac!Import(q)
    BY <2>1, <2>5 DEF Mac!Migrate, Mac!Create, Mac!Import
  <2>6. CASE \/ \E o \in Ops : Mac!Start(q, o)
             \/ Mac!ReadFile(q) \/ Mac!Compare(q) \/ Mac!Recompare(q)
             \/ Mac!Read(q) \/ Mac!ReadCreated(q) \/ Mac!Killed(q)
    BY <2>1, <2>6 DEF Mac!Start, Mac!ReadFile, Mac!Compare, Mac!Recompare, Mac!Read,
        Mac!ReadCreated, Mac!Killed, Mac!ReadOnly
  <2>. QED
    BY <2>1, <2>4, <2>5, <2>6 DEF MacStep
<1>. QED
  BY <1>1, <1>2 DEF AutoInv

\* The step of another process leaves what p has written where it is.
LEMMA OthersKeep ==
    ASSUME AutoInv, NEW p \in alone, NEW q \in Procs, p # q, OneStep(q), platform' = platform
    PROVE  /\ key'[p] \in ImportedKeys
           /\ platform' = "macos" => MacAlone(at[p], key[p])'
           /\ platform' = "linux" => LinuxAlone(at[p], key[p])'
<1> DEFINE k == key[p]
<1>1. /\ p \in Procs /\ Rivals(p) = {} /\ k \in ImportedKeys /\ k # None
      /\ platform = "macos" => MacAlone(at[p], k)
      /\ platform = "linux" => LinuxAlone(at[p], k)
  BY StoreAssumption DEF AutoInv, AloneInv
<1>2. Forced(q) /\ Running(q) => key[q] = k
  BY <1>1 DEF Rivals
<1>3. at'[p] = at[p] /\ key'[p] = k
  BY <1>1, StepOfOne
<1> HIDE DEF k
<1>4. /\ tpmMode' = tpmMode
      /\ tpm' = tpm \/ tpm = None \/ tpm' = k
      /\ keychain' = keychain \/ keychain = None \/ keychain' = k
      /\ \/ file' = file \/ file' = k
         \/ file = None /\ platform = "linux" /\ tpmMode # "up"
      /\ \/ synced' = synced
         \/ file' = file /\ tpm' = tpm /\ synced'.file = file /\ synced'.tpm = tpm
  BY <1>2, OthersWrite
<1>5. platform = "macos" => MacAlone(at[p], key[p])'
  BY <1>1, <1>3, <1>4 DEF MacAlone
<1>6. platform = "linux" => LinuxAlone(at[p], key[p])'
  BY <1>1, <1>3, <1>4 DEF LinuxAlone
<1>. QED
  BY <1>1, <1>3, <1>4, <1>5, <1>6

\* p's own steps.
LEMMA LinuxOwnStep ==
    ASSUME AutoInv, NEW p \in alone, platform = "linux", LinuxStep(p), at'[p] # "failed"
    PROVE  key'[p] \in ImportedKeys /\ LinuxAlone(at[p], key[p])'
<1> DEFINE k == key[p]
<1>1. /\ p \in Procs /\ Forced(p) /\ k \in ImportedKeys /\ k # None
      /\ LinuxInv /\ FallbackInv /\ LinuxAlone(at[p], k)
  BY StoreAssumption DEF AutoInv, AloneInv
<1>2. DOMAIN at = Procs /\ DOMAIN key = Procs
  BY <1>1 DEF LinuxInv, LinuxTypes
<1>3. ASSUME NEW l, Goto(p, l) PROVE at'[p] = l
  BY <1>1, <1>2, <1>3 DEF Goto
<1>4. ASSUME Keep(p, k) \/ key' = key PROVE key'[p] = k
  BY <1>1, <1>2, <1>4 DEF Keep
<1>5. ~Fail(p)
  BY <1>3 DEF Fail
<1>6. ImportTpm(p) \/ ImportFile(p) \/ SyncParentDir(p)
  BY <1>1, <1>5 DEF LinuxAlone, LinuxStep, Start, CheckTpm, GetTpm, GetOrCreateTpm, CreateTpm,
      GetCreatedTpm, GetFile, CreateFile, ReadFile, CompareTpm, Migrate, RecheckTpm, Killed
<1>7. CASE ImportTpm(p)
  <2>1. PICK b \in SealMasterKey(k) :
          /\ \/ tpm = None /\ b = None /\ Goto(p, "import_file") /\ tpm' = tpm
             \/ b # None /\ tpm' = b
                /\ Goto(p, IF at[p] = "force_tpm" THEN "sync_then_file" ELSE "sync")
          /\ key' = key
    BY <1>5, <1>7 DEF ImportTpm
  <2>2. /\ b \in {k, None}
        /\ tpmMode = "up" => b = k
        /\ tpmMode = "down" => b = None
    BY TpmAnswers
  <2>3. /\ at[p] \in {"import_tpm", "force_tpm"} /\ tpmMode' = tpmMode
        /\ file' = file /\ synced' = synced /\ key'[p] = k
    BY <1>4, <1>7, <2>1 DEF ImportTpm
  <2>4. tpmMode = "up" /\ at[p] = "import_tpm" => file = None
    BY <1>1 DEF FallbackInv
  <2>5. CASE b = None
    <3>1. at'[p] = "import_file" /\ tpmMode # "up"
      BY <1>1, <1>3, <2>1, <2>2, <2>5
    <3>. QED
      BY <1>1, <2>3, <3>1 DEF LinuxAlone
  <2>6. CASE b # None
    <3>1. /\ at'[p] = IF at[p] = "force_tpm" THEN "sync_then_file" ELSE "sync"
          /\ tpm' = k /\ tpmMode # "down"
      BY <1>3, <2>1, <2>2, <2>6
    <3>. QED
      BY <1>1, <2>3, <2>4, <3>1 DEF LinuxAlone
  <2>. QED
    BY <2>5, <2>6
<1>8. CASE ImportFile(p)
  <2>1. /\ at'[p] = "sync" /\ key'[p] = k /\ file' = k
        /\ at[p] = "import_file" /\ tpmMode' = tpmMode /\ tpm' = tpm /\ synced' = synced
    BY <1>3, <1>4, <1>5, <1>8 DEF ImportFile
  <2>. QED
    BY <1>1, <2>1 DEF LinuxAlone
<1>9. CASE SyncParentDir(p)
  <2>1. /\ tpmMode' = tpmMode /\ tpm' = tpm /\ file' = file /\ key'[p] = k
        /\ synced'.file = file /\ synced'.tpm = tpm
    BY <1>4, <1>9 DEF SyncParentDir, Succeed
  <2>2. \/ at[p] = "sync" /\ at'[p] = "done"
        \/ at[p] = "sync_then_file" /\ at'[p] = "import_file"
    BY <1>1, <1>3, <1>9 DEF SyncParentDir, Succeed, LinuxAlone
  <2>. QED
    BY <1>1, <2>1, <2>2 DEF LinuxAlone
<1>. QED
  BY <1>6, <1>7, <1>8, <1>9

LEMMA MacOwnStep ==
    ASSUME AutoInv, NEW p \in alone, platform = "macos", MacStep(p), at'[p] # "failed"
    PROVE  key'[p] \in ImportedKeys /\ MacAlone(at[p], key[p])'
<1> DEFINE k == key[p]
<1>1. /\ p \in Procs /\ k \in ImportedKeys /\ MacInv /\ MacAlone(at[p], k)
  BY DEF AutoInv, AloneInv
<1>2. DOMAIN at = Procs /\ DOMAIN key = Procs
  BY <1>1 DEF MacInv, Mac!MacTypeOK
<1>3. ASSUME NEW l, Mac!Goto(p, l) PROVE at'[p] = l
  BY <1>1, <1>2, <1>3 DEF Mac!Goto
<1>4. ASSUME Mac!Keep(p, k) \/ key' = key PROVE key'[p] = k
  BY <1>1, <1>2, <1>4 DEF Mac!Keep
<1>5. ~Mac!Fail(p)
  BY <1>3 DEF Mac!Fail
<1>6. Mac!Replace(p) \/ Mac!ReplaceFile(p)
  BY <1>1, <1>5 DEF MacAlone, MacStep, Mac!Start, Mac!ReadFile, Mac!Compare, Mac!Migrate,
      Mac!Recompare, Mac!Read, Mac!Create, Mac!ReadCreated, Mac!Import, Mac!Killed
<1>7. MacHolds(p, at[p], k)
  BY <1>1 DEF MacInv, MacProcInv
<1>8. CASE Mac!Replace(p)
  <2>1. /\ keychain' = k /\ file' = file /\ key'[p] = k
        /\ \/ at[p] = "replace" /\ at'[p] = "done"
           \/ at[p] = "replace_both" /\ at'[p] = "replace_file"
    BY <1>3, <1>4, <1>5, <1>8 DEF Mac!Replace, Mac!Succeed
  <2>. QED
    BY <1>1, <1>7, <2>1 DEF MacAlone, MacHolds
<1>9. CASE Mac!ReplaceFile(p)
  <2>1. /\ at[p] = "replace_file" /\ at'[p] = "done"
        /\ file' = k /\ keychain' = keychain /\ key'[p] = k
    BY <1>3, <1>4, <1>9 DEF Mac!ReplaceFile, Mac!Succeed
  <2>. QED
    BY <1>1, <2>1 DEF MacAlone
<1>. QED
  BY <1>6, <1>8, <1>9

\* A forced import that begins.
LEMMA BeginsAlone ==
    ASSUME AutoInv, NEW p \in Procs, OneStep(p), at[p] = "idle", Forced(p)', at'[p] # "failed"
    PROVE  /\ key'[p] \in ImportedKeys
           /\ platform = "macos" => MacAlone(at[p], key[p])'
           /\ platform = "linux" => LinuxAlone(at[p], key[p])'
<1>1. CASE platform = "linux"
  <2>1. LinuxInv /\ LinuxStep(p)
    BY <1>1 DEF AutoInv, OneStep
  <2>2. PICK o \in Ops : Start(p, o)
    BY <2>1 DEF LinuxStep, CheckTpm, GetTpm, GetOrCreateTpm, CreateTpm, GetCreatedTpm,
        GetFile, CreateFile, ReadFile, CompareTpm, Migrate, RecheckTpm, ImportTpm, ImportFile,
        SyncParentDir, Killed, Running
  <2>3. o = "import_force"
    BY <2>1, <2>2 DEF Start, Forced, LinuxInv, LinuxTypes
  <2>4. PICK kk \in ImportedKeys : Keep(p, kk) /\ (Goto(p, "force_tpm") \/ Goto(p, "import_tpm"))
    <3>1. PICK kk \in ImportedKeys :
            /\ Keep(p, kk)
            /\ Goto(p, CASE kk # None /\ file # None -> "force_tpm"
                         [] kk # None /\ file = None -> "import_tpm"
                         [] kk = None /\ file # None -> "read_file"
                         [] kk = None /\ file = None /\ o = "load" -> "get_tpm"
                         [] OTHER -> "check_tpm")
      BY <2>2, <2>3 DEF Start
    <3>2. kk # None
      BY LinuxConstants
    <3>3. CASE file = None
      BY <3>1, <3>2, <3>3
    <3>4. CASE file # None
      BY <3>1, <3>2, <3>4
    <3>. QED
      BY <3>3, <3>4
  <2>5. key'[p] = kk /\ at'[p] \in {"force_tpm", "import_tpm"}
    BY <2>1, <2>4 DEF Keep, Goto, LinuxInv, LinuxTypes
  <2>. QED
    BY <1>1, <2>5 DEF LinuxAlone
<1>2. CASE platform = "macos"
  <2>1. MacInv /\ MacStep(p)
    BY <1>2 DEF AutoInv, OneStep
  <2>2. PICK o \in Ops : Mac!Start(p, o)
    BY <2>1 DEF MacStep, Mac!ReadFile, Mac!Compare, Mac!Migrate, Mac!Recompare, Mac!Read,
        Mac!Create, Mac!ReadCreated, Mac!Import, Mac!Replace, Mac!ReplaceFile, Mac!Killed,
        Mac!Running
  <2>3. o = "import_force"
    BY <2>1, <2>2 DEF Mac!Start, Forced, MacInv, Mac!MacTypeOK
  <2>4. PICK kk \in ImportedKeys :
          Mac!Keep(p, kk) /\ (Mac!Goto(p, "replace_both") \/ Mac!Goto(p, "replace"))
    BY <2>2, <2>3 DEF Mac!Start
  <2>5. key'[p] = kk /\ at'[p] \in {"replace_both", "replace"}
    BY <2>1, <2>4 DEF Mac!Keep, Mac!Goto, MacInv, Mac!MacTypeOK
  <2>. QED
    BY <1>2, <2>5 DEF MacAlone
<1>. QED
  BY <1>1, <1>2 DEF AutoInv

\* A power loss ends whoever is running, and what a forced import that is done wrote
\* was synced.
LEMMA PowerLossAlone ==
    ASSUME AutoInv, NEW p \in alone, platform = "linux", PowerLoss, at'[p] # "failed"
    PROVE  key'[p] \in ImportedKeys /\ LinuxAlone(at[p], key[p])'
<1>1. /\ p \in Procs /\ key[p] \in ImportedKeys /\ LinuxAlone(at[p], key[p])
  BY DEF AutoInv, AloneInv
<1>2. at[p] = "done" /\ at'[p] = "done" /\ key'[p] = key[p]
  BY <1>1 DEF PowerLoss, Running, LinuxAlone
<1>3. /\ tpmMode' = tpmMode
      /\ file' \in {file, synced.file} /\ tpm' \in {tpm, synced.tpm}
      /\ synced'.file = file' /\ synced'.tpm = tpm'
  BY DEF PowerLoss
<1>. QED
  BY <1>1, <1>2, <1>3 DEF LinuxAlone

LEMMA AloneNext ==
    ASSUME AutoInv, AutoNext
    PROVE  AloneInv'
<1>1. /\ platform' = platform
      /\ alone' = {p \in Procs : /\ p \in alone \/ Begins(p)
                                 /\ (Forced(p) /\ at[p] # "failed" /\ Rivals(p) = {})'}
  BY DEF AutoNext
<1>2. SUFFICES ASSUME NEW p \in alone'
               PROVE  /\ key'[p] \in ImportedKeys
                      /\ platform = "macos" => MacAlone(at[p], key[p])'
                      /\ platform = "linux" => LinuxAlone(at[p], key[p])'
  BY <1>1 DEF AloneInv
<1>3. /\ p \in Procs
      /\ p \in alone \/ (at[p] = "idle" /\ at'[p] # "idle")
      /\ Forced(p)' /\ at'[p] # "failed"
  BY <1>1 DEF Begins
<1>4. CASE platform = "linux" /\ PowerLoss
  <2>1. at[p] = "idle" => at'[p] = "idle"
    BY <1>3, <1>4 DEF PowerLoss, Running
  <2>. QED
    BY <1>3, <1>4, <2>1, PowerLossAlone
<1>5. CASE ~(platform = "linux" /\ PowerLoss)
  <2>1. PICK q \in Procs : OneStep(q)
    BY <1>5 DEF AutoNext, StoreNext, Mac!MacNext, OneStep, LinuxStep, MacStep
  <2>2. CASE q = p /\ at[p] = "idle"
    BY <1>3, <2>1, <2>2, BeginsAlone
  <2>3. CASE q = p /\ at[p] # "idle"
    BY <1>3, <2>1, <2>3, LinuxOwnStep, MacOwnStep DEF OneStep
  <2>4. CASE q # p
    <3>1. at'[p] = at[p]
      BY <1>3, <2>1, <2>4, StepOfOne
    <3>. QED
      BY <1>1, <1>3, <2>1, <2>4, <3>1, OthersKeep
  <2>. QED
    BY <2>2, <2>3, <2>4
<1>. QED
  BY <1>4, <1>5

-----------------------------------------------------------------------------
(* Both platforms *)

\* The strengthening implies the type invariant and the safety properties.
LEMMA LinuxInvImplies ==
    ASSUME LinuxInv
    PROVE  /\ StoreTypeOK /\ OneMasterKey /\ ReturnedKeyIsStored
           /\ (tpmMode = "up" /\ ~powerLost) =>
                    \A p \in split : at[p] = "done" => key[p] \in ImportedKeys
<1>1. \A p \in Procs : at[p] = "done" => key[p] # None
  BY DEF LinuxInv, LinuxProcInv, LinuxHolds
<1>2. \A p, q \in Procs : (p # q /\ key[p] \in Fresh(q)) =>
            key[p] \in {file, tpm} \/ powerLost \/ ~NobodyForces
  <2>1. SUFFICES ASSUME NEW p \in Procs, NEW q \in Procs, p # q, key[p] \in Fresh(q),
                        ~powerLost, NobodyForces
                 PROVE  key[p] \in {file, tpm}
    OBVIOUS
  <2>2. key[p] \in {None, file, tpm} \union ImportedKeys \union Fresh(p)
    BY <2>1 DEF LinuxInv, LinuxQuietInv, LinuxQuiet
  <2>3. QED
    BY <2>1, <2>2, FreshKeys
<1>3. StoreTypeOK
  BY <1>1, <1>2 DEF LinuxInv, LinuxTypes, LinuxLabels, StoreTypeOK
<1>4. ReturnedKeyIsStored
  BY DEF LinuxInv, LinuxQuietInv, LinuxQuiet, ReturnedKeyIsStored
<1>5. OneMasterKey
  <2>1. SUFFICES ASSUME NobodyForces, tpmMode # "flaky"
                 PROVE  /\ \A p, q \in Procs : (at[p] = "done" /\ at[q] = "done") =>
                                key[p] = key[q] \/ powerLost
                        /\ (file # None /\ tpm # None) => file = tpm
    BY DEF OneMasterKey
  <2>2. tpmMode \in {"up", "down"}
    BY <2>1, StoreAssumption DEF LinuxInv, LinuxTypes
  <2>3. (file # None /\ tpm # None) => file = tpm
    BY <2>1, <2>2 DEF LinuxInv, SteadyTpmInv
  <2>4. QED
    BY <1>1, <1>4, <2>1, <2>3 DEF ReturnedKeyIsStored
<1>6. (tpmMode = "up" /\ ~powerLost) =>
            \A p \in split : at[p] = "done" => key[p] \in ImportedKeys
  BY DEF LinuxInv, SplitInv, MeetsImport
<1>7. QED
  BY <1>3, <1>4, <1>5, <1>6

LEMMA MacInvImplies ==
    ASSUME MacInv
    PROVE  Mac!MacTypeOK /\ Mac!OneKeychainKey /\ Mac!ForcedImportWins
<1>1. Mac!MacTypeOK
  BY DEF MacInv
<1>2. Mac!OneKeychainKey
  <2>1. SUFFICES ASSUME Mac!NobodyForces
                 PROVE  /\ \A p, q \in Procs : (at[p] = "done" /\ at[q] = "done") =>
                                key[p] = key[q]
                        /\ \A p \in Procs : at[p] = "done" => key[p] \in {file, keychain}
                        /\ (file # None /\ keychain # None) => file = keychain
    BY DEF Mac!OneKeychainKey
  <2>2. \A p \in Procs : at[p] = "done" => key[p] # None
    BY DEF MacInv, MacProcInv, MacHolds
  <2>3. /\ \A p \in Procs : at[p] = "done" => key[p] \in {file, keychain}
        /\ (file # None /\ keychain # None) => file = keychain
    BY <2>1 DEF MacInv, MacQuietInv, MacQuiet
  <2>4. QED
    BY <2>2, <2>3
<1>3. Mac!ForcedImportWins
  BY DEF MacInv, MacProcInv, MacHolds, Mac!ForcedImportWins
<1>4. QED
  BY <1>1, <1>2, <1>3

LEMMA AutoInitInv == AutoInit => AutoInv
<1>1. SUFFICES ASSUME AutoInit PROVE AutoInv
  OBVIOUS
<1>2. platform \in {"linux", "macos"} /\ split = {} /\ alone = {}
  BY <1>1 DEF AutoInit
<1>3. AloneInv
  BY <1>2 DEF AloneInv
<1>4. CASE platform = "linux"
  <2>1. /\ tpm = None /\ keychain = None /\ synced = [file |-> file, tpm |-> tpm]
        /\ \A p \in Procs : at[p] = "idle"
    BY <1>1, <1>4 DEF AutoInit, StoreInit
  <2>2. FallbackInv
    BY <2>1 DEF FallbackInv
  <2>. QED
    BY <1>1, <1>2, <1>3, <1>4, <2>1, <2>2, LinuxInitInv DEF AutoInv
<1>5. CASE platform = "macos"
  <2>1. tpm = None
    BY <1>1, <1>5 DEF AutoInit
  <2>. QED
    BY <1>1, <1>2, <1>3, <1>5, <2>1, MacInitInv DEF AutoInv
<1>6. QED
  BY <1>2, <1>4, <1>5

LEMMA AutoNextInv == AutoInv /\ [AutoNext]_autoVars => AutoInv'
<1>1. SUFFICES ASSUME AutoInv, [AutoNext]_autoVars PROVE AutoInv'
  OBVIOUS
<1>2. CASE UNCHANGED autoVars
  <2>1. /\ UNCHANGED <<platform, split, alone, keychain, tpmMode, file, tpm, synced, powerLost>>
        /\ UNCHANGED <<op, at, key>>
    BY <1>2 DEF autoVars, lvars, stores
  <2>2. LinuxInv => LinuxInv'
    BY <2>1 DEF LinuxInv, LinuxTypes, AllKeys, LinuxProcInv, LinuxHolds, Forced, SyncedInv,
                OnDisk, NobodyForces, LinuxQuietInv, LinuxQuiet, SteadyTpmInv, TpmOnly,
                SplitInv, MeetsImport
  <2>3. MacInv => MacInv'
    BY <2>1, MacNextInv DEF Mac!macVars
  <2>4. FallbackInv => FallbackInv'
    BY <2>1 DEF FallbackInv
  <2>5. AloneInv => AloneInv'
    BY <2>1 DEF AloneInv, MacAlone, LinuxAlone, Forced, Rivals, Running
  <2>6. QED
    BY <1>1, <2>1, <2>2, <2>3, <2>4, <2>5 DEF AutoInv
<1>3. CASE AutoNext
  <2>1. platform' = platform /\ split' = split \union NewlySplit /\ split' \subseteq Procs
    BY <1>1, <1>3 DEF AutoInv, AutoNext, NewlySplit, Begins
  <2>2. AloneInv'
    BY <1>1, <1>3, AloneNext
  <2>3. CASE platform = "linux"
    <3>1. LinuxInv' /\ FallbackInv' /\ keychain' = keychain
      BY <1>1, <1>3, <2>1, <2>3, LinuxNextInv, FallbackNext DEF AutoInv, AutoNext
    <3>. QED
      BY <1>1, <2>1, <2>2, <2>3, <3>1 DEF AutoInv
  <2>4. CASE platform = "macos"
    <3>1. MacInv' /\ tpm' = tpm
      BY <1>1, <1>3, <2>1, <2>4, MacNextInv DEF AutoInv, AutoNext
    <3>. QED
      BY <1>1, <2>1, <2>2, <2>4, <3>1 DEF AutoInv
  <2>5. QED
    BY <1>1, <2>3, <2>4 DEF AutoInv
<1>4. QED
  BY <1>1, <1>2, <1>3

LEMMA AutoInvariance == AutoSpec => []AutoInv
  BY AutoInitInv, AutoNextInv, PTL DEF AutoSpec

\* However many commands race, fail, are killed or lose power, unless an import is
\* forced those that succeed use one master key and the stores agree
\* (OneKeyPerMachine): for any number of processes and either platform.
THEOREM OneKey == AutoSpec => []OneKeyPerMachine
<1>1. AutoInv => OneKeyPerMachine
  <2>1. AloneInv => alone \subseteq Procs
    BY DEF AloneInv
  <2>. QED
    BY <2>1, LinuxInvImplies, MacInvImplies DEF AutoInv, OneKeyPerMachine, AutoTypeOK
<1>2. QED
  BY <1>1, AutoInvariance, PTL

\* A master key a command went on to seal secrets with is in a store, and on disk
\* if the command made it (SealedKeyIsStored).
THEOREM SealedKeyStored == AutoSpec => []SealedKeyIsStored
<1>1. AutoInv => SealedKeyIsStored
  BY LinuxInvImplies DEF AutoInv, SealedKeyIsStored
<1>2. QED
  BY <1>1, AutoInvariance, PTL

\* A forced import that no other key's overlapped or followed is not undone by what
\* was under way, nor by a power loss; on macOS the old key never comes back after
\* one, and on Linux a half-done one is never passed over in favour of a key no
\* import brought (ForcedImportHolds): for any number of processes and keys.
THEOREM ForcedImportKept == AutoSpec => []ForcedImportHolds
<1>1. AutoInv => ForcedImportHolds
  <2>1. SUFFICES ASSUME AutoInv PROVE ForcedImportHolds
    OBVIOUS
  <2>2. ASSUME platform = "macos" \/ tpmMode # "flaky", NEW p \in alone, at[p] = "done"
        PROVE  {file, tpm, keychain} \ {None} = {key[p]}
    <3>1. /\ key[p] # None
          /\ platform = "macos" => MacAlone("done", key[p])
          /\ platform = "linux" => LinuxAlone("done", key[p])
      BY <2>1, <2>2, StoreAssumption DEF AutoInv, AloneInv
    <3>2. CASE platform = "macos"
      BY <2>1, <3>1, <3>2 DEF AutoInv, MacAlone
    <3>3. CASE platform = "linux" /\ tpmMode = "up"
      BY <2>1, <3>1, <3>3 DEF AutoInv, LinuxAlone
    <3>4. CASE platform = "linux" /\ tpmMode = "down"
      BY <2>1, <3>1, <3>4 DEF AutoInv, LinuxAlone, FallbackInv
    <3>5. platform = "linux" => tpmMode \in {"up", "down"}
      BY <2>1, <2>2, StoreAssumption DEF AutoInv, LinuxInv, LinuxTypes
    <3>. QED
      BY <2>1, <3>2, <3>3, <3>4, <3>5 DEF AutoInv
  <2>3. platform = "macos" => Mac!ForcedImportWins
    BY <2>1, MacInvImplies DEF AutoInv
  <2>4. (platform = "linux" /\ tpmMode = "up" /\ ~powerLost) =>
            \A p \in split : at[p] = "done" => key[p] \in ImportedKeys
    BY <2>1, LinuxInvImplies DEF AutoInv
  <2>. QED
    BY <2>2, <2>3, <2>4 DEF ForcedImportHolds
<1>2. QED
  BY <1>1, AutoInvariance, PTL

\* What one step does to the stored keys.
ForceStep ==
    IF platform = "linux" THEN OverwriteIsForced ELSE Mac!ReplacementIsForced

LEMMA ForceStepTaken == AutoInv /\ [AutoNext]_autoVars => [ForceStep]_autoVars
<1>1. SUFFICES ASSUME AutoInv, AutoNext PROVE ForceStep
  OBVIOUS
<1>2. CASE platform = "linux"
  BY <1>1, <1>2, LinuxForcedStep DEF AutoInv, AutoNext, ForceStep
<1>3. CASE platform = "macos"
  BY <1>1, <1>3, MacForcedStep DEF AutoInv, AutoNext, ForceStep
<1>4. QED
  BY <1>1, <1>2, <1>3 DEF AutoInv

\* On either platform a stored key gives way to a forced import only (ForceIsNeeded).
THEOREM ForceNeeded == AutoSpec => ForceIsNeeded
<1>1. AutoSpec => [][ForceStep]_autoVars
  BY AutoInvariance, ForceStepTaken, PTL DEF AutoSpec
<1>2. QED
  BY <1>1 DEF ForceIsNeeded, ForceStep

FallbackMakes == file = None /\ file' # None => tpm = None

\* With a TPM that is always there or never, a file key is made only where there is
\* no stronger store, whatever is imported, killed or lost: that the TPM comes and
\* goes is all FallbackOnlyOnFirstUse lacks (load_or_create_master_key).
THEOREM FallbackIsFirstUse ==
    ASSUME "flaky" \notin TpmModes
    PROVE  AutoSpec => FallbackOnlyOnFirstUse
<1>1. AutoInv /\ [AutoNext]_autoVars => [FallbackMakes]_lvars
  <2>1. SUFFICES ASSUME AutoInv, [AutoNext]_autoVars PROVE [FallbackMakes]_lvars
    OBVIOUS
  <2>2. CASE UNCHANGED autoVars
    BY <2>2 DEF autoVars
  <2>3. CASE AutoNext /\ platform = "linux"
    <3>1. LinuxInv /\ FallbackInv /\ StoreNext /\ tpmMode # "flaky"
      BY <2>1, <2>3 DEF AutoInv, AutoNext, LinuxInv, LinuxTypes
    <3>. QED
      BY <3>1, FallbackMade DEF FallbackMakes
  <2>4. CASE AutoNext /\ platform # "linux"
    BY <2>1, <2>4 DEF AutoInv, FallbackMakes
  <2>. QED
    BY <2>1, <2>2, <2>3, <2>4
<1>2. AutoSpec => [][FallbackMakes]_lvars
  BY <1>1, AutoInvariance, PTL DEF AutoSpec
<1>. QED
  BY <1>2 DEF FallbackOnlyOnFirstUse, FallbackMakes
=============================================================================
