------------------------------ MODULE LinuxStore ------------------------------
(***************************************************************************)
(* The Linux `auto` master-key store: machine.key (FileStore) and          *)
(* machine.tpm.json (TpmStore), side by side in one directory, used by any *)
(* number of avault processes with no lock between them.  Each process     *)
(* runs one operation: load_or_create_master_key, load_master_key or       *)
(* import_master_key.  A process may be killed between any two steps, and  *)
(* the machine may lose power: a rename that was not followed by a sync of *)
(* the directory may then be undone.                                       *)
(*                                                                         *)
(* The TPM device is external (tss-esapi).  It is up, down, or flaky: a    *)
(* call on a flaky one may fail as unavailable (is_tpm_unavailable: no     *)
(* device, no permission, locked out).  Any other error ends the operation *)
(* where it is and changes nothing, just as being killed does (Killed).    *)
(***************************************************************************)

CONSTANTS
    Procs,        \* avault processes
    Ops,          \* the operations a process may run
    TpmModes,     \* what the TPM may be like: subset of {"up","down","flaky"}
    OldKey,       \* the key of an existing file install
    ImportedKeys, \* the keys imports bring
    None          \* no such file; no key yet

\* MasterKey::generate_locked: every call yields a key of its own.
FreshKey(p, where) == <<p, where>>
Fresh(p) == {FreshKey(p, "file"), FreshKey(p, "tpm")}

AnyOp == {"load_or_create", "load", "import", "import_force"}

ASSUME StoreAssumption ==
    /\ Ops \subseteq AnyOp /\ None \notin AnyOp
    /\ TpmModes \subseteq {"up", "down", "flaky"}
    /\ OldKey # None /\ OldKey \notin ImportedKeys /\ None \notin ImportedKeys
    /\ \A p \in Procs : Fresh(p) \intersect ({OldKey, None} \union ImportedKeys) = {}

VARIABLES
    tpmMode,   \* what the TPM is like in this behaviour
    file,      \* contents of machine.key
    tpm,       \* the key sealed in machine.tpm.json
    synced,    \* what of both is on disk for certain: [file, tpm]
    powerLost, \* history: the machine has lost power
    op,        \* the operation each process runs
    at,        \* the step it is at
    key        \* the key it holds: to migrate, to import or to return

stores == <<file, tpm, synced>>
lvars == <<tpmMode, stores, powerLost, op, at, key>>

Available == CASE tpmMode = "up" -> {TRUE}
               [] tpmMode = "down" -> {FALSE}
               [] OTHER -> BOOLEAN

\* seal_master_key and unseal_master_key: the blob, or the key in it; None if the
\* TPM is unavailable.
SealMasterKey(k) == {IF up THEN k ELSE None : up \in Available}
UnsealMasterKey == {IF up THEN tpm ELSE None : up \in Available}

Importing(p) == op[p] \in {"import", "import_force"}
Forced(p) == op[p] = "import_force"

Goto(p, label) == at' = [at EXCEPT ![p] = label]
Keep(p, k) == key' = [key EXCEPT ![p] = k]

\* Ok(k) and Err(_)
Succeed(p, k) == Goto(p, "done") /\ Keep(p, k)
Fail(p) == Goto(p, "failed") /\ Keep(p, None)

ReadOnly == UNCHANGED <<tpmMode, stores, powerLost, op>>

-----------------------------------------------------------------------------
(* Entry points *)

\* file.path().exists(): the file key comes first.  An import brings a key, and
\* stops there if it is not forced.
Start(p, o) ==
    /\ at[p] = "idle"
    /\ op' = [op EXCEPT ![p] = o]
    /\ \E k \in IF o \in {"import", "import_force"} THEN ImportedKeys ELSE {None} :
          \/ file # None /\ o = "import" /\ Fail(p)
          \/ /\ ~(file # None /\ o = "import")
             /\ Keep(p, k)
             /\ Goto(p, CASE k # None /\ file # None -> "force_tpm"
                          [] k # None /\ file = None -> "import_tpm"
                          [] k = None /\ file # None -> "read_file"
                          [] k = None /\ file = None /\ o = "load" -> "get_tpm"
                          [] OTHER -> "check_tpm")
    /\ UNCHANGED <<tpmMode, stores, powerLost>>

\* tpm.path().exists()
CheckTpm(p) ==
    /\ at[p] = "check_tpm"
    /\ Goto(p, IF tpm # None THEN "get_tpm" ELSE "get_or_create")
    /\ UNCHANGED key
    /\ ReadOnly

\* TpmStore.get_with as the last resort: unavailable is an error.
GetTpm(p) ==
    /\ at[p] = "get_tpm"
    /\ \E k \in UnsealMasterKey : IF k # None THEN Succeed(p, k) ELSE Fail(p)
    /\ ReadOnly

-----------------------------------------------------------------------------
(* First use: TpmStore.get_or_create_with, then FileStore.get_or_create *)

GetOrCreateTpm(p) ==
    /\ at[p] = "get_or_create"
    /\ \/ tpm = None /\ Goto(p, "create_tpm") /\ Keep(p, FreshKey(p, "tpm"))
       \/ /\ tpm # None
          /\ \E k \in UnsealMasterKey :
                IF k # None THEN Succeed(p, k)
                ELSE Goto(p, "get_file") /\ Keep(p, None)
    /\ ReadOnly

\* Fault: the new blob replaces one that is there.
CreateTpmClobbers(p) ==
    /\ at[p] = "create_tpm"
    /\ \E blob \in SealMasterKey(key[p]) :
        \/ /\ blob = None
           /\ Goto(p, "get_file") /\ Keep(p, None)
           /\ UNCHANGED tpm
        \/ /\ blob # None
           /\ tpm' = blob
           /\ Goto(p, "sync") /\ UNCHANGED key
    /\ UNCHANGED <<tpmMode, file, synced, powerLost, op>>

\* create_noclobber_with: seal, then link the blob in only if none is there.
CreateTpm(p) ==
    /\ at[p] = "create_tpm"
    /\ \E blob \in SealMasterKey(key[p]) :
        \/ /\ blob = None
           /\ Goto(p, "get_file") /\ Keep(p, None)
           /\ UNCHANGED tpm
        \/ /\ blob # None /\ tpm = None
           /\ tpm' = blob
           /\ Goto(p, "sync") /\ UNCHANGED key
        \/ /\ blob # None /\ tpm # None
           /\ Goto(p, "get_created") /\ UNCHANGED <<key, tpm>>
    /\ UNCHANGED <<tpmMode, file, synced, powerLost, op>>

\* Fault: the loser of the race goes on with the key it made.
GetCreatedTpmOwn(p) ==
    /\ at[p] = "get_created"
    /\ Succeed(p, key[p])
    /\ ReadOnly

\* AlreadyExists: another process was first.
GetCreatedTpm(p) ==
    /\ at[p] = "get_created"
    /\ \E k \in UnsealMasterKey :
        IF k # None THEN Succeed(p, k) ELSE Goto(p, "get_file") /\ Keep(p, None)
    /\ ReadOnly

GetFile(p) ==
    /\ at[p] = "get_file"
    /\ \/ file # None /\ Succeed(p, file)
       \/ /\ file = None
          /\ Goto(p, "create_file") /\ Keep(p, FreshKey(p, "file"))
    /\ ReadOnly

\* create_atomic: link the new key in only if there is none; then get.
CreateFile(p) ==
    /\ at[p] = "create_file"
    /\ \/ file = None /\ file' = key[p] /\ Goto(p, "sync_then_get")
       \/ file # None /\ Goto(p, "get_file") /\ UNCHANGED file
    /\ UNCHANGED <<tpmMode, tpm, synced, powerLost, op, key>>

-----------------------------------------------------------------------------
(* An existing file key: migrate_file_key_to_tpm_with_backend *)

ReadFile(p) ==
    /\ at[p] = "read_file"
    /\ Keep(p, file)
    /\ Goto(p, "compare")
    /\ ReadOnly

\* Fault: the file key wins over a blob with another key.
CompareTpmPrefersFile(p) ==
    /\ at[p] = "compare"
    /\ \/ tpm = None /\ Goto(p, "migrate") /\ UNCHANGED key
       \/ tpm # None /\ Succeed(p, key[p])
    /\ ReadOnly

\* tpm.get_with: the same key, another key, no blob, or no TPM.
CompareTpm(p) ==
    /\ at[p] = "compare"
    /\ \/ tpm = None /\ Goto(p, "migrate") /\ UNCHANGED key
       \/ /\ tpm # None
          /\ \E k \in UnsealMasterKey :
                IF k \in {key[p], None} THEN Succeed(p, key[p]) ELSE Fail(p)
    /\ ReadOnly

Migrate(p) ==
    /\ at[p] = "migrate"
    /\ \E blob \in SealMasterKey(key[p]) :
        \/ blob = None /\ Succeed(p, key[p]) /\ UNCHANGED tpm
        \/ /\ blob # None /\ tpm = None
           /\ tpm' = blob
           /\ Goto(p, "sync") /\ UNCHANGED key
        \/ /\ blob # None /\ tpm # None
           /\ Goto(p, "recheck") /\ UNCHANGED <<key, tpm>>
    /\ UNCHANGED <<tpmMode, file, synced, powerLost, op>>

\* AlreadyExists: compare with the concurrently created blob.
RecheckTpm(p) ==
    /\ at[p] = "recheck"
    /\ \E k \in UnsealMasterKey :
        IF k = key[p] THEN Succeed(p, k) ELSE Fail(p)
    /\ ReadOnly

-----------------------------------------------------------------------------
(* import_linux_auto_master_key_with_tpm_backend *)

\* No file key was found, or the import is forced over one.
ImportTpm(p) ==
    /\ at[p] \in {"import_tpm", "force_tpm"}
    /\ \E blob \in SealMasterKey(key[p]) :
        \/ /\ tpm # None /\ (~Forced(p) \/ blob = None)
           /\ Fail(p) /\ UNCHANGED tpm
        \/ /\ tpm = None /\ blob = None
           /\ Goto(p, "import_file") /\ UNCHANGED <<key, tpm>>
        \/ /\ blob # None /\ (tpm = None \/ Forced(p))
           /\ tpm' = blob
           /\ Goto(p, IF at[p] = "force_tpm" THEN "sync_then_file" ELSE "sync")
           /\ UNCHANGED key
    /\ UNCHANGED <<tpmMode, file, synced, powerLost, op>>

\* Fault: `force` is not looked at when the file is installed.
ImportFileClobbers(p) ==
    /\ at[p] = "import_file"
    /\ file' = key[p]
    /\ Goto(p, "sync")
    /\ UNCHANGED <<tpmMode, tpm, synced, powerLost, op, key>>

ImportFile(p) ==
    /\ at[p] = "import_file"
    /\ \/ /\ file = None \/ Forced(p)
          /\ file' = key[p]
          /\ Goto(p, "sync") /\ UNCHANGED key
       \/ /\ file # None /\ ~Forced(p)
          /\ Fail(p) /\ UNCHANGED file
    /\ UNCHANGED <<tpmMode, tpm, synced, powerLost, op>>

-----------------------------------------------------------------------------
(* sync_parent_dir, crashes and the specification *)

\* The directory holds both files, so both are on disk from here on.
SyncParentDir(p) ==
    /\ synced' = [file |-> file, tpm |-> tpm]
    /\ \/ at[p] = "sync" /\ Succeed(p, key[p])
       \/ at[p] = "sync_then_get" /\ Goto(p, "get_file") /\ UNCHANGED key
       \/ at[p] = "sync_then_file" /\ Goto(p, "import_file") /\ UNCHANGED key
    /\ UNCHANGED <<tpmMode, file, tpm, powerLost, op>>

Running(p) == at[p] \notin {"idle", "done", "failed"}

Killed(p) ==
    /\ Running(p)
    /\ Fail(p)
    /\ ReadOnly

\* Unsynced renames may or may not have reached the disk.
PowerLoss ==
    /\ powerLost' = TRUE
    /\ file' \in {file, synced.file}
    /\ tpm' \in {tpm, synced.tpm}
    /\ synced' = [file |-> file', tpm |-> tpm']
    /\ at' = [p \in Procs |-> IF Running(p) THEN "failed" ELSE at[p]]
    /\ key' = [p \in Procs |-> IF Running(p) THEN None ELSE key[p]]
    /\ UNCHANGED <<tpmMode, op>>

StoreInit ==
    /\ tpmMode \in TpmModes
    /\ file \in {None, OldKey}
    /\ tpm = None
    /\ synced = [file |-> file, tpm |-> tpm]
    /\ powerLost = FALSE
    /\ op = [p \in Procs |-> None]
    /\ at = [p \in Procs |-> "idle"]
    /\ key = [p \in Procs |-> None]

StoreNext ==
    \/ \E p \in Procs :
        \/ \E o \in Ops : Start(p, o)
        \/ CheckTpm(p) \/ GetTpm(p)
        \/ GetOrCreateTpm(p) \/ CreateTpm(p) \/ GetCreatedTpm(p)
        \/ GetFile(p) \/ CreateFile(p)
        \/ ReadFile(p) \/ CompareTpm(p) \/ Migrate(p) \/ RecheckTpm(p)
        \/ ImportTpm(p) \/ ImportFile(p)
        \/ SyncParentDir(p)
        \/ Killed(p)
    \/ PowerLoss

StoreSpec == StoreInit /\ [][StoreNext]_lvars

-----------------------------------------------------------------------------
(* Properties *)

AllKeys == {OldKey} \union ImportedKeys \union UNION {Fresh(p) : p \in Procs}

NobodyForces == \A p \in Procs : op[p] # "import_force"

\* The type invariant; unless an import is forced, a key that is only in memory
\* belongs to the process that generated it.
StoreTypeOK ==
    /\ tpmMode \in TpmModes
    /\ file \in AllKeys \union {None}
    /\ tpm \in AllKeys \union {None}
    /\ synced \in [file: AllKeys \union {None}, tpm: AllKeys \union {None}]
    /\ powerLost \in BOOLEAN
    /\ op \in [Procs -> Ops \union {None}]
    /\ key \in [Procs -> AllKeys \union {None}]
    /\ at \in [Procs -> {"idle", "check_tpm", "get_tpm", "get_or_create",
            "create_tpm", "get_created", "get_file", "create_file", "read_file",
            "compare", "migrate", "recheck", "import_tpm", "force_tpm",
            "import_file", "sync", "sync_then_get", "sync_then_file", "done", "failed"}]
    /\ \A p \in Procs : at[p] = "done" => key[p] # None
    /\ \A p, q \in Procs : (p # q /\ key[p] \in Fresh(q)) =>
            key[p] \in {file, tpm} \/ powerLost \/ ~NobodyForces

\* Unless an import is forced, a master key a command went on to seal secrets
\* with is not lost: it is in one of the stores, and if the process made it
\* itself, it was on disk before it was used (create_atomic, write_tpm_blob:
\* persist, then sync).
ReturnedKeyIsStored ==
    NobodyForces => \A p \in Procs : at[p] = "done" =>
        /\ key[p] \in Fresh(p) => key[p] \in {synced.file, synced.tpm}
        /\ key[p] \in {file, tpm} \/ powerLost

\* However many commands race on first use, on migrating an existing file key
\* or on an import that is not forced, and wherever they are killed, the ones
\* that succeed use one and the same master key; and the stores never disagree,
\* after a power loss either.  (With a TPM that comes and goes this fails: see
\* FallbackOnlyOnFirstUse.)
OneMasterKey ==
    (NobodyForces /\ tpmMode # "flaky") =>
        /\ \A p, q \in Procs :
            (at[p] = "done" /\ at[q] = "done") => key[p] = key[q] \/ powerLost
        /\ (file # None /\ tpm # None) => file = tpm

\* "refusing to overwrite unless `force` is true": what a store holds on disk is
\* only ever replaced by a forced import, and by the key of an import.
OverwriteIsForced ==
    \A f \in {"file", "tpm"} : (synced[f] # None /\ synced'[f] # synced[f]) =>
        /\ synced'[f] \in ImportedKeys
        /\ \E p \in Procs : op[p] = "import_force"

\* "If the stronger store is unavailable, `auto` only uses the file fallback
\* when an existing file key is already present, or on first use when no
\* stronger store exists" (README.md): no file key is made beside a TPM key.
FallbackOnlyOnFirstUse ==
    [][(file = None /\ file' # None) => tpm = None]_lvars
=============================================================================
