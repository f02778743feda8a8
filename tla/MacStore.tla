------------------------------- MODULE MacStore -------------------------------
(***************************************************************************)
(* The macOS `auto` master-key store: a Keychain item and, from an earlier *)
(* install, a file key (FileStore), used by any number of avault processes *)
(* with no lock between them.  Each process runs one operation:            *)
(* load_or_create_master_key, load_master_key (which is also what `key     *)
(* authorize` runs behind the gate of module KeychainGate) or              *)
(* import_master_key.  A process may be killed between any two steps.      *)
(*                                                                         *)
(* The Keychain is external.  Every call on it may also fail: as           *)
(* unavailable (is_keychain_unavailable: no Keychain, or one that would    *)
(* need the user), or otherwise (denied, malformed item).                  *)
(***************************************************************************)
CONSTANTS
    Procs,        \* avault processes
    Ops,          \* the operations a process may run
    OldKey,       \* the key of an existing install
    ImportedKeys, \* the keys imports bring
    None          \* no item, no file; no key yet

VARIABLES
    file,      \* contents of the file store
    keychain,  \* the Keychain item
    op,        \* the operation each process runs
    at,        \* the step it is at
    key        \* the key it holds: to migrate, to add or to return

macVars == <<file, keychain, op, at, key>>

\* MasterKey::generate_locked: every call yields a key of its own.
FreshKey(p) == <<p>>

\* What a Keychain call comes to: an answer about the item (its key, no such
\* item, a duplicate), unavailable, or another error.
Outcomes == {"served", "unavailable", "failed"}

Forced(p) == op[p] = "import_force"

Goto(p, label) == at' = [at EXCEPT ![p] = label]
Keep(p, k) == key' = [key EXCEPT ![p] = k]

\* Ok(k) and Err(_)
Succeed(p, k) == Goto(p, "done") /\ Keep(p, k)
Fail(p) == Goto(p, "failed") /\ Keep(p, None)

ReadOnly == UNCHANGED <<file, keychain, op>>

-----------------------------------------------------------------------------
(* load_auto_master_key_with *)

\* file.path().exists(): an existing file key stays authoritative; an import
\* that is not forced stops there.
Start(p, o) ==
    /\ at[p] = "idle"
    /\ op' = [op EXCEPT ![p] = o]
    /\ \/ /\ o \in {"load", "load_or_create"}
          /\ Goto(p, IF file # None THEN "read_file" ELSE "read")
          /\ UNCHANGED key
       \/ o = "import" /\ file # None /\ Fail(p)
       \/ /\ o = "import" /\ file = None
          /\ \E k \in ImportedKeys : Keep(p, k)
          /\ Goto(p, "import")
       \/ /\ o = "import_force"
          /\ \E k \in ImportedKeys : Keep(p, k)
          /\ Goto(p, IF file # None THEN "replace_both" ELSE "replace")
    /\ UNCHANGED <<file, keychain>>

\* load_existing_file_master_key
ReadFile(p) ==
    /\ at[p] = "read_file"
    /\ Keep(p, file)
    /\ Goto(p, "compare")
    /\ ReadOnly

\* migrate_file_key_to_keychain: the item holds the same key, another key, does
\* not exist, or cannot be read.
Compare(p) ==
    /\ at[p] = "compare"
    /\ \E outcome \in Outcomes :
        \/ /\ outcome = "served" /\ keychain = None
           /\ Goto(p, "migrate") /\ UNCHANGED key
        \/ /\ outcome = "served" /\ keychain = key[p]
           /\ Succeed(p, key[p])
        \/ /\ outcome = "served" /\ keychain \notin {None, key[p]}
           /\ Fail(p)
        \/ outcome = "unavailable" /\ Succeed(p, key[p])
        \/ outcome = "failed" /\ Fail(p)
    /\ ReadOnly

\* keychain.add(file_key): done, already there, or not possible now.
Migrate(p) ==
    /\ at[p] = "migrate"
    /\ \E outcome \in Outcomes :
        \/ /\ outcome = "served" /\ keychain = None
           /\ keychain' = key[p]
           /\ Succeed(p, key[p])
        \/ /\ outcome = "served" /\ keychain # None
           /\ Goto(p, "recompare") /\ UNCHANGED <<key, keychain>>
        \/ outcome = "unavailable" /\ Succeed(p, key[p]) /\ UNCHANGED keychain
        \/ outcome = "failed" /\ Fail(p) /\ UNCHANGED keychain
    /\ UNCHANGED <<file, op>>

\* errSecDuplicateItem: somebody was first, with the same key or another.
Recompare(p) ==
    /\ at[p] = "recompare"
    /\ \E outcome \in Outcomes :
        IF outcome = "served" /\ keychain = key[p]
        THEN Succeed(p, key[p]) ELSE Fail(p)
    /\ ReadOnly

\* Fault: a load takes a missing item for a key.
ReadUnchecked(p) ==
    /\ at[p] = "read"
    /\ \E outcome \in Outcomes :
        IF outcome = "served" THEN Succeed(p, keychain) ELSE Fail(p)
    /\ ReadOnly

\* keychain.read(), by get_or_create_keychain_key and by a load.
Read(p) ==
    /\ at[p] = "read"
    /\ \E outcome \in Outcomes :
        \/ outcome = "served" /\ keychain # None /\ Succeed(p, keychain)
        \/ /\ outcome = "served" /\ keychain = None
           /\ IF op[p] = "load_or_create"
              THEN Goto(p, "create") /\ Keep(p, FreshKey(p))
              ELSE Fail(p)
        \/ outcome # "served" /\ Fail(p)
    /\ ReadOnly

\* Fault: the loser of the race goes on with the key it made.
CreateOwn(p) ==
    /\ at[p] = "create"
    /\ keychain' = IF keychain = None THEN key[p] ELSE keychain
    /\ Succeed(p, key[p])
    /\ UNCHANGED <<file, op>>

\* keychain.add(key) of a new key.
Create(p) ==
    /\ at[p] = "create"
    /\ \E outcome \in Outcomes :
        \/ /\ outcome = "served" /\ keychain = None
           /\ keychain' = key[p]
           /\ Succeed(p, key[p])
        \/ /\ outcome = "served" /\ keychain # None
           /\ Goto(p, "read_created") /\ Keep(p, None) /\ UNCHANGED keychain
        \/ outcome # "served" /\ Fail(p) /\ UNCHANGED keychain
    /\ UNCHANGED <<file, op>>

\* errSecDuplicateItem: another process was first.
ReadCreated(p) ==
    /\ at[p] = "read_created"
    /\ \E outcome \in Outcomes :
        IF outcome = "served" THEN Succeed(p, keychain) ELSE Fail(p)
    /\ ReadOnly

-----------------------------------------------------------------------------
(* import_auto_master_key *)

\* Fault: add is replace.
ImportClobbers(p) ==
    /\ at[p] = "import"
    /\ keychain' = key[p]
    /\ Succeed(p, key[p])
    /\ UNCHANGED <<file, op>>

\* import_keychain_key without force: a duplicate is an error.
Import(p) ==
    /\ at[p] = "import"
    /\ \E outcome \in Outcomes :
        \/ /\ outcome = "served" /\ keychain = None
           /\ keychain' = key[p]
           /\ Succeed(p, key[p])
        \/ /\ outcome # "served" \/ keychain # None
           /\ Fail(p) /\ UNCHANGED keychain
    /\ UNCHANGED <<file, op>>

\* Fault: the file key is forgotten.
ReplaceKeychainOnly(p) ==
    /\ at[p] \in {"replace", "replace_both"}
    /\ keychain' = key[p]
    /\ Succeed(p, key[p])
    /\ UNCHANGED <<file, op>>

\* keychain.replace; a file key, if there is one, follows.
Replace(p) ==
    /\ at[p] \in {"replace", "replace_both"}
    /\ \E outcome \in Outcomes :
        \/ /\ outcome = "served"
           /\ keychain' = key[p]
           /\ IF at[p] = "replace" THEN Succeed(p, key[p])
              ELSE Goto(p, "replace_file") /\ UNCHANGED key
        \/ outcome # "served" /\ Fail(p) /\ UNCHANGED keychain
    /\ UNCHANGED <<file, op>>

\* file.import(key, true)
ReplaceFile(p) ==
    /\ at[p] = "replace_file"
    /\ file' = key[p]
    /\ Succeed(p, key[p])
    /\ UNCHANGED <<keychain, op>>

-----------------------------------------------------------------------------
(* Crashes and the specification *)

Running(p) == at[p] \notin {"idle", "done", "failed"}

Killed(p) ==
    /\ Running(p)
    /\ Fail(p)
    /\ ReadOnly

MacInit ==
    /\ file \in {None, OldKey}
    /\ keychain \in {None, OldKey}
    /\ op = [p \in Procs |-> None]
    /\ at = [p \in Procs |-> "idle"]
    /\ key = [p \in Procs |-> None]

MacNext ==
    \E p \in Procs :
        \/ \E o \in Ops : Start(p, o)
        \/ ReadFile(p) \/ Compare(p) \/ Migrate(p) \/ Recompare(p)
        \/ Read(p) \/ Create(p) \/ ReadCreated(p)
        \/ Import(p) \/ Replace(p) \/ ReplaceFile(p)
        \/ Killed(p)

MacSpec == MacInit /\ [][MacNext]_macVars

-----------------------------------------------------------------------------
(* Properties *)

AllKeys == {OldKey} \union ImportedKeys \union {FreshKey(p) : p \in Procs}

NobodyForces == \A p \in Procs : op[p] # "import_force"

\* The type invariant; an operation that succeeds has a key.
MacTypeOK ==
    /\ file \in AllKeys \union {None}
    /\ keychain \in AllKeys \union {None}
    /\ op \in [Procs -> Ops \union {None}]
    /\ key \in [Procs -> AllKeys \union {None}]
    /\ at \in [Procs -> {"idle", "read_file", "compare", "migrate", "recompare",
            "read", "create", "read_created", "import", "replace",
            "replace_both", "replace_file", "done", "failed"}]
    /\ \A p \in Procs : at[p] = "done" => key[p] # None

\* "A Keychain error never selects another backend or creates a replacement
\* key": whatever Keychain calls fail, and however commands race on first use,
\* on migration and on imports that are not forced, the ones that succeed use
\* one master key, and it is stored (load_auto_master_key_with).
OneKeychainKey ==
    NobodyForces =>
        /\ \A p, q \in Procs : (at[p] = "done" /\ at[q] = "done") => key[p] = key[q]
        /\ \A p \in Procs : at[p] = "done" => key[p] \in {file, keychain}
        /\ (file # None /\ keychain # None) => file = keychain

\* "refusing to overwrite unless `force` is true": a stored key only gives way
\* to the key of a forced import, and the file's not before the Keychain holds
\* an imported key.
ReplacementIsForced ==
    /\ (keychain # None /\ keychain' # keychain) =>
            \E p \in Procs : Forced(p) /\ keychain' = key[p]
    /\ file' # file =>
            \E p \in Procs : Forced(p) /\ file' = key[p] /\ keychain \in ImportedKeys

\* Once a forced import has succeeded there are imported keys in the stores and no
\* others, though it writes two of them, and though migrations of the old file key
\* are under way: nothing they do later brings the old key back
\* (import_auto_master_key).  Whose key it is when several imports are forced at
\* once is left open: see ForcedImportHolds.
ForcedImportWins ==
    (\E p \in Procs : at[p] = "done" /\ Forced(p)) =>
        /\ keychain \in ImportedKeys
        /\ file \in {None} \union ImportedKeys
=============================================================================
