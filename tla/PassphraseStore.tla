--------------------------- MODULE PassphraseStore ---------------------------
(***************************************************************************)
(* The opt-in passphrase store (PassphraseFileStore): one file holding the *)
(* master key wrapped under a passphrase, used by any number of avault     *)
(* processes with no lock between them.  Each process runs one operation:  *)
(* unlock (`get`), unlock or create (`get_or_create`), or an import.  It   *)
(* may be killed between any two steps, and the machine may lose power: a  *)
(* rename the directory was not synced after may then be undone.           *)
(*                                                                         *)
(* Wrapping is symbolic: unwrapping gives the key back exactly under the   *)
(* passphrase it was wrapped with.  (Empty passphrases do not get past     *)
(* read_passphrase_line.)                                                  *)
(***************************************************************************)
EXTENDS FiniteSets

CONSTANTS
    Procs,        \* avault processes
    Passphrases,  \* what their users type
    ImportedKey,  \* the key an import brings
    None          \* no file; no key

\* MasterKey::generate_locked: every call yields a key of its own.
FreshKey(p) == <<p>>

WrappedKeys ==
    [key: {ImportedKey} \union {FreshKey(p) : p \in Procs}, pass: Passphrases]

ASSUME PassphraseAssumption ==
    /\ ImportedKey # None /\ None \notin Passphrases /\ None \notin WrappedKeys
    /\ None \notin {"get", "get_or_create", "import", "import_force"}
    /\ \A p \in Procs : FreshKey(p) \notin {ImportedKey, None}

VARIABLES
    wrapped,    \* machine.passphrase.json: [key, pass], or None
    synced,     \* what of it is on disk for certain
    powerLost,  \* history: the machine has lost power
    op,         \* the operation each process runs
    pass,       \* the passphrase it was given
    at,         \* the step it is at
    key         \* the key it holds

disk == <<wrapped, synced, powerLost>>
procs == <<op, pass, at, key>>
passVars == <<disk, procs>>

Unlocks(p) == op[p] \in {"get", "get_or_create"}
Forced(p) == op[p] = "import_force"

Goto(p, label) == at' = [at EXCEPT ![p] = label]
Keep(p, k) == key' = [key EXCEPT ![p] = k]

\* Ok(k) and Err(_)
Succeed(p, k) == Goto(p, "done") /\ Keep(p, k)
Fail(p) == Goto(p, "failed") /\ Keep(p, None)

\* wrap_passphrase_master and unwrap_passphrase_master
Wrap(k, s) == [key |-> k, pass |-> s]
Unwraps(blob, s) == blob # None /\ blob.pass = s

Begin(p, o, s) ==
    /\ at[p] = "idle"
    /\ op' = [op EXCEPT ![p] = o]
    /\ pass' = [pass EXCEPT ![p] = s]
    /\ IF o \in {"get", "get_or_create"}
       THEN Goto(p, "get") /\ UNCHANGED key
       ELSE Goto(p, "import") /\ Keep(p, ImportedKey)
    /\ UNCHANGED disk

\* The first get.  get_or_create takes any failure, a wrong passphrase too, for
\* a missing store.
Get(p) ==
    /\ at[p] = "get"
    /\ \/ Unwraps(wrapped, pass[p]) /\ Succeed(p, wrapped.key)
       \/ /\ ~Unwraps(wrapped, pass[p]) /\ op[p] = "get_or_create"
          /\ Goto(p, "create") /\ Keep(p, FreshKey(p))
       \/ /\ ~Unwraps(wrapped, pass[p]) /\ op[p] = "get"
          /\ Fail(p)
    /\ UNCHANGED <<disk, op, pass>>

\* Fault: the new store is renamed over whatever is there.
CreateClobbers(p) ==
    /\ at[p] = "create"
    /\ wrapped' = Wrap(key[p], pass[p])
    /\ Goto(p, "sync")
    /\ UNCHANGED <<synced, powerLost, op, pass, key>>

\* create_atomic: wrap a new key and link it in only if there is no store.
Create(p) ==
    /\ at[p] = "create"
    /\ \/ /\ wrapped = None
          /\ wrapped' = Wrap(key[p], pass[p])
          /\ Goto(p, "sync") /\ UNCHANGED key
       \/ /\ wrapped # None
          /\ Goto(p, "get_again") /\ Keep(p, None)
          /\ UNCHANGED wrapped
    /\ UNCHANGED <<synced, powerLost, op, pass>>

\* Fault: the key just made is returned without unlocking the store.
GetAgainOwn(p) ==
    /\ at[p] = "get_again"
    /\ Succeed(p, FreshKey(p))
    /\ UNCHANGED <<disk, op, pass>>

\* The second get: of the store just made, or of the one found.
GetAgain(p) ==
    /\ at[p] = "get_again"
    /\ IF Unwraps(wrapped, pass[p]) THEN Succeed(p, wrapped.key) ELSE Fail(p)
    /\ UNCHANGED <<disk, op, pass>>

Import(p) ==
    /\ at[p] = "import"
    /\ \/ /\ wrapped = None \/ Forced(p)
          /\ wrapped' = Wrap(key[p], pass[p])
          /\ Goto(p, "sync") /\ UNCHANGED key
       \/ /\ wrapped # None /\ ~Forced(p)
          /\ Fail(p) /\ UNCHANGED wrapped
    /\ UNCHANGED <<synced, powerLost, op, pass>>

SyncParentDir(p) ==
    /\ at[p] = "sync"
    /\ synced' = wrapped
    /\ IF Unlocks(p) THEN Goto(p, "get_again") /\ Keep(p, None)
                     ELSE Succeed(p, key[p])
    /\ UNCHANGED <<wrapped, powerLost, op, pass>>

Running(p) == at[p] \notin {"idle", "done", "failed"}

\* The process is killed, or a file operation fails.
Killed(p) ==
    /\ Running(p)
    /\ Fail(p)
    /\ UNCHANGED <<disk, op, pass>>

\* An unsynced rename may or may not have reached the disk; every process ends.
PowerLoss ==
    /\ powerLost' = TRUE
    /\ wrapped' \in {wrapped, synced}
    /\ synced' = wrapped'
    /\ at' = [p \in Procs |-> IF Running(p) THEN "failed" ELSE at[p]]
    /\ key' = [p \in Procs |-> IF Running(p) THEN None ELSE key[p]]
    /\ UNCHANGED <<op, pass>>

PassInit ==
    /\ wrapped = None
    /\ synced = None
    /\ powerLost = FALSE
    /\ op = [p \in Procs |-> None]
    /\ pass = [p \in Procs |-> None]
    /\ at = [p \in Procs |-> "idle"]
    /\ key = [p \in Procs |-> None]

Operate(p) ==
    Get(p) \/ Create(p) \/ GetAgain(p) \/ Import(p) \/ SyncParentDir(p)

-----------------------------------------------------------------------------
(* Properties *)

\* The type invariant.
PassTypeOK ==
    /\ wrapped \in WrappedKeys \union {None} /\ synced \in WrappedKeys \union {None}
    /\ powerLost \in BOOLEAN
    /\ op \in [Procs -> {"get", "get_or_create", "import", "import_force", None}]
    /\ pass \in [Procs -> Passphrases \union {None}]
    /\ at \in [Procs -> {"idle", "get", "create", "get_again", "import", "sync",
                         "done", "failed"}]
    /\ key \in [Procs -> {ImportedKey, None} \union {FreshKey(p) : p \in Procs}]

\* Unless an import is forced, everyone who unlocks the store has the same
\* master key, the one on disk under the passphrase they gave, however many
\* create it at once, with whichever passphrases, and wherever they are killed;
\* and whoever made that key has it on disk for good (get_or_create).
OneWrappedKey ==
    /\ PassTypeOK
    /\ (\A p \in Procs : op[p] # "import_force") =>
        \A p \in Procs : (at[p] = "done" /\ Unlocks(p)) =>
            \/ wrapped = Wrap(key[p], pass[p])
            \/ powerLost /\ key[p] # FreshKey(p)

\* "refusing to overwrite unless `force` is true": no command but a forced
\* import replaces the store, a failed unlock, which goes on to create one, in
\* particular (get_or_create, import); and only a power loss takes one away.
WrongPassphraseReplacesNothing ==
    [][(wrapped # None /\ wrapped' # wrapped) =>
        \/ \E p \in Procs : /\ Forced(p) /\ at[p] = "import"
                            /\ wrapped' = Wrap(ImportedKey, pass[p])
        \/ powerLost' /\ synced' = synced /\ wrapped' = synced]_passVars
=============================================================================
