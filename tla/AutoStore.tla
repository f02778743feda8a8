------------------------------ MODULE AutoStore ------------------------------
(***************************************************************************)
(* Backend::Auto, the default master-key store: on Linux it is LinuxStore, *)
(* on macOS MacStore.  Which one is compiled in, so a behaviour has one    *)
(* platform.  The two share the file store and the shape of a command; the *)
(* TPM and its blob are of one platform, the Keychain item of the other.   *)
(***************************************************************************)
EXTENDS LinuxStore

VARIABLES
    platform,  \* target_os
    keychain,  \* the macOS Keychain item
    split,     \* history: the processes that began while a forced import had
               \* replaced the TPM blob and not the file
    alone      \* history: the forced imports that no forced import of another
               \* key overlapped or followed

Mac == INSTANCE MacStore

ASSUME KeychainAssumption ==
    \A p \in Procs : Mac!FreshKey(p) \notin {OldKey, None} \union ImportedKeys

autoVars == <<lvars, platform, keychain, split, alone>>

HalfImported == tpm \in ImportedKeys /\ file \notin {None, tpm}

\* The forced imports of another key than p's that are under way.
Rivals(p) == {q \in Procs : Forced(q) /\ Running(q) /\ key[q] # key[p]}

Begins(p) == at[p] = "idle" /\ at'[p] # "idle"

AutoInit ==
    /\ split = {} /\ alone = {}
    /\ \/ platform = "linux" /\ StoreInit /\ keychain = None
       \/ /\ platform = "macos"
          /\ Mac!MacInit
          /\ tpmMode = "down" /\ tpm = None /\ powerLost = FALSE
          /\ synced = [file |-> file, tpm |-> tpm]

AutoNext ==
    /\ UNCHANGED platform
    /\ \/ platform = "linux" /\ StoreNext /\ UNCHANGED keychain
       \/ /\ platform = "macos"
          /\ Mac!MacNext
          /\ UNCHANGED <<tpmMode, tpm, synced, powerLost>>
    /\ split' = split \union {p \in Procs : HalfImported /\ Begins(p)}
    /\ alone' = {p \in Procs : /\ p \in alone \/ Begins(p)
                               /\ (Forced(p) /\ at[p] # "failed" /\ Rivals(p) = {})'}

AutoSpec == AutoInit /\ [][AutoNext]_autoVars

-----------------------------------------------------------------------------
(* Properties *)

\* The type invariant of either platform.
AutoTypeOK ==
    /\ platform \in {"linux", "macos"}
    /\ split \subseteq Procs /\ alone \subseteq Procs
    /\ IF platform = "linux" THEN StoreTypeOK ELSE Mac!MacTypeOK

\* However commands race on first use, on migration and on imports that are not
\* forced, whatever store calls fail and wherever commands are killed, those that
\* succeed use one master key and the stores never disagree: OneMasterKey with a
\* TPM that does not come and go, OneKeychainKey ("A Keychain error never selects
\* another backend or creates a replacement key") with any Keychain; and the types.
OneKeyPerMachine ==
    /\ AutoTypeOK
    /\ IF platform = "linux" THEN OneMasterKey ELSE Mac!OneKeychainKey

\* A master key a command went on to seal secrets with is not lost (Linux, with
\* power loss: ReturnedKeyIsStored).
SealedKeyIsStored == platform = "linux" => ReturnedKeyIsStored

\* "refusing to overwrite unless `force` is true": on either platform a stored
\* key gives way to a forced import only.
ForceIsNeeded ==
    [][IF platform = "linux" THEN OverwriteIsForced
                             ELSE Mac!ReplacementIsForced]_autoVars

\* What a forced import that succeeded replaced does not come back, whatever else
\* was under way (import_auto_master_key, import_linux_auto_master_key):
\* the stores hold its key and no other from then on, on macOS and with a TPM that
\* does not come and go, after a power loss too.  That is so unless another key's
\* forced import overlapped it or followed (alone): two that overlap write two
\* stores each in no common order, and may both succeed and leave the stores
\* disagreeing.  Even then the key they replaced does not come back on macOS
\* (ForcedImportWins).  On Linux a forced import that stopped half way (killed, or
\* failed on the file) has replaced the TPM blob and not the file: while the TPM
\* answers, a command that begins then never goes back to a key no import brought:
\* it refuses to choose, or another forced import has finished the job
\* (migrate_file_key_to_tpm_with_backend).
ForcedImportHolds ==
    /\ (platform = "macos" \/ tpmMode # "flaky") =>
            \A p \in alone : at[p] = "done" => {file, tpm, keychain} \ {None} = {key[p]}
    /\ platform = "macos" => Mac!ForcedImportWins
    /\ (platform = "linux" /\ tpmMode = "up" /\ ~powerLost) =>
            \A p \in split : at[p] = "done" => key[p] \in ImportedKeys
=============================================================================
