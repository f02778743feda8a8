------------------------------ MODULE AgentStart ------------------------------
(***************************************************************************)
(* The start of `avault agent` (run_agent up to its loop), by several      *)
(* processes on one state directory and one socket path, together with     *)
(* the one-shot commands that use the passphrase store.  With --unlock the *)
(* passphrase store is unlocked, or created, before the socket path is     *)
(* touched; other stores are only loaded when a request needs them.        *)
(***************************************************************************)
EXTENDS PassphraseStore, AgentSocket

ASSUME OneSetOfProcesses == Agents = Procs

VARIABLE unlock   \* the agents started with --unlock

startVars == <<passVars, socketVars, unlock>>

StoreOps == {"get", "get_or_create", "import", "import_force"}

\* A one-shot command on the passphrase store.
Command(p) ==
    /\ sat[p] = "off" /\ p \notin unlock
    /\ \E o \in StoreOps, s \in Passphrases : Begin(p, o, s)
    /\ UNCHANGED <<socketVars, unlock>>

\* run_agent with --unlock: load_or_create_passphrase_master_key first.
StartUnlocking(p) ==
    /\ sat[p] = "off"
    /\ \E s \in Passphrases : Begin(p, "get_or_create", s)
    /\ unlock' = unlock \union {p}
    /\ UNCHANGED socketVars

StoreStep(p) == Operate(p) /\ UNCHANGED <<socketVars, unlock>>

\* bind_agent_socket is called: with the master in hand, or without --unlock.
BindSocket(p) ==
    /\ sat[p] = "off"
    /\ \/ at[p] = "idle" /\ p \notin unlock
       \/ at[p] = "done" /\ p \in unlock
    /\ GotoS(p, "dir")
    /\ UNCHANGED <<passVars, unlock, dir, path, listening, answering>>

SocketStep(p) == Opening(p) /\ UNCHANGED <<passVars, unlock>>

Kill(p) ==
    \/ Killed(p) /\ UNCHANGED <<socketVars, unlock>>
    \/ /\ sat[p] \notin {"off", "failed"}
       /\ AgentsEnd({p})
       /\ UNCHANGED <<passVars, unlock>>

Outage == PowerLoss /\ AgentsEnd(Agents) /\ UNCHANGED unlock

StartInit == PassInit /\ SocketInit /\ unlock = {}

StartNext ==
    \/ \E p \in Procs :
        \/ Command(p) \/ StartUnlocking(p) \/ StoreStep(p)
        \/ BindSocket(p) \/ SocketStep(p) \/ Kill(p)
    \/ Outage

StartSpec == StartInit /\ [][StartNext]_startVars
=============================================================================
