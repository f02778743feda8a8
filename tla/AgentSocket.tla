----------------------------- MODULE AgentSocket -----------------------------
(***************************************************************************)
(* How agents come to listen on the socket path (bind_agent_socket): the   *)
(* runtime directory is made and checked, a socket left behind by an agent *)
(* that died is recognised by nobody answering on it and removed, and a    *)
(* new one is bound.  Nothing but the file system holds between agents     *)
(* that start at the same time.                                            *)
(*                                                                         *)
(* UnixListener::bind is bind(2), which makes the socket file, and then    *)
(* listen(2); until then a connect is refused.  The socket file is known   *)
(* by the agent that bound it.                                             *)
(***************************************************************************)
CONSTANTS
    Agents,  \* agent processes
    Dead,    \* an agent that has died, whose socket may be left
    Other,   \* a file that is not a socket
    NoFile   \* nothing at the socket path

ASSUME SocketAssumption == /\ {Dead, Other, NoFile} \intersect Agents = {}
                           /\ Dead # Other /\ Dead # NoFile /\ Other # NoFile

VARIABLES
    dir,        \* the runtime directory: "missing", "open" or "private"
    path,       \* whose socket file is at the path, or Other or NoFile
    listening,  \* the agents whose socket answers
    sat,        \* where each agent is in bind_agent_socket
    answering   \* history: who was listening when each agent probed the path

socketVars == <<dir, path, listening, sat, answering>>

GotoS(a, label) == sat' = [sat EXCEPT ![a] = label]

\* parent.exists()
CheckDir(a) ==
    /\ sat[a] = "dir"
    /\ GotoS(a, IF dir = "missing" THEN "mkdir" ELSE "validate")
    /\ UNCHANGED <<dir, path, listening, answering>>

\* create_dir: the directory has the mode the umask leaves until it is secured.
MakeDir(a) ==
    /\ sat[a] = "mkdir"
    /\ \/ /\ dir = "missing"
          /\ dir' = "open"
          /\ GotoS(a, "secure")
       \/ /\ dir # "missing"         \* AlreadyExists
          /\ GotoS(a, "validate")
          /\ UNCHANGED dir
    /\ UNCHANGED <<path, listening, answering>>

SecureDir(a) ==
    /\ sat[a] = "secure"
    /\ dir' = "private"
    /\ GotoS(a, "validate")
    /\ UNCHANGED <<path, listening, answering>>

\* Fault: a directory that is there is taken as it is.
ValidateDirTrusting(a) ==
    /\ sat[a] = "validate"
    /\ GotoS(a, "stat")
    /\ UNCHANGED <<dir, path, listening, answering>>

\* validate_agent_runtime_directory
ValidateDir(a) ==
    /\ sat[a] = "validate"
    /\ GotoS(a, IF dir = "private" THEN "stat" ELSE "failed")
    /\ UNCHANGED <<dir, path, listening, answering>>

\* symlink_metadata
Stat(a) ==
    /\ sat[a] = "stat"
    /\ GotoS(a, CASE path = NoFile -> "bind"
                  [] path = Other -> "failed"
                  [] OTHER -> "probe")
    /\ UNCHANGED <<dir, path, listening, answering>>

\* Fault: any socket that is there is taken for a stale one.
ProbeAssumesStale(a) ==
    /\ sat[a] = "probe"
    /\ answering' = [answering EXCEPT ![a] = listening]
    /\ GotoS(a, "remove")
    /\ UNCHANGED <<dir, path, listening>>

\* UnixStream::connect: refused by a socket nobody listens on.
Probe(a) ==
    /\ sat[a] = "probe"
    /\ answering' = [answering EXCEPT ![a] = listening]
    /\ GotoS(a, IF path \in listening THEN "failed" ELSE "remove")
    /\ UNCHANGED <<dir, path, listening>>

\* remove_file: an error if the file is gone.
Remove(a) ==
    /\ sat[a] = "remove"
    /\ GotoS(a, IF path = NoFile THEN "failed" ELSE "bind")
    /\ path' = NoFile
    /\ UNCHANGED <<dir, listening, answering>>

\* bind(2): an error if there is a file.
Bind(a) ==
    /\ sat[a] = "bind"
    /\ \/ /\ path = NoFile
          /\ path' = a
          /\ GotoS(a, "listen")
       \/ /\ path # NoFile
          /\ GotoS(a, "failed")
          /\ UNCHANGED path
    /\ UNCHANGED <<dir, listening, answering>>

Listen(a) ==
    /\ sat[a] = "listen"
    /\ listening' = listening \union {a}
    /\ GotoS(a, "chmod")
    /\ UNCHANGED <<dir, path, answering>>

\* set_permissions on the path, whosever socket is there now.
Chmod(a) ==
    /\ sat[a] = "chmod"
    /\ \/ path # NoFile /\ GotoS(a, "serving") /\ UNCHANGED listening
       \/ /\ path = NoFile
          /\ GotoS(a, "failed")
          /\ listening' = listening \ {a}
    /\ UNCHANGED <<dir, path, answering>>

Opening(a) ==
    \/ CheckDir(a) \/ MakeDir(a) \/ SecureDir(a) \/ ValidateDir(a)
    \/ Stat(a) \/ Probe(a) \/ Remove(a) \/ Bind(a) \/ Listen(a) \/ Chmod(a)

\* The agents in A end: their socket files stay behind.
AgentsEnd(A) ==
    /\ sat' = [a \in Agents |->
                IF a \in A /\ sat[a] # "off" THEN "failed" ELSE sat[a]]
    /\ listening' = listening \ A
    /\ UNCHANGED <<dir, path, answering>>

SocketInit ==
    /\ \/ dir = "missing" /\ path = NoFile
       \/ dir = "private" /\ path \in {NoFile, Dead, Other}
    /\ listening = {}
    /\ sat = [a \in Agents |-> "off"]
    /\ answering = [a \in Agents |-> {}]

-----------------------------------------------------------------------------
(* Properties *)

\* "second_agent_refuses_live_socket": an agent never takes the path from one
\* that was already listening when it looked, whatever stale sockets and other
\* agents' removals came between.  (One that has bound and not listened yet, or
\* that came after the look, it may unseat.)
LiveSocketIsNotRemoved ==
    [][\A a \in listening : (path = a /\ path' # a) =>
        \E b \in Agents : /\ sat[b] = "remove" /\ sat'[b] = "bind"
                          /\ a \notin answering[b]]_socketVars

\* The type invariant; an agent listens only from listen(2) on.
SocketTypeOK ==
    /\ dir \in {"missing", "open", "private"}
    /\ path \in Agents \union {Dead, Other, NoFile}
    /\ listening = {a \in Agents : sat[a] \in {"chmod", "serving"}}
    /\ sat \in [Agents -> {"off", "dir", "mkdir", "secure", "validate", "stat",
                           "probe", "remove", "bind", "listen", "chmod",
                           "serving", "failed"}]
    /\ answering \in [Agents -> SUBSET Agents]

\* No socket is made in a directory others can enter, also when agents race to
\* make the directory or one dies between making and securing it
\* (ensure_agent_socket_parent).
SocketDirIsPrivate == SocketTypeOK /\ (path # NoFile => dir = "private")
=============================================================================
