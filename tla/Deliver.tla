------------------------------- MODULE Deliver -------------------------------
(***************************************************************************)
(* Delivering secrets to a child process or a file, one-shot or by a       *)
(* worker of the resident agent.                                           *)
(*                                                                         *)
(*   cli run       open everything, spawn the child with the secrets in    *)
(*                 its environment, wipe, wait                             *)
(*   agent run     the same through a helper process: the agent writes the *)
(*                 secrets to the helper's stdin and the helper becomes    *)
(*                 the child (exec)                                        *)
(*   inject        open everything, render, wipe, write a temporary file,  *)
(*                 sync it, rename it over the target, sync the directory  *)
(*                                                                         *)
(* The agent and its helper run concurrently over a bounded pipe.  Any     *)
(* call may fail, the deliverer may be killed between any two steps and    *)
(* the machine may lose power.  A frame is a sequence of fields; a read    *)
(* that ends inside a field fails as one that ends before it (read_exact). *)
(***************************************************************************)
EXTENDS Integers, Sequences

CONSTANTS
    Jobs,        \* the requests
    MaxSecrets,  \* MAX_AGENT_RUN_SECRETS
    PipeCap,     \* bound: the fields a pipe holds
    Existing,    \* what the target file held before; None if there was none
    Torn,        \* a file whose contents did not reach the disk
    None

\* What is wrong with a secret of a request: its target is not a shell name,
\* protected one-shot fields, an envelope that does not open, a value that is
\* not text without NUL, a name or a value over the helper's limits.
Faults == {"none", "name", "tier", "open", "text", "long", "size"}

Job == [by: {"cli", "agent"}, what: {"run", "inject"},
        secrets: Seq([target: STRING, fault: Faults])]

Targets(s) == [i \in DOMAIN s |-> s[i].target]

ASSUME DeliverAssumption ==
    /\ Jobs \subseteq Job
    /\ MaxSecrets \in Nat /\ PipeCap \in Nat \ {0}
    /\ None # Torn /\ Existing # Torn
    /\ \A j \in Jobs : None # [text |-> Targets(j.secrets), synced |-> TRUE]

VARIABLES
    job,      \* the request being served
    at,       \* the step the deliverer is at
    opened,   \* Vec<OpenedSecret>: the secrets it holds in the clear
    rendered, \* the rendered file it holds in the clear
    written,  \* fields of the frame written so far
    pipe,     \* fields in the pipe
    hat,      \* the step the helper is at
    need,     \* secrets the helper still expects
    got,      \* secrets the helper has read
    child,    \* the environment the command was started with
    alive,    \* whether a one-shot child runs
    tmp,      \* the temporary file
    file,     \* the target file, and what of it survives a power loss
    disk

deliverer == <<job, at, opened, rendered, written>>
helper == <<hat, need, got>>
files == <<tmp, file, disk>>
dvars == <<deliverer, pipe, helper, child, alive, files>>

Secrets == job.secrets
N == Len(Secrets)
All == Targets(Secrets)

\* Every way out of a function drops its Zeroizing buffers.
Leave(label) == at' = label /\ opened' = <<>> /\ rendered' = None
Goto(label) == at' = label /\ UNCHANGED <<opened, rendered>>

OnlyDeliverer == UNCHANGED <<job, written, pipe, helper, child, alive, files>>

-----------------------------------------------------------------------------
(* Opening *)

\* The checks made before anything is opened, then the master or the grant.
Begin ==
    /\ at = "start"
    /\ \/ Secrets # <<>> /\ Goto("open")
       \/ Leave("failed")
    /\ OnlyDeliverer

\* Fault: a target that was given before is not noticed.
OpenNextTwice ==
    /\ at = "open" /\ Len(opened) < N
    /\ LET s == Secrets[Len(opened) + 1]
       IN  IF s.fault \in {"tier", "name", "open"}
           THEN Leave("failed")
           ELSE opened' = Append(opened, s) /\ UNCHANGED <<at, rendered>>
    /\ OnlyDeliverer

\* open_env_secrets and open_named_secrets: tier, target name, no target twice,
\* then the envelope; one that fails ends them all.
OpenNext ==
    /\ at = "open" /\ Len(opened) < N
    /\ LET s == Secrets[Len(opened) + 1]
       IN  IF \/ s.fault \in {"tier", "name", "open"}
              \/ \E i \in DOMAIN opened : opened[i].target = s.target
           THEN Leave("failed")
           ELSE opened' = Append(opened, s) /\ UNCHANGED <<at, rendered>>
    /\ OnlyDeliverer

Opened ==
    /\ at = "open" /\ Len(opened) = N
    /\ Goto(IF job.what = "inject" THEN "render"
            ELSE IF job.by = "cli" THEN "spawn" ELSE "helper")
    /\ OnlyDeliverer

Deliverable == \A i \in DOMAIN opened : opened[i].fault # "text"

-----------------------------------------------------------------------------
(* deliver run, one-shot *)

SpawnChild ==
    /\ at = "spawn"
    /\ \/ /\ Deliverable
          /\ child' = Targets(opened) /\ alive' = TRUE
          /\ Leave("wait")
       \/ Leave("failed") /\ UNCHANGED <<child, alive>>
    /\ UNCHANGED <<job, written, pipe, helper, files>>

ChildEnds ==
    /\ alive /\ alive' = FALSE
    /\ UNCHANGED <<deliverer, pipe, helper, child, files>>

-----------------------------------------------------------------------------
(* deliver run by the agent: spawn_agent_run_helper *)

SpawnHelper ==
    /\ at = "helper"
    /\ \/ Goto("write") /\ hat' = "magic"
       \/ Leave("failed") /\ UNCHANGED hat
    /\ UNCHANGED <<job, written, pipe, need, got, child, alive, files>>

\* The fields of write_agent_run_helper_frame in order.
FrameLen == 2 + 2 * Len(opened)
Field(f) ==
    CASE f = 1 -> [kind |-> "magic"]
      [] f = 2 -> [kind |-> "count", n |-> Len(opened)]
      [] OTHER -> [kind |-> IF f % 2 = 1 THEN "name" ELSE "value",
                   secret |-> opened[(f - 1) \div 2]]

HelperGone == hat \in {"exited", "killed"}

\* A secret is checked when its turn comes, with the ones before it in the pipe.
Sendable(f) == f > 2 => opened[(f - 1) \div 2].fault # "text"

\* write_all of the next field; it waits while the pipe is full.
WriteField ==
    /\ at = "write" /\ written < FrameLen
    /\ Sendable(written + 1)
    /\ ~HelperGone
    /\ Len(pipe) < PipeCap
    /\ pipe' = Append(pipe, Field(written + 1))
    /\ written' = written + 1
    /\ UNCHANGED <<job, at, opened, rendered, helper, child, alive, files>>

\* Faults: the secrets stay in memory while the child runs; an error returns at
\* once; or waits for the helper with its stdin still open.
FrameWrittenKeeps ==
    /\ at = "write" /\ written = FrameLen
    /\ Goto("wait")
    /\ OnlyDeliverer

WriteFailsAtOnce ==
    /\ at = "write" /\ written < FrameLen
    /\ ~Sendable(written + 1) \/ HelperGone
    /\ Leave("failed")
    /\ OnlyDeliverer

WriteFailsWaiting ==
    /\ at = "write" /\ written < FrameLen
    /\ HelperGone
    /\ Leave("reap")
    /\ OnlyDeliverer

\* The frame is complete: wipe, close the pipe, wait.
FrameWritten ==
    /\ at = "write" /\ written = FrameLen
    /\ Leave("wait")
    /\ OnlyDeliverer

\* A value cannot be sent, or the helper is gone (EPIPE): wipe, close, kill.
WriteFails ==
    /\ at = "write" /\ written < FrameLen
    /\ ~Sendable(written + 1) \/ HelperGone
    /\ Leave("kill")
    /\ OnlyDeliverer

KillHelper ==
    /\ at = "kill"
    /\ hat' = IF HelperGone THEN hat ELSE "killed"
    /\ Goto("reap")
    /\ UNCHANGED <<job, written, pipe, need, got, child, alive, files>>

\* child.wait()
Wait ==
    /\ at \in {"wait", "reap"}
    /\ IF job.by = "cli" THEN ~alive ELSE HelperGone
    /\ Goto(IF at = "wait" THEN "done" ELSE "failed")
    /\ OnlyDeliverer

-----------------------------------------------------------------------------
(* The helper: read_agent_run_helper_frame, then exec *)

Reading == {"magic", "count", "name", "value"}
PipeClosed == at # "write"

HelperExits == hat' = "exited" /\ UNCHANGED <<need, got>>

ReadField ==
    /\ hat \in Reading /\ pipe # <<>>
    /\ LET f == Head(pipe)
       IN  \/ f.kind = "magic" /\ hat' = "count" /\ UNCHANGED <<need, got>>
           \/ /\ f.kind = "count" /\ f.n \in 1..MaxSecrets
              /\ hat' = "name" /\ need' = f.n /\ UNCHANGED got
           \/ f.kind = "count" /\ f.n \notin 1..MaxSecrets /\ HelperExits
           \/ /\ f.kind = "name" /\ f.secret.fault # "long"
              /\ hat' = "value" /\ UNCHANGED <<need, got>>
           \/ /\ f.kind = "value" /\ f.secret.fault # "size"
              /\ got' = Append(got, f.secret)
              /\ need' = need - 1
              /\ hat' = IF need = 1 THEN "exec" ELSE "name"
           \/ f.kind = "name" /\ f.secret.fault = "long" /\ HelperExits
           \/ f.kind = "value" /\ f.secret.fault = "size" /\ HelperExits
    /\ pipe' = Tail(pipe)
    /\ UNCHANGED <<deliverer, child, alive, files>>

\* Fault: the end of the input ends the frame.
ReadEofAccepts ==
    /\ hat \in Reading /\ pipe = <<>> /\ PipeClosed
    /\ hat' = IF got # <<>> THEN "exec" ELSE "exited"
    /\ UNCHANGED <<need, got, deliverer, pipe, child, alive, files>>

\* read_exact at the end of the input: the agent closed the pipe or died.
ReadEof ==
    /\ hat \in Reading /\ pipe = <<>> /\ PipeClosed
    /\ HelperExits
    /\ UNCHANGED <<deliverer, pipe, child, alive, files>>

\* env_clear, the secrets, exec; or exec fails.
Exec ==
    /\ hat = "exec"
    /\ \/ hat' = "child" /\ child' = Targets(got)
       \/ hat' = "exited" /\ UNCHANGED child
    /\ UNCHANGED <<need, got, deliverer, pipe, alive, files>>

\* The command, which is the helper's process now, ends.
CommandEnds ==
    /\ hat = "child"
    /\ HelperExits
    /\ UNCHANGED <<deliverer, pipe, child, alive, files>>

\* Something else kills the helper.
HelperDies ==
    /\ hat \in Reading \union {"exec"}
    /\ hat' = "killed"
    /\ UNCHANGED <<need, got, deliverer, pipe, child, alive, files>>

-----------------------------------------------------------------------------
(* deliver inject: render_inject_file, atomic_write_secret_file *)

Render ==
    /\ at = "render"
    /\ \/ /\ Deliverable
          /\ at' = "temp" /\ opened' = <<>> /\ rendered' = Targets(opened)
       \/ ~Deliverable /\ Leave("failed")
    /\ OnlyDeliverer

InjectCall(label, effect) ==
    /\ \/ Goto(label) /\ effect
       \/ Leave("failed") /\ tmp' = None /\ UNCHANGED <<file, disk>>
    /\ UNCHANGED <<job, written, pipe, helper, child, alive>>

WriteTemp ==
    /\ at = "temp"
    /\ InjectCall("temp_sync", tmp' = [text |-> rendered, synced |-> FALSE]
                               /\ UNCHANGED <<file, disk>>)

\* Fault: the temporary file is not synced.
SyncTempSkipped ==
    /\ at = "temp_sync"
    /\ InjectCall("persist", UNCHANGED files)

SyncTemp ==
    /\ at = "temp_sync"
    /\ InjectCall("persist", tmp' = [tmp EXCEPT !.synced = TRUE]
                             /\ UNCHANGED <<file, disk>>)

Persist ==
    /\ at = "persist"
    /\ InjectCall("dir_sync", file' = tmp /\ tmp' = None /\ UNCHANGED disk)

\* sync_parent_dir; then the rendered copy goes too.
SyncDir ==
    /\ at = "dir_sync"
    /\ Leave("done")
    /\ disk' = file
    /\ UNCHANGED <<job, written, pipe, helper, child, alive, tmp, file>>

SyncDirFails ==
    /\ at = "dir_sync"
    /\ Leave("failed")
    /\ OnlyDeliverer

-----------------------------------------------------------------------------
(* Crashes and the specification *)

Ended == at \in {"done", "failed", "killed"}

Killed ==
    /\ ~Ended
    /\ Leave("killed")
    /\ OnlyDeliverer

\* What a file that was renamed in, but whose contents or whose entry were not
\* synced, may be afterwards.
PowerLoss ==
    /\ ~Ended
    /\ Leave("killed")
    /\ hat' = IF hat = "off" THEN hat ELSE "killed"
    /\ alive' = FALSE
    /\ file' \in {disk, IF file = None \/ file.synced THEN file
                        ELSE [text |-> Torn, synced |-> TRUE]}
    /\ disk' = file' /\ tmp' = None
    /\ UNCHANGED <<job, written, pipe, need, got, child>>

FileBefore == IF Existing = None THEN None ELSE [text |-> Existing, synced |-> TRUE]

NothingDone ==
    /\ at = "start" /\ opened = <<>> /\ rendered = None /\ written = 0
    /\ pipe = <<>> /\ hat = "off" /\ need = 0 /\ got = <<>>
    /\ child = None /\ alive = FALSE
    /\ tmp = None /\ file = FileBefore /\ disk = FileBefore

DeliverInit == job \in Jobs /\ NothingDone

\* The steps of the deliverer's own thread, and of the helper.
Deliverer ==
    \/ Begin \/ OpenNext \/ Opened
    \/ SpawnChild \/ SpawnHelper
    \/ WriteField \/ FrameWritten \/ WriteFails \/ KillHelper \/ Wait
    \/ Render \/ WriteTemp \/ SyncTemp \/ Persist \/ SyncDir \/ SyncDirFails

Helper == ReadField \/ ReadEof \/ Exec

DeliverNext ==
    \/ Deliverer \/ Helper
    \/ ChildEnds \/ CommandEnds
    \/ Killed \/ HelperDies \/ PowerLoss

DeliverSpec == DeliverInit /\ [][DeliverNext]_dvars

\* Both processes run; nothing is assumed of the command.
DeliverFairSpec == DeliverSpec /\ WF_dvars(Deliverer) /\ WF_dvars(Helper)

-----------------------------------------------------------------------------
(* Properties *)

\* The type invariant.
DeliverTypeOK ==
    /\ job \in Jobs
    /\ at \in {"start", "open", "spawn", "helper", "write", "kill", "reap", "wait",
              "render", "temp", "temp_sync", "persist", "dir_sync",
              "done", "failed", "killed"}
    /\ hat \in Reading \union {"off", "exec", "child", "exited", "killed"}
    /\ written \in 0..(2 + 2 * N) /\ Len(pipe) <= PipeCap
    /\ need \in 0..MaxSecrets /\ Len(got) + need <= N
    /\ alive \in BOOLEAN

\* A command starts with every secret the request names under its target, and no
\* target twice, or it does not start: also when the agent finds a secret it
\* cannot send after it has sent others, when the agent or the helper dies in the
\* middle of the frame, and when the frame is over the helper's limits
\* (write_agent_run_helper_frame, read_agent_run_helper_frame).
CommandGetsAllOrNothing ==
    child # None =>
        /\ job.what = "run" /\ child = All
        /\ \A i, j \in DOMAIN child : child[i] = child[j] => i = j
        /\ \A i \in DOMAIN Secrets : Secrets[i].fault \notin {"tier", "name", "open", "text"}

\* "Files are written atomically through an owner-only temporary file, fsync,
\* rename, and parent-directory fsync": whenever the command is killed or the
\* power fails, the target holds what it held before or all the secrets, and
\* success means it is on disk (atomic_write_secret_file).
InjectedFileIsWhole ==
    /\ \A f \in {file, disk} \ {None} :
            f.text = Existing \/ (job.what = "inject" /\ f.text = All)
    /\ (at = "done" /\ job.what = "inject") => disk # None /\ disk.text = All

\* No plaintext outlives its use.  Secrets are held in the clear only while they
\* are opened and handed over: not while the deliverer waits for the command, nor
\* once it has ended, in whatever way; and when the agent has answered, with an
\* exit code or an error, no helper of its is left that holds secrets or may still
\* start the command (spawn_agent_run_helper: wipe, kill, wait).
NoPlaintextIsLeft ==
    /\ DeliverTypeOK
    /\ opened # <<>> => at \in {"open", "spawn", "helper", "write", "render"}
    /\ rendered # None => at \in {"temp", "temp_sync", "persist", "dir_sync"}
    /\ at \in {"done", "failed"} => hat \in {"off", "exited", "killed"}

\* The agent and the helper never wait for each other for ever: the frame is
\* written or given up, and a helper stops reading, even if the agent dies in
\* the middle, the helper does, or the frame is refused half way.
PipeIsNeverStuck ==
    /\ at \in {"write", "kill", "reap"} ~> at \notin {"write", "kill", "reap"}
    /\ hat \in Reading ~> hat \notin Reading
=============================================================================
