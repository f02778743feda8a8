----------------------------- MODULE KeychainGate -----------------------------
(***************************************************************************)
(* `avault key authorize` on macOS (authorize_with_gate): the one place    *)
(* that may show a Keychain prompt.  All of a user's processes share a     *)
(* gate file.  Its flock decides who prompts; its contents are the end of  *)
(* the cooldown that a denied prompt starts.  The kernel releases the lock *)
(* when its holder returns or dies.                                        *)
(*                                                                         *)
(* The record is in Unix seconds, and the wall clock may be set.  Waiting  *)
(* is measured on the monotonic clock.  The Keychain and its user are      *)
(* external: a prompt may stay open for ever.                              *)
(***************************************************************************)
EXTENDS Integers

CONSTANTS
    Procs,       \* processes that run `avault key authorize`
    Cooldown,    \* KEYCHAIN_AUTHORIZATION_COOLDOWN_SECS
    Wait,        \* KEYCHAIN_AUTHORIZATION_WAIT
    WallSteps,   \* by how much the wall clock may be set forward or back
    TornWrites,  \* may rewriting a bad record fail half-way?
    None,        \* nobody; the empty record
    Garbage,     \* a record that is not a number
    MaxNow,      \* bound: the last instant of a behaviour
    MaxOffset    \* bound: how far the wall clock strays

ASSUME GateAssumption ==
    /\ Cooldown \in Nat \ {0} /\ Wait \in Nat
    /\ WallSteps \subseteq Int /\ TornWrites \in BOOLEAN
    /\ MaxNow \in Nat /\ MaxOffset \in Nat
    /\ None \notin Procs /\ Garbage # None
    /\ None \notin Int /\ Garbage \notin Int

VARIABLES
    now,       \* the monotonic clock
    offset,    \* the wall clock minus the monotonic clock
    holder,    \* the process that has the gate's flock
    record,    \* the gate's contents: None, Garbage or an end of cooldown
    pc,        \* where each process is in authorize_with_gate
    waited,    \* did it find the gate taken?
    deadline,  \* until when it waits
    until,     \* the record it is about to write
    denied,    \* history: when the last recorded denial was given, or None
    overlap,   \* history: was another's prompt open since it first tried?
    refusal    \* history: first and last of a run of refusals, or None

env == <<now, offset>>
locals == <<waited, deadline, until>>
gateVars == <<env, holder, record, pc, locals, denied, overlap, refusal>>

Wall == now + offset

Goto(p, label) == pc' = [pc EXCEPT ![p] = label]

\* The call is over.  The gate is closed, which releases the lock.
Leave(p) ==
    /\ Goto(p, "idle")
    /\ holder' = IF holder = p THEN None ELSE holder
    /\ waited' = [waited EXCEPT ![p] = FALSE]
    /\ deadline' = [deadline EXCEPT ![p] = 0]
    /\ until' = [until EXCEPT ![p] = 0]
    /\ overlap' = [overlap EXCEPT ![p] = FALSE]

-----------------------------------------------------------------------------
(* Taking the gate *)

PromptOpen(p) == \E q \in Procs \ {p} : pc[q] = "prompt"

\* Fault: only the last try_lock is remembered.
StartForgetsWait(p) ==
    /\ pc[p] = "idle"
    /\ overlap' = [overlap EXCEPT ![p] = PromptOpen(p)]
    /\ \/ /\ holder = None
          /\ holder' = p
          /\ Goto(p, "check")
          /\ UNCHANGED deadline
       \/ /\ holder # None
          /\ now + Wait <= MaxNow
          /\ deadline' = [deadline EXCEPT ![p] = now + Wait]
          /\ Goto(p, "waiting")
          /\ UNCHANGED holder
    /\ UNCHANGED <<env, record, waited, until, denied, refusal>>

\* open_keychain_authorization_gate and the first try_lock.  Bound: a wait that
\* starts can end within the behaviour.
Start(p) ==
    /\ pc[p] = "idle"
    /\ overlap' = [overlap EXCEPT ![p] = PromptOpen(p)]
    /\ \/ /\ holder = None
          /\ holder' = p
          /\ Goto(p, "check")
          /\ UNCHANGED <<waited, deadline>>
       \/ /\ holder # None
          /\ now + Wait <= MaxNow
          /\ waited' = [waited EXCEPT ![p] = TRUE]
          /\ deadline' = [deadline EXCEPT ![p] = now + Wait]
          /\ Goto(p, "waiting")
          /\ UNCHANGED holder
    /\ UNCHANGED <<env, record, until, denied, refusal>>

\* Fault: a waiter polls until the prompt is answered.
PollForever(p) ==
    /\ pc[p] = "waiting"
    /\ holder = None
    /\ holder' = p
    /\ Goto(p, "check")
    /\ UNCHANGED <<env, record, locals, denied, overlap, refusal>>

\* A poll of a waiter: the lock is free, or the time is up.
Poll(p) ==
    /\ pc[p] = "waiting"
    /\ \/ /\ holder = None /\ holder' = p /\ Goto(p, "check")
          /\ UNCHANGED <<locals, overlap>>
       \/ holder # None /\ now >= deadline[p] /\ Leave(p)
    /\ UNCHANGED <<env, record, denied, refusal>>

-----------------------------------------------------------------------------
(* With the gate: keychain_authorization_cooldown *)

Unreadable == record = Garbage
TooFar == record \notin {None, Garbage} /\ record - Wall > Cooldown
Cooling ==
    /\ record \notin {None, Garbage}
    /\ record > Wall
    /\ record - Wall <= Cooldown

\* A run of refusals goes on until a prompt may be shown again.
Refused == refusal' = [first |-> IF refusal = None THEN now ELSE refusal.first,
                       last  |-> now]

\* The cooldown is over: a waiter makes its background read, the first comer
\* opens a prompt.
CooldownOver(p) ==
    /\ pc[p] = "check"
    /\ ~Unreadable /\ ~TooFar /\ ~Cooling
    /\ record' = None
    /\ refusal' = None
    /\ Goto(p, IF waited[p] THEN "coalesced" ELSE "prompt")
    /\ overlap' = IF waited[p] THEN overlap
                  ELSE [q \in Procs |-> overlap[q] \/ (q # p /\ pc[q] # "idle")]
    /\ UNCHANGED <<env, holder, locals, denied>>

CooldownRefuses(p) ==
    /\ pc[p] = "check"
    /\ Cooling
    /\ Refused
    /\ Leave(p)
    /\ UNCHANGED <<env, record, denied>>

\* Fault: a bad record is refused but left as it is.
CooldownKeepsBadRecord(p) ==
    /\ pc[p] = "check"
    /\ Unreadable \/ TooFar
    /\ Refused
    /\ Leave(p)
    /\ UNCHANGED <<env, record, denied>>

\* A record that is unreadable or ends too far off is replaced by one window
\* from now: it is truncated here and written by WriteRecord.
CooldownRewrites(p) ==
    /\ pc[p] = "check"
    /\ Unreadable \/ TooFar
    /\ record' = None
    /\ until' = [until EXCEPT ![p] = Wall + Cooldown]
    /\ Refused
    /\ Goto(p, "rewriting")
    /\ UNCHANGED <<env, holder, waited, deadline, denied, overlap>>

-----------------------------------------------------------------------------
(* The operation behind the gate *)

\* A waiter's background read shows no prompt, whatever it finds.
Coalesced(p) ==
    /\ pc[p] = "coalesced"
    /\ Leave(p)
    /\ UNCHANGED <<env, record, denied, refusal>>

\* Access was granted, or failed for a reason that is no denial.
Answered(p) ==
    /\ pc[p] = "prompt"
    /\ record' \in {None, record}   \* set_len(0), best effort, only on success
    /\ Leave(p)
    /\ UNCHANGED <<env, denied, refusal>>

\* Fault: the window is one second short.
DeniedShort(p) ==
    /\ pc[p] = "prompt"
    /\ denied' = now
    /\ record' = None
    /\ until' = [until EXCEPT ![p] = Wall + Cooldown - 1]
    /\ Goto(p, "denying")
    /\ UNCHANGED <<env, holder, waited, deadline, overlap, refusal>>

\* errSecUserCanceled, errSecAuthFailed: the clock is read and the old record
\* truncated.
Denied(p) ==
    /\ pc[p] = "prompt"
    /\ denied' = now
    /\ record' = None
    /\ until' = [until EXCEPT ![p] = Wall + Cooldown]
    /\ Goto(p, "denying")
    /\ UNCHANGED <<env, holder, waited, deadline, overlap, refusal>>

WriteRecord(p) ==
    /\ pc[p] \in {"denying", "rewriting"}
    /\ record' = until[p]
    /\ Leave(p)
    /\ UNCHANGED <<env, denied, refusal>>

\* The process is killed, or a call on the gate fails and it returns the error.
\* A denial it had not recorded yet is then forgotten.
Dies(p) ==
    /\ pc[p] # "idle"
    /\ pc[p] = "rewriting" => TornWrites
    /\ Leave(p)
    /\ denied' = IF pc[p] = "denying" THEN None ELSE denied
    /\ UNCHANGED <<env, record, refusal>>

-----------------------------------------------------------------------------
(* The environment and the specification *)

Tick ==
    /\ now < MaxNow
    /\ now' = now + 1
    /\ UNCHANGED <<offset, holder, record, pc, locals, denied, overlap, refusal>>

\* The system clock is set.
StepWall ==
    /\ \E d \in WallSteps :
        /\ offset + d \in -MaxOffset .. MaxOffset
        /\ offset' = offset + d
    /\ refusal' = None
    /\ UNCHANGED <<now, holder, record, pc, locals, denied, overlap>>

\* Somebody edits the gate file by hand.
Edit ==
    /\ record \notin {None, Garbage}
    /\ record' = Garbage
    /\ refusal' = None
    /\ UNCHANGED <<env, holder, pc, locals, denied, overlap>>

Init ==
    /\ now = 0
    /\ offset = 0
    /\ holder = None
    /\ record = None
    /\ pc = [p \in Procs |-> "idle"]
    /\ waited = [p \in Procs |-> FALSE]
    /\ deadline = [p \in Procs |-> 0]
    /\ until = [p \in Procs |-> 0]
    /\ denied = None
    /\ overlap = [p \in Procs |-> FALSE]
    /\ refusal = None

Authorize(p) ==
    \/ Start(p) \/ Poll(p)
    \/ CooldownOver(p) \/ CooldownRefuses(p) \/ CooldownRewrites(p)
    \/ Coalesced(p) \/ Answered(p) \/ Denied(p) \/ WriteRecord(p)
    \/ Dies(p)

Next == (\E p \in Procs : Authorize(p)) \/ Tick \/ StepWall \/ Edit

Spec == Init /\ [][Next]_gateVars

\* Waiters poll and time passes.  Nothing is assumed of whoever has the gate:
\* its user may never answer.
FairSpec == Spec /\ WF_gateVars(Tick) /\ \A p \in Procs : WF_gateVars(Poll(p))

-----------------------------------------------------------------------------
(* Properties *)

\* The type invariant; the holder of the lock is the one process past it.
GateTypeOK ==
    /\ now \in Nat /\ offset \in Int
    /\ record \in Int \union {None, Garbage}
    /\ waited \in [Procs -> BOOLEAN]
    /\ deadline \in [Procs -> Int] /\ until \in [Procs -> Int]
    /\ denied \in Nat \union {None}
    /\ overlap \in [Procs -> BOOLEAN]
    /\ refusal \in [first: Nat, last: Nat] \union {None}
    /\ pc \in [Procs -> {"idle", "waiting", "check", "coalesced", "prompt",
                          "denying", "rewriting"}]
    /\ \A p \in Procs : pc[p] \notin {"idle", "waiting"} <=> holder = p

\* "A caller that had to wait never prompts": a burst of callers shows one
\* prompt, so whoever prompts saw nobody else's prompt since it first tried the
\* gate (authorize_with_gate); and the types.
OnePromptPerBurst ==
    /\ GateTypeOK
    /\ \A p \in Procs : pc[p] = "prompt" => ~overlap[p]

\* "A denied or cancelled prompt starts a cooldown, measured from the denial,
\* during which nobody prompts", and bad metadata "never re-enables them early":
\* however the record is damaged or the clock set back, a prompt opens no
\* sooner than Cooldown after the last denial that was recorded.
CooldownIsKept ==
    [][\A p \in Procs : (pc[p] # "prompt" /\ pc'[p] = "prompt" /\ denied # None)
            => now - denied >= Cooldown]_gateVars

\* "Bad metadata can therefore suppress prompts for at most one window": once
\* refused, callers are not refused for longer than one cooldown unless there is
\* a new denial or the clock or the record is tampered with again.
RefusalsEnd == refusal # None => refusal.last - refusal.first < Cooldown

\* "Waiting is bounded": a waiter returns even if the prompt it waits for is
\* never answered.
WaitingEnds == \A p \in Procs : pc[p] = "waiting" ~> pc[p] # "waiting"
=============================================================================
