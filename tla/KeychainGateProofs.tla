-------------------------- MODULE KeychainGateProofs --------------------------
(* Theorems about KeychainGate, for every set of processes, every cooldown and *)
(* waiting time, and every way the wall clock is set.                          *)
EXTENDS KeychainGate, TLAPS

-----------------------------------------------------------------------------
(* The inductive invariant *)

\* A process that had to wait remembers it, and one that did not saw no prompt
\* of another since it first tried the gate.
BurstInv ==
    \A p \in Procs :
        /\ pc[p] = "prompt" => ~overlap[p]
        /\ pc[p] = "waiting" => waited[p]
        /\ (pc[p] = "check" /\ ~waited[p]) => ~overlap[p]

\* During a run of refusals the record, or what is about to be written there,
\* ends within one window of the first of them, on the wall clock as it is set
\* since; nobody prompts.
RefusalInv ==
    refusal # None =>
        /\ refusal.first <= now
        /\ refusal.last - refusal.first < Cooldown
        /\ record # Garbage
        /\ record # None => record - offset <= refusal.first + Cooldown
        /\ \A p \in Procs :
            /\ pc[p] = "rewriting" => until[p] - offset <= refusal.first + Cooldown
            /\ pc[p] \notin {"prompt", "denying"}

GateInv == GateTypeOK /\ BurstInv /\ RefusalInv

-----------------------------------------------------------------------------
(* Lemmas on the lock *)

Places == {"idle", "waiting", "check", "coalesced", "prompt", "denying",
           "rewriting"}

\* The gate is closed behind process p: nobody else moves, and nobody holds it
\* if p did.
LEMMA LeaveFrees ==
    ASSUME GateTypeOK, NEW p \in Procs, Leave(p)
    PROVE  /\ pc' \in [Procs -> Places]
           /\ \A q \in Procs : pc'[q] = IF q = p THEN "idle" ELSE pc[q]
           /\ \A q \in Procs : pc'[q] \notin {"idle", "waiting"} <=> holder' = q
           /\ waited' \in [Procs -> BOOLEAN]
           /\ \A q \in Procs : q # p => waited'[q] = waited[q]
           /\ deadline' \in [Procs -> Int]
           /\ until' \in [Procs -> Int]
           /\ \A q \in Procs : q # p => until'[q] = until[q]
           /\ overlap' \in [Procs -> BOOLEAN]
           /\ \A q \in Procs : q # p => overlap'[q] = overlap[q]
<1>1. /\ pc' \in [Procs -> Places]
      /\ \A q \in Procs : pc'[q] = IF q = p THEN "idle" ELSE pc[q]
  BY DEF GateTypeOK, Leave, Goto, Places
<1>2. \A q \in Procs : pc'[q] \notin {"idle", "waiting"} <=> holder' = q
  BY <1>1, GateAssumption DEF GateTypeOK, Leave
<1>3. /\ waited' \in [Procs -> BOOLEAN]
      /\ \A q \in Procs : q # p => waited'[q] = waited[q]
  BY DEF GateTypeOK, Leave
<1>4. /\ overlap' \in [Procs -> BOOLEAN]
      /\ \A q \in Procs : q # p => overlap'[q] = overlap[q]
  BY DEF GateTypeOK, Leave
<1>5. /\ deadline' \in [Procs -> Int]
      /\ until' \in [Procs -> Int]
      /\ \A q \in Procs : q # p => until'[q] = until[q]
  BY DEF GateTypeOK, Leave
<1>. QED
  BY <1>1, <1>2, <1>3, <1>4, <1>5

\* Leaving breaks nothing of the invariant but what the record says.
LEMMA LeaveInv ==
    ASSUME GateInv, NEW p \in Procs, Leave(p),
           UNCHANGED env,
           record' \in Int \union {None, Garbage},
           denied' \in Nat \union {None},
           refusal' \in [first: Nat, last: Nat] \union {None},
           RefusalInv'
    PROVE  GateInv'
<1>1. GateTypeOK'
  BY LeaveFrees DEF GateInv, GateTypeOK, env, Places
<1>2. BurstInv'
  BY LeaveFrees DEF GateInv, BurstInv
<1>. QED
  BY <1>1, <1>2 DEF GateInv

\* Leaving without touching the record or the run of refusals.
LEMMA LeaveQuietly ==
    ASSUME GateInv, NEW p \in Procs, Leave(p), UNCHANGED <<env, record, refusal>>
    PROVE  RefusalInv'
<1>1. /\ \A q \in Procs : pc'[q] = IF q = p THEN "idle" ELSE pc[q]
      /\ \A q \in Procs : q # p => until'[q] = until[q]
  BY LeaveFrees DEF GateInv
<1>. QED
  BY <1>1 DEF GateInv, RefusalInv, env

\* The holder moves on with the gate in its hands.
LEMMA HolderMoves ==
    ASSUME GateTypeOK, NEW p \in Procs, pc[p] \notin {"idle", "waiting"},
           NEW label \in Places \ {"idle", "waiting"}, Goto(p, label),
           UNCHANGED holder
    PROVE  /\ pc' \in [Procs -> Places]
           /\ \A q \in Procs : pc'[q] = IF q = p THEN label ELSE pc[q]
           /\ \A q \in Procs : pc'[q] \notin {"idle", "waiting"} <=> holder' = q
           /\ \A q \in Procs : q # p => pc[q] \in {"idle", "waiting"}
BY DEF GateTypeOK, Goto, Places

-----------------------------------------------------------------------------
(* The steps *)

LEMMA GateInitially == Init => GateInv
<1>. SUFFICES ASSUME Init PROVE GateInv
  OBVIOUS
<1>1. GateTypeOK
  BY GateAssumption DEF Init, GateTypeOK
<1>2. BurstInv /\ RefusalInv
  BY DEF Init, BurstInv, RefusalInv
<1>. QED
  BY <1>1, <1>2 DEF GateInv

LEMMA StartInv ==
    ASSUME GateInv, NEW p \in Procs, Start(p)
    PROVE  GateInv'
<1>0. GateTypeOK /\ BurstInv /\ RefusalInv
  BY DEF GateInv
<1>1. /\ overlap' \in [Procs -> BOOLEAN]
      /\ \A q \in Procs : overlap'[q] = IF q = p THEN PromptOpen(p) ELSE overlap[q]
  <2>1. PromptOpen(p) \in BOOLEAN
    BY DEF PromptOpen
  <2>. QED
    BY <1>0, <2>1 DEF Start, GateTypeOK
<1>2. CASE holder = None /\ holder' = p /\ Goto(p, "check") /\ UNCHANGED <<waited, deadline>>
  <2>1. \A q \in Procs : pc'[q] = IF q = p THEN "check" ELSE pc[q]
    BY <1>0, <1>2 DEF GateTypeOK, Goto
  <2>2. \A q \in Procs : pc[q] \in {"idle", "waiting"}
    BY <1>0, <1>2, GateAssumption DEF GateTypeOK
  <2>3. ~PromptOpen(p)
    BY <2>2 DEF PromptOpen
  <2>4. GateTypeOK'
    <3>1. pc' \in [Procs -> Places]
      BY <1>0, <1>2 DEF GateTypeOK, Goto, Places
    <3>2. \A q \in Procs : pc'[q] \notin {"idle", "waiting"} <=> holder' = q
      BY <1>2, <2>1, <2>2
    <3>. QED
      BY <1>0, <1>1, <1>2, <3>1, <3>2 DEF GateTypeOK, Start, Places, env
  <2>5. BurstInv'
    BY <1>0, <1>1, <1>2, <2>1, <2>3 DEF BurstInv
  <2>6. RefusalInv'
    BY <1>0, <2>1 DEF RefusalInv, Start, env
  <2>. QED
    BY <2>4, <2>5, <2>6 DEF GateInv
<1>3. CASE /\ waited' = [waited EXCEPT ![p] = TRUE]
           /\ deadline' = [deadline EXCEPT ![p] = now + Wait]
           /\ Goto(p, "waiting")
           /\ UNCHANGED holder
  <2>1. \A q \in Procs : pc'[q] = IF q = p THEN "waiting" ELSE pc[q]
    BY <1>0, <1>3 DEF GateTypeOK, Goto
  <2>2. /\ waited' \in [Procs -> BOOLEAN]
        /\ \A q \in Procs : waited'[q] = IF q = p THEN TRUE ELSE waited[q]
    BY <1>0, <1>3 DEF GateTypeOK
  <2>3. pc[p] = "idle"
    BY DEF Start
  <2>4. GateTypeOK'
    <3>1. pc' \in [Procs -> Places]
      BY <1>0, <1>3 DEF GateTypeOK, Goto, Places
    <3>2. \A q \in Procs : pc'[q] \notin {"idle", "waiting"} <=> holder' = q
      BY <1>0, <1>3, <2>1, <2>3 DEF GateTypeOK
    <3>3. deadline' \in [Procs -> Int]
      BY <1>0, <1>3, GateAssumption DEF GateTypeOK
    <3>. QED
      BY <1>0, <1>1, <2>2, <3>1, <3>2, <3>3 DEF GateTypeOK, Start, Places, env
  <2>5. BurstInv'
    BY <1>0, <1>1, <2>1, <2>2 DEF BurstInv
  <2>6. RefusalInv'
    BY <1>0, <2>1 DEF RefusalInv, Start, env
  <2>. QED
    BY <2>4, <2>5, <2>6 DEF GateInv
<1>. QED
  BY <1>2, <1>3 DEF Start

LEMMA PollInv ==
    ASSUME GateInv, NEW p \in Procs, Poll(p)
    PROVE  GateInv'
<1>0. GateTypeOK /\ BurstInv /\ RefusalInv
  BY DEF GateInv
<1>1. CASE holder = None /\ holder' = p /\ Goto(p, "check") /\ UNCHANGED <<locals, overlap>>
  <2>1. \A q \in Procs : pc'[q] = IF q = p THEN "check" ELSE pc[q]
    BY <1>0, <1>1 DEF GateTypeOK, Goto
  <2>2. \A q \in Procs : pc[q] \in {"idle", "waiting"}
    BY <1>0, <1>1, GateAssumption DEF GateTypeOK
  <2>3. GateTypeOK'
    <3>1. pc' \in [Procs -> Places]
      BY <1>0, <1>1 DEF GateTypeOK, Goto, Places
    <3>2. \A q \in Procs : pc'[q] \notin {"idle", "waiting"} <=> holder' = q
      BY <1>1, <2>1, <2>2
    <3>. QED
      BY <1>0, <1>1, <3>1, <3>2 DEF GateTypeOK, Poll, Places, env, locals
  <2>4. BurstInv'
    BY <1>0, <1>1, <2>1 DEF BurstInv, Poll, locals
  <2>5. RefusalInv'
    BY <1>0, <1>1, <2>1 DEF RefusalInv, Poll, env, locals
  <2>. QED
    BY <2>3, <2>4, <2>5 DEF GateInv
<1>2. CASE Leave(p)
  BY <1>0, <1>2, LeaveInv, LeaveQuietly DEF Poll, GateTypeOK
<1>. QED
  BY <1>1, <1>2 DEF Poll

LEMMA CooldownOverInv ==
    ASSUME GateInv, NEW p \in Procs, CooldownOver(p)
    PROVE  GateInv'
<1>0. GateTypeOK /\ BurstInv /\ pc[p] = "check"
  BY DEF GateInv, CooldownOver
<1>. DEFINE label == IF waited[p] THEN "coalesced" ELSE "prompt"
<1>1. /\ label \in Places \ {"idle", "waiting"}
      /\ Goto(p, label)
      /\ label = "prompt" => ~waited[p]
  BY DEF CooldownOver, Places
<1>. HIDE DEF label
<1>2. /\ pc' \in [Procs -> Places]
      /\ \A q \in Procs : pc'[q] = IF q = p THEN label ELSE pc[q]
      /\ \A q \in Procs : pc'[q] \notin {"idle", "waiting"} <=> holder' = q
      /\ \A q \in Procs : q # p => pc[q] \in {"idle", "waiting"}
  BY <1>0, <1>1, HolderMoves DEF CooldownOver
<1>3. overlap' \in [Procs -> BOOLEAN] /\ overlap'[p] = overlap[p]
  <2>1. CASE waited[p]
    BY <1>0, <2>1 DEF CooldownOver, GateTypeOK
  <2>2. CASE ~waited[p]
    <3>1. \A q \in Procs : (overlap[q] \/ (q # p /\ pc[q] # "idle")) \in BOOLEAN
      OBVIOUS
    <3>2. overlap' = [q \in Procs |-> overlap[q] \/ (q # p /\ pc[q] # "idle")]
      BY <2>2 DEF CooldownOver
    <3>3. overlap' \in [Procs -> BOOLEAN]
      BY <3>1, <3>2
    <3>4. overlap'[p] = (overlap[p] \/ (p # p /\ pc[p] # "idle"))
      BY <3>2
    <3>5. overlap[p] \in BOOLEAN
      BY <1>0 DEF GateTypeOK
    <3>. QED
      BY <3>3, <3>4, <3>5
  <2>. QED
    BY <2>1, <2>2
<1>4. GateTypeOK'
  BY <1>0, <1>2, <1>3 DEF GateTypeOK, CooldownOver, Places, env, locals
<1>5. BurstInv'
  BY <1>0, <1>1, <1>2, <1>3 DEF BurstInv, CooldownOver, locals, Places
<1>6. RefusalInv'
  BY DEF RefusalInv, CooldownOver
<1>. QED
  BY <1>4, <1>5, <1>6 DEF GateInv

\* A refusal starts a run, or continues one that began no later than now.
LEMMA RefusedRun ==
    ASSUME GateTypeOK, RefusalInv, Refused
    PROVE  /\ refusal' \in [first: Nat, last: Nat]
           /\ refusal'.last = now
           /\ refusal'.first = IF refusal = None THEN now ELSE refusal.first
           /\ refusal'.first <= now
BY DEF GateTypeOK, RefusalInv, Refused

LEMMA CooldownRefusesInv ==
    ASSUME GateInv, NEW p \in Procs, CooldownRefuses(p)
    PROVE  GateInv'
<1>0. GateTypeOK /\ RefusalInv /\ pc[p] = "check" /\ Cooling
  BY DEF GateInv, CooldownRefuses
<1>1. /\ refusal' \in [first: Nat, last: Nat]
      /\ refusal'.last = now
      /\ refusal'.first = IF refusal = None THEN now ELSE refusal.first
      /\ refusal'.first <= now
  BY <1>0, RefusedRun DEF CooldownRefuses
<1>2. \A q \in Procs : pc'[q] \in {"idle", "waiting"}
  BY <1>0, LeaveFrees DEF CooldownRefuses, GateTypeOK
<1>3. /\ record \in Int /\ record > now + offset /\ record - (now + offset) <= Cooldown
      /\ record # Garbage
      /\ now \in Nat /\ offset \in Int
      /\ Cooldown \in Nat \ {0}
  BY <1>0, GateAssumption DEF Cooling, GateTypeOK, Wall
<1>4. /\ record - offset <= refusal'.first + Cooldown
      /\ refusal'.last - refusal'.first < Cooldown
  <2>1. CASE refusal = None
    BY <1>1, <1>3, <2>1
  <2>2. CASE refusal # None
    <3>1. refusal.first \in Nat /\ record - offset <= refusal.first + Cooldown
      BY <1>0, <1>3, <2>2 DEF GateTypeOK, RefusalInv, Cooling
    <3>. QED
      BY <1>1, <1>3, <2>2, <3>1
  <2>. QED
    BY <2>1, <2>2
<1>5. RefusalInv'
  BY <1>1, <1>2, <1>3, <1>4 DEF RefusalInv, CooldownRefuses, env
<1>. QED
  BY <1>0, <1>1, <1>5, LeaveInv DEF CooldownRefuses, GateTypeOK

\* A bad record is met only at the start of a run of refusals.
LEMMA BadRecordStartsRun ==
    ASSUME GateTypeOK, RefusalInv, Unreadable \/ TooFar
    PROVE  refusal = None
<1>. SUFFICES ASSUME refusal # None PROVE FALSE
  OBVIOUS
<1>1. /\ record # Garbage
      /\ record # None => record - offset <= refusal.first + Cooldown
      /\ refusal.first <= now
      /\ refusal.first \in Nat
  BY DEF GateTypeOK, RefusalInv
<1>2. record \in Int /\ record - (now + offset) > Cooldown /\ record # None
  BY <1>1 DEF GateTypeOK, Unreadable, TooFar, Wall
<1>. QED
  BY <1>1, <1>2, GateAssumption DEF GateTypeOK

LEMMA CooldownRewritesInv ==
    ASSUME GateInv, NEW p \in Procs, CooldownRewrites(p)
    PROVE  GateInv'
<1>0. GateTypeOK /\ RefusalInv /\ BurstInv /\ pc[p] = "check" /\ refusal = None
  BY BadRecordStartsRun DEF GateInv, CooldownRewrites
<1>1. /\ refusal' \in [first: Nat, last: Nat]
      /\ refusal'.last = now /\ refusal'.first = now
  BY <1>0, RefusedRun DEF CooldownRewrites
<1>2. /\ pc' \in [Procs -> Places]
      /\ \A q \in Procs : pc'[q] = IF q = p THEN "rewriting" ELSE pc[q]
      /\ \A q \in Procs : pc'[q] \notin {"idle", "waiting"} <=> holder' = q
      /\ \A q \in Procs : q # p => pc[q] \in {"idle", "waiting"}
  BY <1>0, HolderMoves DEF CooldownRewrites, Places
<1>3. /\ until' \in [Procs -> Int]
      /\ until'[p] = now + offset + Cooldown
      /\ now \in Nat /\ offset \in Int /\ Cooldown \in Nat \ {0}
  BY <1>0, GateAssumption DEF CooldownRewrites, GateTypeOK, Wall
<1>4. GateTypeOK'
  BY <1>0, <1>1, <1>2, <1>3 DEF GateTypeOK, CooldownRewrites, Places, env
<1>5. BurstInv'
  BY <1>0, <1>2 DEF BurstInv, CooldownRewrites
<1>6. RefusalInv'
  <2>1. record' = None /\ record' # Garbage /\ now' = now /\ offset' = offset
    BY GateAssumption DEF CooldownRewrites, env
  <2>2. \A q \in Procs : /\ pc'[q] = "rewriting" => q = p
                         /\ pc'[q] \notin {"prompt", "denying"}
    BY <1>2
  <2>3. until'[p] - offset <= now + Cooldown /\ now - now < Cooldown
    BY <1>3
  <2>. QED
    BY <1>1, <1>3, <2>1, <2>2, <2>3 DEF RefusalInv
<1>. QED
  BY <1>4, <1>5, <1>6 DEF GateInv

LEMMA AnsweredInv ==
    ASSUME GateInv, NEW p \in Procs, Answered(p)
    PROVE  GateInv'
<1>1. GateTypeOK /\ refusal = None
  BY DEF GateInv, RefusalInv, Answered
<1>2. RefusalInv'
  BY <1>1 DEF RefusalInv, Answered
<1>. QED
  BY <1>1, <1>2, LeaveInv DEF Answered, GateTypeOK

LEMMA DeniedInv ==
    ASSUME GateInv, NEW p \in Procs, Denied(p)
    PROVE  GateInv'
<1>0. GateTypeOK /\ BurstInv /\ pc[p] = "prompt" /\ refusal = None
  BY DEF GateInv, RefusalInv, Denied
<1>1. /\ pc' \in [Procs -> Places]
      /\ \A q \in Procs : pc'[q] = IF q = p THEN "denying" ELSE pc[q]
      /\ \A q \in Procs : pc'[q] \notin {"idle", "waiting"} <=> holder' = q
  BY <1>0, HolderMoves DEF Denied, Places
<1>2. until' \in [Procs -> Int]
  BY <1>0, GateAssumption DEF Denied, GateTypeOK, Wall
<1>3. GateTypeOK'
  BY <1>0, <1>1, <1>2 DEF GateTypeOK, Denied, Places, env
<1>4. BurstInv'
  BY <1>0, <1>1 DEF BurstInv, Denied
<1>5. RefusalInv'
  BY <1>0 DEF RefusalInv, Denied
<1>. QED
  BY <1>3, <1>4, <1>5 DEF GateInv

LEMMA WriteRecordInv ==
    ASSUME GateInv, NEW p \in Procs, WriteRecord(p)
    PROVE  GateInv'
<1>0. GateTypeOK /\ RefusalInv
  BY DEF GateInv
<1>1. record' \in Int /\ record' = until[p] /\ record' # Garbage
  BY <1>0, GateAssumption DEF WriteRecord, GateTypeOK
<1>2. \A q \in Procs : pc'[q] \in {"idle", "waiting"}
  BY <1>0, LeaveFrees DEF WriteRecord, GateTypeOK
<1>3. RefusalInv'
  BY <1>0, <1>1, <1>2 DEF RefusalInv, WriteRecord, env
<1>. QED
  BY <1>0, <1>1, <1>3, LeaveInv DEF WriteRecord, GateTypeOK

LEMMA EnvironmentInv ==
    ASSUME GateInv, Tick \/ StepWall \/ Edit \/ UNCHANGED gateVars
    PROVE  GateInv'
<1>0. GateTypeOK /\ BurstInv /\ RefusalInv
  BY DEF GateInv
<1>1. CASE Tick
  <2>1. GateTypeOK' /\ BurstInv'
    BY <1>0, <1>1 DEF GateTypeOK, BurstInv, Tick, locals
  <2>2. RefusalInv'
    BY <1>0, <1>1 DEF GateTypeOK, RefusalInv, Tick, locals
  <2>. QED
    BY <2>1, <2>2 DEF GateInv
<1>2. CASE StepWall
  <2>1. offset' \in Int
    BY <1>0, <1>2, GateAssumption DEF StepWall, GateTypeOK
  <2>2. GateTypeOK' /\ BurstInv'
    BY <1>0, <1>2, <2>1 DEF GateTypeOK, BurstInv, StepWall, locals
  <2>3. RefusalInv'
    BY <1>2 DEF RefusalInv, StepWall
  <2>. QED
    BY <2>2, <2>3 DEF GateInv
<1>3. CASE Edit
  BY <1>0, <1>3 DEF GateInv, GateTypeOK, BurstInv, RefusalInv, Edit, env, locals
<1>4. CASE UNCHANGED gateVars
  BY <1>0, <1>4 DEF GateInv, GateTypeOK, BurstInv, RefusalInv, gateVars, env, locals
<1>. QED
  BY <1>1, <1>2, <1>3, <1>4

LEMMA GateStepInv == GateInv /\ [Next]_gateVars => GateInv'
<1>. SUFFICES ASSUME GateInv, [Next]_gateVars PROVE GateInv'
  OBVIOUS
<1>0. GateTypeOK
  BY DEF GateInv
<1>1. ASSUME NEW p \in Procs, Coalesced(p)
      PROVE  GateInv'
  BY <1>0, <1>1, LeaveInv, LeaveQuietly DEF Coalesced, GateTypeOK
<1>2. ASSUME NEW p \in Procs, Dies(p)
      PROVE  GateInv'
  BY <1>0, <1>2, LeaveInv, LeaveQuietly DEF Dies, GateTypeOK
<1>3. ASSUME NEW p \in Procs, Authorize(p)
      PROVE  GateInv'
  BY <1>1, <1>2, <1>3, StartInv, PollInv, CooldownOverInv, CooldownRefusesInv,
     CooldownRewritesInv, AnsweredInv, DeniedInv, WriteRecordInv DEF Authorize
<1>. QED
  BY <1>3, EnvironmentInv DEF Next

LEMMA GateInvHolds == Spec => []GateInv
BY GateInitially, GateStepInv, PTL DEF Spec

-----------------------------------------------------------------------------
(* Theorems *)

\* Whoever prompts saw no other prompt since it first tried the gate, so a burst
\* of callers shows one prompt, crashes of the holder included
\* (authorize_with_gate).
THEOREM OnePrompt == Spec => []OnePromptPerBurst
<1>1. GateInv => OnePromptPerBurst
  BY DEF GateInv, BurstInv, OnePromptPerBurst
<1>. QED
  BY <1>1, GateInvHolds, PTL

\* A run of refusals lasts less than one cooldown however the record was damaged
\* or set, and although a bad record is refused and rewritten: "Bad metadata can
\* therefore suppress prompts for at most one window".
THEOREM RefusalsAreBounded == Spec => []RefusalsEnd
<1>1. GateInv => RefusalsEnd
  BY DEF GateInv, RefusalInv, RefusalsEnd
<1>. QED
  BY <1>1, GateInvHolds, PTL

-----------------------------------------------------------------------------
(* The cooldown after a denial *)

\* The hypotheses of the cooldown: a record being rewritten is written whole,
\* and the wall clock is only ever set back.  Without the first it fails, as the
\* run gate_torn shows; a clock set forward is trusted by the code.
RewritesAreWhole == ~TornWrites
ClockIsNotSetForward == \A d \in WallSteps : d <= 0

\* As long as the window of the last denial is open there is something to tell:
\* a record that ends after it, one that cannot be read, or a holder about to
\* write one; whoever prompts does so after the window.
CooldownInv ==
    denied # None =>
        /\ denied <= now
        /\ \A p \in Procs :
            /\ pc[p] \in {"denying", "rewriting"} =>
                    until[p] - offset >= denied + Cooldown
            /\ pc[p] = "prompt" => record = None /\ now >= denied + Cooldown
        /\ \/ now >= denied + Cooldown
           \/ record = Garbage
           \/ record \notin {None, Garbage} /\ record - offset >= denied + Cooldown
           \/ \E p \in Procs : pc[p] \in {"denying", "rewriting"}

\* Leaving keeps the cooldown when the process was not about to write.
LEMMA LeaveKeepsCooldown ==
    ASSUME GateTypeOK, CooldownInv, NEW p \in Procs, Leave(p),
           pc[p] \notin {"denying", "rewriting"},
           UNCHANGED <<env, record, denied>>
    PROVE  CooldownInv'
<1>1. \A q \in Procs : pc'[q] = IF q = p THEN "idle" ELSE pc[q]
  BY LeaveFrees
<1>2. \A q \in Procs : q # p => until'[q] = until[q]
  BY LeaveFrees
<1>3. ASSUME NEW q \in Procs
      PROVE  /\ pc'[q] \in {"denying", "rewriting"} <=> pc[q] \in {"denying", "rewriting"}
             /\ pc'[q] = "prompt" => pc[q] = "prompt"
             /\ pc'[q] \in {"denying", "rewriting"} => until'[q] = until[q]
  BY <1>1, <1>2
<1>. QED
  BY <1>3 DEF CooldownInv, env

LEMMA CooldownStart ==
    ASSUME GateTypeOK, CooldownInv, NEW p \in Procs, Start(p) \/ Poll(p)
    PROVE  CooldownInv'
<1>1. CASE pc[p] = "waiting" /\ Leave(p) /\ UNCHANGED <<env, record, denied>>
  BY <1>1, LeaveKeepsCooldown
<1>2. ASSUME NEW label \in {"check", "waiting"}, Goto(p, label),
             pc[p] \in {"idle", "waiting"},
             UNCHANGED <<env, record, denied, until>>
      PROVE  CooldownInv'
  <2>1. \A q \in Procs : pc'[q] = IF q = p THEN label ELSE pc[q]
    BY <1>2 DEF GateTypeOK, Goto
  <2>2. ASSUME NEW q \in Procs
        PROVE  /\ pc'[q] \in {"denying", "rewriting"} <=> pc[q] \in {"denying", "rewriting"}
               /\ pc'[q] = "prompt" => pc[q] = "prompt"
    BY <1>2, <2>1
  <2>. QED
    BY <1>2, <2>2 DEF CooldownInv, env
<1>3. CASE Start(p)
  BY <1>2, <1>3 DEF Start
<1>4. CASE Poll(p)
  BY <1>1, <1>2, <1>4 DEF Poll, locals
<1>. QED
  BY <1>3, <1>4

\* The gate opens for a prompt only when the window of the last denial is over.
LEMMA OverMeansOver ==
    ASSUME GateTypeOK, CooldownInv, NEW p \in Procs, CooldownOver(p), denied # None
    PROVE  now >= denied + Cooldown
<1>1. pc[p] = "check" /\ ~Unreadable /\ ~TooFar /\ ~Cooling
  BY DEF CooldownOver
<1>2. \A q \in Procs : pc[q] \notin {"denying", "rewriting"}
  BY <1>1 DEF GateTypeOK
<1>3. record # Garbage
  BY <1>1 DEF Unreadable
<1>4. ASSUME record \notin {None, Garbage}, record - offset >= denied + Cooldown
      PROVE  now >= denied + Cooldown
  <2>1. record \in Int /\ now \in Nat /\ offset \in Int /\ denied \in Nat
    BY <1>4 DEF GateTypeOK
  <2>2. ~(record > now + offset /\ record - (now + offset) <= Cooldown)
    BY <1>1, <1>4 DEF Cooling, Wall
  <2>3. ~(record - (now + offset) > Cooldown)
    BY <1>1, <1>4 DEF TooFar, Wall
  <2>. QED
    BY <1>4, <2>1, <2>2, <2>3, GateAssumption
<1>. QED
  BY <1>2, <1>3, <1>4 DEF CooldownInv

LEMMA CooldownOverKeeps ==
    ASSUME GateTypeOK, CooldownInv, NEW p \in Procs, CooldownOver(p)
    PROVE  CooldownInv'
<1>. SUFFICES ASSUME denied # None PROVE CooldownInv'
  BY DEF CooldownInv, CooldownOver
<1>1. now >= denied + Cooldown
  BY OverMeansOver
<1>. DEFINE label == IF waited[p] THEN "coalesced" ELSE "prompt"
<1>2. label \in {"coalesced", "prompt"} /\ Goto(p, label) /\ pc[p] = "check"
  BY DEF CooldownOver
<1>. HIDE DEF label
<1>3. \A q \in Procs : pc'[q] = IF q = p THEN label ELSE pc[q]
  BY <1>2 DEF GateTypeOK, Goto
<1>4. \A q \in Procs : pc'[q] \notin {"denying", "rewriting"}
  BY <1>2, <1>3 DEF GateTypeOK
<1>5. record' = None /\ UNCHANGED <<now, denied>>
  BY DEF CooldownOver, env
<1>. QED
  BY <1>1, <1>4, <1>5 DEF CooldownInv

LEMMA CooldownRewritesKeeps ==
    ASSUME GateTypeOK, CooldownInv, NEW p \in Procs, CooldownRewrites(p)
    PROVE  CooldownInv'
<1>. SUFFICES ASSUME denied # None PROVE CooldownInv'
  BY DEF CooldownInv, CooldownRewrites
<1>1. /\ \A q \in Procs : pc'[q] = IF q = p THEN "rewriting" ELSE pc[q]
      /\ \A q \in Procs : q # p => pc[q] \in {"idle", "waiting"}
  BY HolderMoves DEF CooldownRewrites, Places
<1>2. /\ until'[p] = now + offset + Cooldown
      /\ now \in Nat /\ offset \in Int /\ denied \in Nat /\ Cooldown \in Nat
      /\ denied <= now
      /\ UNCHANGED <<now, offset, denied>>
  BY GateAssumption DEF GateTypeOK, CooldownInv, CooldownRewrites, Wall, env
<1>3. until'[p] - offset' >= denied' + Cooldown
  BY <1>2
<1>4. \A q \in Procs : /\ pc'[q] # "prompt"
                       /\ pc'[q] \in {"denying", "rewriting"} => q = p
  BY <1>1
<1>5. pc'[p] = "rewriting"
  BY <1>1
<1>6. denied' <= now'
  BY <1>2
<1>. QED
  BY <1>3, <1>4, <1>5, <1>6 DEF CooldownInv

LEMMA AnsweredKeeps ==
    ASSUME GateTypeOK, CooldownInv, NEW p \in Procs, Answered(p)
    PROVE  CooldownInv'
<1>1. CASE denied = None
  BY <1>1 DEF CooldownInv, Answered
<1>2. CASE denied # None
  <2>1. record = None /\ record' = record
    BY <1>2 DEF CooldownInv, Answered
  <2>. QED
    BY <2>1, LeaveKeepsCooldown DEF Answered
<1>. QED
  BY <1>1, <1>2

LEMMA DeniedKeeps ==
    ASSUME GateTypeOK, NEW p \in Procs, Denied(p)
    PROVE  CooldownInv'
<1>1. /\ \A q \in Procs : pc'[q] = IF q = p THEN "denying" ELSE pc[q]
      /\ \A q \in Procs : q # p => pc[q] \in {"idle", "waiting"}
  BY HolderMoves DEF Denied, Places
<1>2. /\ until'[p] = now + offset + Cooldown
      /\ now \in Nat /\ offset \in Int /\ Cooldown \in Nat
      /\ denied' = now /\ UNCHANGED <<now, offset>>
  BY GateAssumption DEF GateTypeOK, Denied, Wall, env
<1>3. until'[p] - offset' >= denied' + Cooldown /\ denied' <= now'
  BY <1>2
<1>4. \A q \in Procs : /\ pc'[q] # "prompt"
                       /\ pc'[q] \in {"denying", "rewriting"} => q = p
  BY <1>1
<1>5. pc'[p] = "denying"
  BY <1>1
<1>. QED
  BY <1>3, <1>4, <1>5 DEF CooldownInv

LEMMA WriteRecordKeeps ==
    ASSUME GateTypeOK, CooldownInv, NEW p \in Procs, WriteRecord(p)
    PROVE  CooldownInv'
<1>. SUFFICES ASSUME denied # None PROVE CooldownInv'
  BY DEF CooldownInv, WriteRecord
<1>1. \A q \in Procs : pc'[q] \in {"idle", "waiting"}
  BY LeaveFrees DEF WriteRecord, GateTypeOK
<1>2. /\ record' = until[p] /\ record' \in Int
      /\ UNCHANGED <<now, offset, denied>>
      /\ record' - offset' >= denied' + Cooldown
      /\ denied <= now
  BY DEF WriteRecord, GateTypeOK, CooldownInv, env
<1>3. record' \notin {None, Garbage}
  BY <1>2, GateAssumption
<1>. QED
  BY <1>1, <1>2, <1>3 DEF CooldownInv

LEMMA DiesKeeps ==
    ASSUME RewritesAreWhole, GateTypeOK, CooldownInv, NEW p \in Procs, Dies(p)
    PROVE  CooldownInv'
<1>1. CASE pc[p] = "denying"
  BY <1>1 DEF Dies, CooldownInv
<1>2. CASE pc[p] # "denying"
  BY <1>2, LeaveKeepsCooldown DEF Dies, RewritesAreWhole
<1>. QED
  BY <1>1, <1>2

LEMMA EnvironmentKeeps ==
    ASSUME ClockIsNotSetForward, GateTypeOK, CooldownInv,
           Tick \/ StepWall \/ Edit \/ UNCHANGED gateVars
    PROVE  CooldownInv'
<1>0. now \in Nat /\ offset \in Int /\ Cooldown \in Nat
  BY GateAssumption DEF GateTypeOK
<1>1. CASE Tick
  BY <1>0, <1>1 DEF Tick, CooldownInv, GateTypeOK, locals
<1>2. CASE StepWall
  <2>1. offset' \in Int /\ offset' <= offset
    BY <1>0, <1>2, GateAssumption DEF StepWall, ClockIsNotSetForward
  <2>2. \A p \in Procs : until[p] \in Int
    BY DEF GateTypeOK
  <2>3. record \notin {None, Garbage} => record \in Int
    BY DEF GateTypeOK
  <2>4. denied # None => denied \in Nat
    BY DEF GateTypeOK
  <2>5. UNCHANGED <<now, record, pc, until, denied>>
    BY <1>2 DEF StepWall, locals
  <2>. QED
    BY <1>0, <2>1, <2>2, <2>3, <2>4, <2>5 DEF CooldownInv
<1>3. CASE Edit
  <2>1. UNCHANGED <<now, offset, pc, until, denied>> /\ record' = Garbage
    BY <1>3 DEF Edit, locals, env
  <2>2. denied # None => \A p \in Procs : pc[p] # "prompt"
    BY <1>3 DEF Edit, CooldownInv
  <2>. QED
    BY <2>1, <2>2 DEF CooldownInv
<1>4. CASE UNCHANGED gateVars
  BY <1>4 DEF gateVars, env, locals, CooldownInv
<1>. QED
  BY <1>1, <1>2, <1>3, <1>4

LEMMA CooldownStepInv ==
    ASSUME RewritesAreWhole, ClockIsNotSetForward
    PROVE  GateInv /\ CooldownInv /\ [Next]_gateVars => CooldownInv'
<1>. SUFFICES ASSUME GateInv, CooldownInv, [Next]_gateVars PROVE CooldownInv'
  OBVIOUS
<1>0. GateTypeOK
  BY DEF GateInv
<1>1. ASSUME NEW p \in Procs, CooldownRefuses(p) \/ Coalesced(p)
      PROVE  CooldownInv'
  BY <1>0, <1>1, LeaveKeepsCooldown DEF CooldownRefuses, Coalesced
<1>2. ASSUME NEW p \in Procs, Authorize(p)
      PROVE  CooldownInv'
  BY <1>0, <1>1, <1>2, CooldownStart, CooldownOverKeeps, CooldownRewritesKeeps,
     AnsweredKeeps, DeniedKeeps, WriteRecordKeeps, DiesKeeps DEF Authorize
<1>. QED
  BY <1>0, <1>2, EnvironmentKeeps DEF Next

\* What CooldownIsKept says of a step.
PromptStep ==
    \A p \in Procs : (pc[p] # "prompt" /\ pc'[p] = "prompt" /\ denied # None)
        => now - denied >= Cooldown

\* Only CooldownOver opens a prompt.
LEMMA PromptStepInv == GateInv /\ CooldownInv /\ [Next]_gateVars => PromptStep
<1>. SUFFICES ASSUME GateInv, CooldownInv, [Next]_gateVars,
                     NEW p \in Procs, pc[p] # "prompt", pc'[p] = "prompt",
                     denied # None
              PROVE  now - denied >= Cooldown
  BY DEF PromptStep
<1>0. GateTypeOK
  BY DEF GateInv
<1>1. ASSUME NEW q \in Procs, NEW label, label # "prompt", Goto(q, label)
      PROVE  FALSE
  BY <1>0, <1>1 DEF Goto, GateTypeOK
<1>2. ASSUME NEW q \in Procs, Leave(q)
      PROVE  FALSE
  BY <1>1, <1>2 DEF Leave
<1>3. ASSUME NEW q \in Procs, Authorize(q)
      PROVE  CooldownOver(q)
  BY <1>1, <1>2, <1>3
     DEF Authorize, Start, Poll, CooldownRefuses, CooldownRewrites, Coalesced,
         Answered, Denied, WriteRecord, Dies
<1>4. ASSUME UNCHANGED pc
      PROVE  FALSE
  BY <1>4
<1>5. \E q \in Procs : CooldownOver(q)
  BY <1>3, <1>4 DEF Next, Tick, StepWall, Edit, gateVars
<1>6. now >= denied + Cooldown
  BY <1>0, <1>5, OverMeansOver
<1>. QED
  BY <1>0, <1>6, GateAssumption DEF GateTypeOK

\* A prompt opens no sooner than the cooldown after the last recorded denial,
\* however the record is damaged and however far the wall clock is set back, as
\* long as a record being rewritten is written whole
\* (keychain_authorization_cooldown, record_keychain_authorization_denial).
THEOREM CooldownKept ==
    ASSUME RewritesAreWhole, ClockIsNotSetForward
    PROVE  Spec => CooldownIsKept
<1>1. Init => CooldownInv
  BY DEF Init, CooldownInv
<1>2. GateInv /\ CooldownInv /\ [Next]_gateVars => CooldownInv'
  BY CooldownStepInv
<1>3. GateInv /\ CooldownInv /\ [Next]_gateVars => [PromptStep]_gateVars
  BY PromptStepInv
<1>4. Spec => [][PromptStep]_gateVars
  BY <1>1, <1>2, <1>3, GateInvHolds, PTL DEF Spec
<1>. QED
  BY <1>4 DEF CooldownIsKept, PromptStep
=============================================================================
