-------------------------------- MODULE Agent --------------------------------
(***************************************************************************)
(* The grant state and the master cache composed: open_with_grant checks   *)
(* the grant, gets the standard master if the request has standard-tier    *)
(* secrets, clones the grant, opens the envelopes, drops both handles and  *)
(* only then records activity and does its external I/O.  The two          *)
(* components share the clock, the worker threads and the listener, and    *)
(* nothing else: neither lock is taken while the other is held.            *)
(***************************************************************************)
EXTENDS AgentGrants

CONSTANT Keys   \* master keys the machine store may hold

ASSUME MasterKeysAssumption == None \notin Keys /\ None \notin Workers

VARIABLES source, stored, cached, loading, mpc, handle

Master == INSTANCE MasterCache

masterVars == <<source, stored, cached, loading, mpc, handle>>
agentVars == <<vars, masterVars>>

AgentInit == Init /\ Master!MasterInit

\* master.get(), called by open_with_grant between its two grant checks.
GetMaster(w) ==
    /\ pc[w] = "master"
    /\ \/ Master!Get(w) \/ Master!LockLoading(w) \/ Master!Proceed(w)
    /\ UNCHANGED vars

\* get() has returned: the master, or an error that ends the request.
MasterGot(w) ==
    /\ mpc[w] \in {"have", "failed"}
    /\ MasterReturns(w)
    /\ IF mpc[w] = "have"
       THEN pc'[w] = "snapshot" /\ UNCHANGED masterVars
       ELSE pc'[w] = "idle" /\ Master!Return(w)

\* Fault: the master handle is not dropped with the grant.
RequestStepKeeping(w) == Step(w) /\ UNCHANGED masterVars

\* A step of the request itself; whenever it is done with the grant it drops
\* the master handle with it.
RequestStep(w) ==
    /\ Step(w)
    /\ IF mpc[w] = "have" /\ pc'[w] # "open"
       THEN Master!Return(w)
       ELSE UNCHANGED masterVars

AgentRestart ==
    /\ Restart
    /\ cached' = None
    /\ loading' = None
    /\ mpc' = [w \in Workers |-> "out"]
    /\ handle' = NoRequests
    /\ UNCHANGED <<source, stored>>

AgentNext ==
    \/ \E w \in Workers :
        \/ GetMaster(w)
        \/ MasterGot(w)
        \/ RequestStep(w)
        \/ /\ \/ \E r \in GrantRequests : GrantBegin(w, r)
              \/ \E r \in UseRequests : UseBegin(w, r)
              \/ \E s \in Scopes : Release(w, s)
              \/ FinishIO(w)
           /\ UNCHANGED masterVars
    \/ Maintain /\ UNCHANGED masterVars
    \/ Master!PurgeMaster /\ UNCHANGED vars
    \/ Master!ReplaceStored /\ UNCHANGED vars
    \/ AgentRestart
    \/ (Tick \/ StepWall) /\ UNCHANGED masterVars

AgentSpec == AgentInit /\ [][AgentNext]_agentVars

\* The listener runs and the workers' threads run.  Nothing is assumed of the
\* machine store, which may hang, nor of external I/O.
AgentFairSpec ==
    /\ AgentSpec
    /\ WF_agentVars(Maintain /\ UNCHANGED masterVars)
    /\ WF_agentVars(Master!PurgeMaster /\ UNCHANGED vars)
    /\ \A w \in Workers : WF_agentVars(RequestStep(w))

-----------------------------------------------------------------------------
(* Properties *)

\* "Key handles live only for the crypto": from the end of the crypto on, while
\* the child runs, the fetch is made or the file is written, and in every other
\* request, the worker holds neither DEKs of a grant nor the master
\* (open_with_grant).
HandlesOnlyForCrypto ==
    \A w \in Workers :
        /\ pc[w] \notin {"master", "snapshot", "open"} =>
                handle[w] = None /\ mpc[w] = "out"
        /\ (pc[w] \in {"snapshot", "open"} /\ handle[w] = None) =>
                ~req[w].master
        /\ pc[w] # "open" => snap[w] = None

\* "invalid requests neither touch the machine store nor extend the idle
\* window": a worker is in a store access, or waits for one, only for a request
\* on a grant id this process was given an approval for (open_with_grant).
StoreTouchedOnlyUnderApproval ==
    \A w \in Workers : mpc[w] # "out" =>
        /\ req[w].master
        /\ \E b \in Boxes : /\ b.scope = req[w].scope
                            /\ b.agent = keypair
                            /\ consumed[b].times > 0

\* Both: keys are fetched for approved requests only, and held for their crypto
\* only.
KeysOnlyForApprovedCrypto == HandlesOnlyForCrypto /\ StoreTouchedOnlyUnderApproval

\* "maintenance and requests that do not need the master never wait for a slow
\* store": even if a store access never returns, lapsed DEKs leave memory and
\* an idle master is dropped.
MaintenanceNeverWaitsForStore ==
    /\ LapsedKeysLeaveMemory
    /\ Master!IdleMasterIsDropped
=============================================================================
