----------------------------- MODULE AgentServer -----------------------------
(***************************************************************************)
(* The resident agent's connections: the listener loop of run_agent, the   *)
(* admission counter (AgentAdmission, AgentPermit), and one worker thread  *)
(* per admitted connection (run_agent_connection) with its polled, bounded *)
(* reads and writes.  What a frame does is module Agent's business: here a *)
(* handler takes as long as it likes, for a child may run for ever.        *)
(***************************************************************************)
EXTENDS Integers, Sequences, FiniteSets

CONSTANTS
    Conns,     \* client connections
    Foreign,   \* those whose peer uid is not the agent's
    Limit,     \* MAX_AGENT_CONNECTIONS
    MaxPolls,  \* MAX_AGENT_READ_TIMEOUTS: polls before a read or write times out
    NoConn     \* the listener is not dispatching a connection

ASSUME ServerAssumption == /\ Limit \in Nat
                           /\ MaxPolls \in Nat
                           /\ NoConn \notin Conns

VARIABLES
    backlog,  \* connections the kernel has queued for accept()
    conn,     \* where each connection is
    inbox,    \* what the worker will find on its socket
    polls,    \* fruitless polls of the read or write under way
    active,   \* AgentAdmission.active
    lconn,    \* the connection the listener dispatches
    lpc,      \* where the listener is in its loop
    seen      \* the listener's copy of `active` in try_admit

worker == <<conn, inbox, polls>>
listener == <<lconn, lpc, seen>>
svars == <<backlog, worker, active, listener>>

Goto(c, label) == conn' = [conn EXCEPT ![c] = label]

-----------------------------------------------------------------------------
(* Clients *)

\* A new connection, of a client that was refused or served before perhaps.
Connect(c) ==
    /\ conn[c] = "closed"
    /\ backlog' = Append(backlog, c)
    /\ Goto(c, "backlog")
    /\ inbox' = [inbox EXCEPT ![c] = "nothing"]
    /\ UNCHANGED <<polls, active, listener>>

\* A client sends a whole frame, one the agent cannot use (a bad length or a
\* frame cut short), or closes its end.
Send(c, what) ==
    /\ conn[c] # "closed"
    /\ inbox[c] = "nothing"
    /\ inbox' = [inbox EXCEPT ![c] = what]
    /\ UNCHANGED <<backlog, conn, polls, active, listener>>

-----------------------------------------------------------------------------
(* The listener thread *)

\* agent.purge() is done (it takes only short locks); accept() finds a client.
Accept ==
    /\ lpc = "accept"
    /\ backlog # <<>>
    /\ lconn' = Head(backlog)
    /\ backlog' = Tail(backlog)
    /\ Goto(Head(backlog), "accepted")
    /\ lpc' = "admit"
    /\ seen' = active
    /\ UNCHANGED <<inbox, polls, active>>

\* accept() has nothing (WouldBlock), or fails for lack of descriptors: the
\* listener sleeps a poll interval and goes on.  No state changes.

\* Fault: the counter is stored, not compared and exchanged.
TryAdmitStore ==
    /\ lpc = "admit"
    /\ seen < Limit
    /\ active' = seen + 1
    /\ Goto(lconn, "admitted")
    /\ lpc' = "spawn"
    /\ UNCHANGED <<backlog, inbox, polls, lconn, seen>>

\* try_admit: compare_exchange_weak may also fail spuriously.
TryAdmit ==
    /\ lpc = "admit"
    /\ seen < Limit
    /\ \/ /\ active = seen
          /\ active' = seen + 1
          /\ Goto(lconn, "admitted")
          /\ lpc' = "spawn"
          /\ UNCHANGED seen
       \/ /\ seen' = active
          /\ UNCHANGED <<active, conn, lpc>>
    /\ UNCHANGED <<backlog, inbox, polls, lconn>>

ListenerLoops ==
    /\ lconn' = NoConn
    /\ lpc' = "accept"
    /\ seen' = 0

\* Fault: the listener waits for a permit.
RefuseBusyWaits ==
    /\ lpc = "admit"
    /\ seen >= Limit
    /\ seen' = active
    /\ UNCHANGED <<backlog, worker, active, lconn, lpc>>

\* reject_agent_connection: one nonblocking write, then the handle is dropped.
RefuseBusy ==
    /\ lpc = "admit"
    /\ seen >= Limit
    /\ Goto(lconn, "closed")
    /\ ListenerLoops
    /\ UNCHANGED <<backlog, inbox, polls, active>>

SpawnWorker ==
    /\ lpc = "spawn"
    /\ \/ /\ Goto(lconn, "starting")
          /\ UNCHANGED active
       \/ /\ Goto(lconn, "closed")   \* the unstarted worker drops its permit
          /\ active' = active - 1
    /\ ListenerLoops
    /\ UNCHANGED <<backlog, inbox, polls>>

-----------------------------------------------------------------------------
(* A connection worker *)

\* authorize_peer: a foreign peer gets an error frame and is closed.
Authorize(c) ==
    /\ conn[c] = "starting"
    /\ Goto(c, IF c \in Foreign THEN "goodbye" ELSE "reading")
    /\ UNCHANGED <<backlog, inbox, polls, active, listener>>

\* Fault: a silent client is waited for without a deadline.
ReadFrameForever(c) ==
    /\ conn[c] = "reading"
    /\ \/ /\ inbox[c] = "frame"
          /\ Goto(c, "handling")
          /\ inbox' = [inbox EXCEPT ![c] = "nothing"]
       \/ /\ inbox[c] = "eof"
          /\ Goto(c, "ending")
          /\ UNCHANGED inbox
       \/ /\ inbox[c] = "garbage"
          /\ Goto(c, "goodbye")
          /\ UNCHANGED inbox
    /\ UNCHANGED <<backlog, polls, active, listener>>

\* read_agent_frame, one poll of it.  End of file ends the connection quietly;
\* an unusable frame and a timeout are answered with an error frame.
ReadFrame(c) ==
    /\ conn[c] = "reading"
    /\ \/ /\ inbox[c] = "frame"
          /\ Goto(c, "handling")
          /\ inbox' = [inbox EXCEPT ![c] = "nothing"]
          /\ polls' = [polls EXCEPT ![c] = 0]
       \/ /\ inbox[c] = "eof"
          /\ Goto(c, "ending")
          /\ polls' = [polls EXCEPT ![c] = 0]
          /\ UNCHANGED inbox
       \/ /\ \/ inbox[c] = "garbage"
             \/ inbox[c] = "nothing" /\ polls[c] >= MaxPolls
          /\ Goto(c, "goodbye")
          /\ polls' = [polls EXCEPT ![c] = 0]
          /\ UNCHANGED inbox
       \/ /\ inbox[c] = "nothing"
          /\ polls[c] < MaxPolls
          /\ polls' = [polls EXCEPT ![c] = @ + 1]
          /\ UNCHANGED <<conn, inbox>>
    /\ UNCHANGED <<backlog, active, listener>>

Handle(c) ==
    /\ conn[c] = "handling"
    /\ Goto(c, "writing")
    /\ UNCHANGED <<backlog, inbox, polls, active, listener>>

\* write_agent_frame, one poll of it: the client drains its socket, or does not
\* until the write times out, or has gone.
WriteFrame(c) ==
    /\ conn[c] \in {"writing", "goodbye"}
    /\ \/ /\ Goto(c, IF conn[c] = "writing" THEN "reading" ELSE "ending")
          /\ polls' = [polls EXCEPT ![c] = 0]
       \/ /\ \/ inbox[c] = "eof"
             \/ polls[c] >= MaxPolls
          /\ Goto(c, "ending")
          /\ polls' = [polls EXCEPT ![c] = 0]
       \/ /\ polls[c] < MaxPolls
          /\ polls' = [polls EXCEPT ![c] = @ + 1]
          /\ UNCHANGED conn
    /\ UNCHANGED <<backlog, inbox, active, listener>>

\* The stream is dropped, then the worker's permit.
DropPermit(c) ==
    /\ conn[c] = "ending"
    /\ Goto(c, "closed")
    /\ active' = active - 1
    /\ UNCHANGED <<backlog, inbox, polls, listener>>

-----------------------------------------------------------------------------
(* The specification *)

ServerInit ==
    /\ backlog = <<>>
    /\ conn = [c \in Conns |-> "closed"]
    /\ inbox = [c \in Conns |-> "nothing"]
    /\ polls = [c \in Conns |-> 0]
    /\ active = 0
    /\ lconn = NoConn
    /\ lpc = "accept"
    /\ seen = 0

ListenerStep == Accept \/ TryAdmit \/ RefuseBusy \/ SpawnWorker

WorkerStep(c) ==
    Authorize(c) \/ ReadFrame(c) \/ WriteFrame(c) \/ DropPermit(c)

Inputs == {"frame", "garbage", "eof"}

ServerNext ==
    \/ ListenerStep
    \/ \E c \in Conns :
        \/ Connect(c)
        \/ \E what \in Inputs : Send(c, what)
        \/ WorkerStep(c)
        \/ Handle(c)

ServerSpec == ServerInit /\ [][ServerNext]_svars

\* The listener's and the workers' threads run.  Nothing is assumed of clients,
\* nor that a handler returns.
ServerFairSpec ==
    /\ ServerSpec
    /\ WF_svars(ListenerStep)
    /\ \A c \in Conns : WF_svars(WorkerStep(c))

-----------------------------------------------------------------------------
(* Properties *)

\* The connections whose worker, started or not, owns a permit.
Admitted ==
    {c \in Conns : conn[c] \in {"admitted", "starting", "reading", "handling",
                                "writing", "goodbye", "ending"}}

\* The type invariant; the backlog and the listener's hands hold exactly the
\* connections marked so, each once.
ServerTypeOK ==
    /\ backlog \in Seq(Conns)
    /\ conn \in [Conns -> {"backlog", "accepted", "admitted", "starting",
                           "reading", "handling", "writing", "goodbye",
                           "ending", "closed"}]
    /\ inbox \in [Conns -> Inputs \union {"nothing"}]
    /\ polls \in [Conns -> 0..MaxPolls]
    /\ active \in Nat
    /\ seen \in Nat
    /\ lpc \in {"accept", "admit", "spawn"}
    /\ lconn \in Conns \union {NoConn}
    /\ \A c \in Conns :
        /\ conn[c] = "accepted" <=> (lpc = "admit" /\ lconn = c)
        /\ conn[c] = "admitted" <=> (lpc = "spawn" /\ lconn = c)

\* The counter is exact at every moment, spawn failures, refusals, timeouts and
\* the concurrent compare-exchange and decrements included, so no permit is
\* leaked or returned twice, and no more than Limit connections are served; and
\* the types.
PermitsAreExact ==
    /\ ServerTypeOK
    /\ active = Cardinality(Admitted)
    /\ active <= Limit

\* "a burst cannot exhaust threads", "a client that does not read must never
\* stall the listener": every client that connects is admitted or refused,
\* whatever the other clients and the handlers do.
EveryClientIsDispatched ==
    \A c \in Conns :
        conn[c] = "backlog" ~> conn[c] \notin {"backlog", "accepted", "admitted"}

\* A client that goes silent, cannot be understood or does not read its answers
\* gives its permit back: outside a handler a worker ends or serves a frame.
StalledClientsAreDropped ==
    \A c \in Conns : (c \in Admitted /\ conn[c] # "handling")
                        ~> (c \notin Admitted \/ conn[c] = "handling")
=============================================================================
