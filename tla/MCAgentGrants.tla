---------------------------- MODULE MCAgentGrants ----------------------------
(* Finite instances of AgentGrants: two grant ids, two nonces whose approvals *)
(* expire at different times, and boxes sealed to the first two processes.    *)
EXTENDS AgentGrants, TLC

CONSTANTS g1, g2, k1, k2, n1, n2, w1, w2

MCScopes == {g1, g2}
MCDekKeys == {k1, k2}
MCNonces == {n1, n2}

SealedTo(agent, scope, key, ttl, nonce, expires) ==
    [agent |-> agent, scope |-> scope, key |-> key, ttl |-> ttl,
     nonce |-> nonce, expires |-> expires]

Present(box) ==
    [key |-> box.key, wellformed |-> TRUE, nonce |-> box.nonce,
     expires |-> box.expires, box |-> box]

BoxA == SealedTo(1, g1, k1, 3, n1, 4)
BoxB == SealedTo(1, g2, k2, 2, n1, 4)
BoxC == SealedTo(1, g1, k2, 3, n2, 3)
BoxD == SealedTo(2, g1, k1, 3, n1, 4)

MCBoxes == {BoxA, BoxB, BoxC, BoxD}

\* One approval, another id's approval with the same nonce, and two approvals
\* in one frame.
GoodRequests ==
    {[scope |-> g1, ttl |-> 3, deks |-> <<Present(BoxA)>>],
     [scope |-> g2, ttl |-> 2, deks |-> <<Present(BoxB)>>],
     [scope |-> g1, ttl |-> 3, deks |-> <<Present(BoxC), Present(BoxA)>>]}

\* A later process's box, a longer ttl than was approved, another grant id
\* than was approved, a repeated nonce, and a malformed approval.
OddRequests ==
    {[scope |-> g1, ttl |-> 3, deks |-> <<Present(BoxD)>>],
     [scope |-> g2, ttl |-> 3, deks |-> <<Present(BoxB)>>],
     [scope |-> g2, ttl |-> 3, deks |-> <<Present(BoxC)>>],
     [scope |-> g1, ttl |-> 3, deks |-> <<Present(BoxA), Present(BoxA)>>],
     [scope |-> g1, ttl |-> 3,
      deks |-> <<[Present(BoxC) EXCEPT !.wellformed = FALSE]>>]}

AllRequests == GoodRequests \union OddRequests

\* Two ids racing for one nonce.
RacingRequests ==
    {[scope |-> g1, ttl |-> 3, deks |-> <<Present(BoxA)>>],
     [scope |-> g2, ttl |-> 2, deks |-> <<Present(BoxB)>>]}

OneRequest == {[scope |-> g1, ttl |-> 3, deks |-> <<Present(BoxA)>>]}

RestartRequests == OneRequest
    \union {[scope |-> g1, ttl |-> 3, deks |-> <<Present(BoxD)>>]}

MCUses ==
    {[scope |-> g1, keys |-> {k1}, master |-> TRUE],
     [scope |-> g2, keys |-> {k2}, master |-> FALSE]}

OneUse == {[scope |-> g1, keys |-> {k1}, master |-> TRUE]}

NoSteps == {}
Backward == {-1}
Forward == {2}
BothWays == {-1, 1}

WorkerSymmetry == Permutations(Workers)
=============================================================================
