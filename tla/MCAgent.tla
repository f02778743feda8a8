------------------------------- MODULE MCAgent -------------------------------
(* A finite instance of Agent: one grant id that needs the master and one     *)
(* approval, with a second process's approval for the restart.                *)
EXTENDS Agent, TLC

CONSTANTS g1, g2, k1, n1

BoxA == [agent |-> 1, scope |-> g1, key |-> k1, ttl |-> 3, nonce |-> n1,
         expires |-> 4]
BoxD == [BoxA EXCEPT !.agent = 2]

MCBoxes == {BoxA, BoxD}

RequestsFor(boxes) ==
    {[scope |-> g1, ttl |-> 3,
      deks |-> <<[key |-> k1, wellformed |-> TRUE, nonce |-> n1,
                  expires |-> 4, box |-> b]>>] : b \in boxes}

MCGrantRequests == RequestsFor(MCBoxes)
OneRequest == RequestsFor({BoxA})

\* A mixed-tier delivery, a protected-only one, and one on an id never granted.
MCUses ==
    {[scope |-> g1, keys |-> {k1}, master |-> TRUE],
     [scope |-> g1, keys |-> {k1}, master |-> FALSE],
     [scope |-> g2, keys |-> {}, master |-> TRUE]}

OneUse == {[scope |-> g1, keys |-> {k1}, master |-> TRUE]}

NoSteps == {}
Backward == {-1}

WorkerSymmetry == Permutations(Workers)
=============================================================================
