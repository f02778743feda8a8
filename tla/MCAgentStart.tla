---------------------------- MODULE MCAgentStart -----------------------------
(* Finite instances of AgentStart. *)
EXTENDS AgentStart, TLC

ProcSymmetry == Permutations(Procs)
=============================================================================
