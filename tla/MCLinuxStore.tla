---------------------------- MODULE MCLinuxStore -----------------------------
(* Finite instances of LinuxStore. *)
EXTENDS LinuxStore, TLC

ProcSymmetry == Permutations(Procs)
=============================================================================
