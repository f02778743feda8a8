----------------------------- MODULE MCAutoStore -----------------------------
(* The finite instance of AutoStore. *)
EXTENDS AutoStore, TLC

\* Processes and imported keys are told apart by equality only.
KeySymmetry == Permutations(Procs) \union Permutations(ImportedKeys)
=============================================================================
