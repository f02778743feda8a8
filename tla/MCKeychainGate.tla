--------------------------- MODULE MCKeychainGate ----------------------------
(* Finite instances of KeychainGate: the clock is set back by a whole window. *)
EXTENDS KeychainGate

Backward == {-2}
=============================================================================
