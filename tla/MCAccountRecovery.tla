------------------------- MODULE MCAccountRecovery -------------------------
(* Small instances of AccountRecovery for TLC. *)
EXTENDS AccountRecovery, TLC

Symmetry == Permutations(Tokens) \cup Permutations(Requests) \cup Permutations(Passwords)
=============================================================================
