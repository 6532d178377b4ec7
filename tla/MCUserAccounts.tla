-------------------------- MODULE MCUserAccounts --------------------------
(* Small instances of UserAccounts for TLC. *)
EXTENDS UserAccounts, TLC

AllOperations == Changes \cup Inserts

\* An unlock is the write of a lock with the other value.
AllButUnlock == AllOperations \ {"unlock"}

Symmetry == Permutations(Requests)
=============================================================================
