--------------------------- MODULE MCRefreshTokens ---------------------------
(* Small instances of RefreshTokens for TLC. *)
EXTENDS RefreshTokens, TLC

\* Tokens and requests are interchangeable (safety runs only).
Symmetry == Permutations(Tokens) \cup Permutations(Requests)
=============================================================================
