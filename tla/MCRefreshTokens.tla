-------------------------- MODULE MCRefreshTokens ---------------------------
(* Model-checking instances of RefreshTokens. *)
EXTENDS RefreshTokens, TLC

\* Tokens, families and request slots are interchangeable.
Symmetry == Permutations(Tokens) \cup Permutations(Families) \cup Permutations(Requests)
=============================================================================
