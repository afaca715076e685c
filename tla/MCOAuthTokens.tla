----------------------------- MODULE MCOAuthTokens -----------------------------
(* Model-checking instances of OAuthTokens.                                 *)
EXTENDS OAuthTokens, TLC

\* Requests are interchangeable.
Symmetry == Permutations(Requests)
=============================================================================
