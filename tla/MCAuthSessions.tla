---------------------------- MODULE MCAuthSessions ----------------------------
(* Model-checking instances of AuthSessions.                                *)
EXTENDS AuthSessions, TLC

\* Requests are interchangeable.
Symmetry == Permutations(Requests)
=============================================================================
