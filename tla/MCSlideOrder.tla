---------------------------- MODULE MCSlideOrder ----------------------------
(* SlideOrder for TLC: the requests are interchangeable. *)
EXTENDS SlideOrder

Symmetry == Permutations(Requests)
=============================================================================
