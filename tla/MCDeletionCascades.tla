--------------------------- MODULE MCDeletionCascades ---------------------------
(* A project with a lecture of its owner, which has a slide, and a lecture      *)
(* that was handed to somebody else.                                        *)
EXTENDS DeletionCascades, TLC

CONSTANTS ann, bob, course, anns, bobs, s1

MCOwner == course :> ann @@ anns :> ann @@ bobs :> bob
MCProject == anns :> course @@ bobs :> course
MCLecture == s1 :> anns

\* Requests are interchangeable.
Symmetry == Permutations(Requests)
=============================================================================
