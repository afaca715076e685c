------------------------- MODULE MCNarrationObjects -------------------------
(* NarrationObjects for TLC: lectures, playbacks and purges are each alike. *)
EXTENDS NarrationObjects, TLC

Symmetry == Permutations(Decks) \cup Permutations(Players) \cup Permutations(Purgers)
=============================================================================
