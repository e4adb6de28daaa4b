--------------------------- MODULE MCPatLifecycle ---------------------------
(* Small instances of PatLifecycle. *)
EXTENDS PatLifecycle, TLC

Symmetry == Permutations(Pats) \cup Permutations(Users) \cup Permutations(Requests)
=============================================================================
