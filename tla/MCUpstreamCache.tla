--------------------------- MODULE MCUpstreamCache ---------------------------
(* Small instances of UpstreamCache. *)
EXTENDS UpstreamCache, TLC

Symmetry == Permutations(Keys) \cup Permutations(Tokens) \cup Permutations(Calls)
=============================================================================
