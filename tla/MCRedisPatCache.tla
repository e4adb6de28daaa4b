--------------------------- MODULE MCRedisPatCache ---------------------------
(* Small instances of RedisPatCache. *)
EXTENDS RedisPatCache, TLC

Symmetry == Permutations(Pats) \cup Permutations(Procs) \cup Permutations(Requests)
=============================================================================
