----------------------------- MODULE MCPgRefresh -----------------------------
(* Small instances of PgRefresh. *)
EXTENDS PgRefresh, TLC

Symmetry == Permutations(Tokens) \cup Permutations(Families) \cup Permutations(Conns)
=============================================================================
