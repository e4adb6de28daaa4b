-------------------------- MODULE MCRefreshStores --------------------------
(* Small instances of RefreshStores. *)
EXTENDS RefreshStores
=============================================================================
