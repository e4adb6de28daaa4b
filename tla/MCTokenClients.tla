---------------------------- MODULE MCTokenClients ----------------------------
(* A small instance of TokenClients. *)
EXTENDS TokenClients
=============================================================================
