---------------------------- MODULE MCSignedStdio ----------------------------
(* Small instances of SignedStdio. *)
EXTENDS SignedStdio
=============================================================================
