-------------------------- MODULE MCReleaseVerifier --------------------------
(***************************************************************************)
(* A small instance of ReleaseVerifier for TLC: one call.  Its two         *)
(* requests compete for a replay store that holds three keys.              *)
(***************************************************************************)
EXTENDS ReleaseVerifier

CONSTANT c1

=============================================================================
