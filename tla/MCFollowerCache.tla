-------------------------- MODULE MCFollowerCache --------------------------
(***************************************************************************)
(* A small instance of FollowerCache for TLC.                              *)
(***************************************************************************)
EXTENDS FollowerCache
=============================================================================
