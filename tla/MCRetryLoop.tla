---------------------------- MODULE MCRetryLoop ----------------------------
(***************************************************************************)
(* A small instance of RetryLoop for TLC.                                  *)
(***************************************************************************)
EXTENDS RetryLoop
=============================================================================
