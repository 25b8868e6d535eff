--------------------------- MODULE MCTwoProcessors ---------------------------
(***************************************************************************)
(* A small instance of TwoProcessors for TLC.                              *)
(***************************************************************************)
EXTENDS TwoProcessors, TLC

CONSTANTS ann, bob, p1, p2, r1

OneAuthor == (p1 :> ann) @@ (p2 :> ann)
=============================================================================
