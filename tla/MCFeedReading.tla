---------------------------- MODULE MCFeedReading ----------------------------
(***************************************************************************)
(* A small instance of FeedReading for TLC.                                *)
(***************************************************************************)
EXTENDS FeedReading, TLC

CONSTANTS ann, bob, r1

\* Both posts are ann's, published within one millisecond.
OneAuthor == (1 :> ann) @@ (2 :> ann)
Times == (1 :> 3) @@ (2 :> 2)
=============================================================================
