---------------------------- MODULE MCFeedFanout ----------------------------
(***************************************************************************)
(* Small instances of FeedFanout for TLC.                                  *)
(***************************************************************************)
EXTENDS FeedFanout, TLC

CONSTANTS ann, bob, p1, p2

\* Both posts are ann's: one feed holds several posts of a batch.
OneAuthor == (p1 :> ann) @@ (p2 :> ann)

\* One post only.
OnePost == (p1 :> ann)
=============================================================================
