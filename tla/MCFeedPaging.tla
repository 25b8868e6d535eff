---------------------------- MODULE MCFeedPaging ----------------------------
(***************************************************************************)
(* A small instance of FeedPaging for TLC.                                 *)
(***************************************************************************)
EXTENDS FeedPaging, TLC

\* 1 and 3 share a millisecond in which the ids and the microseconds disagree; 2 comes
\* before and 4 after.
FourPosts == (1 :> 5) @@ (2 :> 3) @@ (3 :> 4) @@ (4 :> 6)
ThreePosts == (1 :> 3) @@ (2 :> 1) @@ (3 :> 2)
OneAndTwo == {-1, 0, 1, 2}
=============================================================================
