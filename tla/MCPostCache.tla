---------------------------- MODULE MCPostCache ----------------------------
(***************************************************************************)
(* A small instance of PostCache for TLC: PostCache.cfg gives its posts,   *)
(* readers and removals. Two posts let a read find one of them in the      *)
(* cache and the other in the table.                                       *)
(***************************************************************************)
EXTENDS PostCache
=============================================================================
