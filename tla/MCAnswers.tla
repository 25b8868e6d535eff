------------------------------ MODULE MCAnswers ------------------------------
(***************************************************************************)
(* Small instances of Answers for TLC.                                     *)
(***************************************************************************)
EXTENDS Answers, TLC

Symmetry == Permutations(Requests)
=============================================================================
