----------------------------- MODULE MCSessions -----------------------------
(***************************************************************************)
(* A small instance of Access, and with it of Sessions, for TLC.           *)
(***************************************************************************)
EXTENDS Access, TLC

Symmetry ==
    Permutations(Requests) \cup Permutations(Tokens) \cup Permutations(Users)
        \cup Permutations(Logins) \cup Permutations(Emails)
=============================================================================
