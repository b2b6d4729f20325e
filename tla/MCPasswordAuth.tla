--------------------------- MODULE MCPasswordAuth ---------------------------
(***************************************************************************)
(* Constants of the PasswordAuth run.                                      *)
(***************************************************************************)
EXTENDS PasswordAuth, TLC

CONSTANTS p1, p2, p3, old, new

Requests  == {p1, p2, p3}
Passwords == {old, new}
Symmetry  == Permutations(Requests) \cup Permutations(Passwords)
=============================================================================
