------------------------- MODULE MCSessionRegistry -------------------------
(***************************************************************************)
(* Constants of the SessionRegistry runs.                                  *)
(***************************************************************************)
EXTENDS SessionRegistry, TLC

CONSTANTS l1, l2, l3, r1

ThreeLogins == {l1, l2, l3}
TwoLogins   == {l1, l2}
OneRequest  == {r1}
Symmetry    == Permutations(ThreeLogins)
=============================================================================
