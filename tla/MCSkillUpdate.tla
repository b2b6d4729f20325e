---------------------------- MODULE MCSkillUpdate ----------------------------
(* Two overlapping runs and a third that may follow a crash; the versions *)
(* of the two sources and of an older installation.                       *)
EXTENDS SkillUpdate, TLC

Symmetry == Permutations(Run) \cup Permutations(Version)
=============================================================================
