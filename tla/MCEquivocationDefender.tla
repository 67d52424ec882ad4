----------------------- MODULE MCEquivocationDefender -----------------------
(***************************************************************************)
(* A small EquivocationDefender: more slots than the window holds.         *)
(***************************************************************************)
EXTENDS EquivocationDefender, TLC

CONSTANTS s1, s2, s3

MCSlots == {s1, s2, s3}
Symmetry == Permutations(MCSlots)
=============================================================================
