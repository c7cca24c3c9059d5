-------------------------------- MODULE MCStaff --------------------------------
(***************************************************************************)
(* Small instances of Staff: a founder and three others.                   *)
(***************************************************************************)
EXTENDS Staff, TLC

CONSTANTS c1, c2, ann, bob, cyd, dan

OwnTenant == [u \in Users |-> "none"]

Symmetry == Permutations(Workers)
=============================================================================
