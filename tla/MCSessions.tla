------------------------------- MODULE MCSessions -------------------------------
(***************************************************************************)
(* Small instances of Sessions: ann owns the tenant and administers the    *)
(* account and the membership of others.                                   *)
(***************************************************************************)
EXTENDS Sessions, TLC

CONSTANTS v1, v2, c1, ann, bob

OwnTenant == [u \in Users |-> "none"]

Symmetry == Permutations(Visits)
=============================================================================
