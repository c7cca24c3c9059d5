------------------------------- MODULE MCTenants --------------------------------
(***************************************************************************)
(* Small instances of Access:  up to four tenants, in every shape a tree   *)
(* or several can take, and two people.                                    *)
(***************************************************************************)
EXTENDS Access, TLC

CONSTANTS head, branch, bar, cellar, ann, bob

Symmetry == Permutations(Tenants) \cup Permutations(Users)
=============================================================================
