--------------------------------- MODULE MCBooks ---------------------------------
(***************************************************************************)
(* Small instances of Books: two orders of different totals, two days and  *)
(* pages of one expense.                                                   *)
(***************************************************************************)
EXTENDS Books, TLC

CONSTANTS o1, o2, till1, till2, ann, bob, rent, rice, tea

MCLineTotal == o1 :> (rice :> 1 @@ tea :> 0) @@ o2 :> (rice :> 1 @@ tea :> 1)

Symmetry == Permutations(Tills) \cup Permutations(Clerks)
=============================================================================
