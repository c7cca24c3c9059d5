------------------------------ MODULE SlidingWindow ------------------------------
(***************************************************************************)
(* What a rate limiter promises of one key: in any stretch of Window       *)
(* seconds it lets at most Max requests through, for as long as the clocks *)
(* it is asked with are exact.                                             *)
(***************************************************************************)
EXTENDS Integers, FiniteSets

CONSTANTS Max, Window

VARIABLES
  admitted, \* the requests let through: when, and a number of their own
  exact     \* nothing has upset the count so far

Recent(t) == {a \in admitted : t - Window < a.at /\ a.at <= t}

Init == admitted = {} /\ exact = TRUE

Admit ==
  \E new \in admitted' \ admitted :
    /\ admitted' = admitted \cup {new}
    /\ \A a \in admitted : a.at <= new.at
    /\ Cardinality(Recent(new.at)) < Max

\* Once the count is upset nothing is promised.
Next == exact' = TRUE => exact = TRUE /\ (admitted' = admitted \/ Admit)

Spec == Init /\ [][Next]_<<admitted, exact>>
=============================================================================
