--------------------------------- MODULE Ledger ---------------------------------
(***************************************************************************)
(* What the inventory promises its callers: an append-only set of          *)
(* movements and, for every product, the sum of their quantities.          *)
(* Movements are booked some at a time, all of them in one indivisible     *)
(* step; an idempotency key is booked once; no level goes below zero.      *)
(***************************************************************************)
EXTENDS Integers, FiniteSetsExt

CONSTANTS Products, NoKey

VARIABLES
  ledger,   \* the movements booked so far
  level     \* the quantity on hand of each product

Sum(p, S) == MapThenSumSet(LAMBDA m : m.delta, {m \in S : m.product = p})

\* The movements of S carry keys that are neither booked nor repeated.
FreshKeys(S) ==
  \A m \in S, n \in S \cup ledger : m.key = n.key /\ m.key # NoKey => m = n

\* An inventory whose books balance, the empty one among them.
Init ==
  /\ \A m, n \in ledger : m.key = n.key /\ m.key # NoKey => m = n
  /\ level = [p \in Products |-> Sum(p, ledger)]
  /\ \A p \in Products : level[p] >= 0

Book ==
  /\ ledger \subseteq ledger'
  /\ FreshKeys(ledger' \ ledger)
  /\ level' = [p \in Products |-> level[p] + Sum(p, ledger' \ ledger)]
  /\ \A p \in Products : level'[p] >= 0

Spec == Init /\ [][Book]_<<ledger, level>>
=============================================================================
