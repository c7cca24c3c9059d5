----------------------------- MODULE MCPointOfSale -----------------------------
(***************************************************************************)
(* Small instances of PointOfSale: tea is made of rice while its recipe is *)
(* active, and rice is sold as it is, so that the lines of one order meet  *)
(* in one stock level.                                                     *)
(***************************************************************************)
EXTENDS PointOfSale, TLC

CONSTANTS t1, t2, t3, t4, t5, tea, rice, piece, o1, o2, o3,
  FirstItems  \* the order lines there are to begin with

MCFactor == [pu \in Products \X Units |-> 1]
AllUnits == Products \X Units
MCPrice == [p \in Products |-> IF p = tea THEN 3 ELSE 2]
MCRecipe == [p \in Products |->
  IF p = tea THEN <<[product |-> rice, unit |-> piece, qty |-> 1]>> ELSE <<>>]

\* One rice for four of tea: the share of one tea is below half of the last place,
\* that of two is half of it.
MCYields == [p \in Products |-> IF p = tea THEN 4 ELSE 1]
MCKeys == {SaleKey(i, p) : i \in 1 .. MaxItems, p \in Products}

MCLine(p, q) == [product |-> p, unit |-> piece, qty |-> q, key |-> NoKey]
MCExtras == {-1, 0}
OneReceipt == {[kind |-> "receipt", lines |-> <<MCLine(rice, 4)>>]}

MCItem(i, o, p) ==
  [id |-> i, order |-> o, product |-> p, unit |-> piece, qty |-> 4, lineTotal |-> 4 * MCPrice[p]]

\* After t4 and t5 received two units of each product: open orders with lines of tea
\* and rice, and orders yet to be created.
MCItems ==
  {i \in {MCItem(1, o1, tea), MCItem(2, o1, rice), MCItem(3, o2, rice)} : i.id \in FirstItems}

Received(t, p) == [txn |-> t, line |-> 1, product |-> p, delta |-> 8, key |-> NoKey]

Opened ==
  /\ status = [p \in Products |-> "active"]
  /\ units = [p \in Products |-> {BaseUnit}]
  /\ pc = [t \in Txns |-> IF t \in {t4, t5} THEN "done" ELSE "idle"]
  /\ kind = [t \in Txns |-> "receipt"]
  /\ lines = [t \in Txns |->
       IF t = t4 THEN <<MCLine(tea, 8)>> ELSE IF t = t5 THEN <<MCLine(rice, 8)>> ELSE <<>>]
  /\ at = [t \in Txns |-> IF t \in {t4, t5} THEN 2 ELSE 1]
  /\ ledger = {Received(t4, tea), Received(t5, rice)}
  /\ staged = [t \in Txns |-> {}]
  /\ lock = [p \in Products |-> Free]
  /\ level = [p \in Products |-> 8]
  /\ draft = level
  /\ booked = level
  /\ bookedDraft = level
  /\ items = MCItems
  /\ created = Max(FirstItems)
  /\ orders = [o \in Orders |->
       [status |-> IF ItemsOf(o) = {} THEN "none" ELSE "open",
        total |-> TotalOf(ItemsOf(o)), receipt |-> 0]]
  /\ payments = {}
  /\ nextReceipt = 0
  /\ seqHolder = Free
  /\ recipeStatus = [p \in Products |-> IF p = tea THEN "active" ELSE "none"]
  /\ desk = [t \in Txns |-> NoDesk]

OpenedSpec == Opened /\ [][DeskNext]_allVars

Symmetry == Permutations(Txns \ {t4, t5})
=============================================================================
