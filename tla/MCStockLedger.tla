----------------------------- MODULE MCStockLedger -----------------------------
(***************************************************************************)
(* Small instances of StockLedger.  Two products, each with its base unit  *)
(* and a crate of two.  Four is one unit in the last place of a column,    *)
(* so quantities of 4 and 8 are storable and the others are rounded.       *)
(***************************************************************************)
EXTENDS StockLedger, TLC

CONSTANTS t1, t2, t3, t4, t5, tea, rice, piece, crate, k1, k2, k3, k4

MCFactor == [pu \in Products \X Units |-> IF pu[2] = crate THEN 2 ELSE 1]

MCStockUnits == (Products \X Units) \ {<<rice, crate>>}

MCLine(p, u, q, k) == [product |-> p, unit |-> u, qty |-> q, key |-> k]

One(kd, p, u, q, k) == [kind |-> kd, lines |-> <<MCLine(p, u, q, k)>>]

\* Single movements: keyed and unkeyed, retried, rounded up and down, usages that
\* empty the stock, and a key that is used for movements of two products.
SingleRequests ==
  { One("receipt", tea, crate, 4, k1), One("usage", tea, piece, 2, NoKey),
    One("usage", tea, piece, 8, k2), One("adjustment", tea, piece, -5, NoKey),
    One("adjustment", rice, piece, 0, NoKey), One("receipt", rice, piece, 4, k1) }

\* The completion of one order with two lines, sent twice in a row, and that of
\* another order with the same products in the opposite order.
Sale(k, l, p, q) ==
  [kind |-> "sale", lines |-> <<MCLine(p, piece, 4, k), MCLine(q, piece, 4, l)>>]

SaleRequests ==
  { Sale(k1, k2, tea, rice), Sale(k3, k4, rice, tea),
    One("receipt", tea, piece, 4, NoKey), One("receipt", rice, piece, 8, NoKey) }

\* The state after t4 and t5 received two units of tea and of rice.
Received(t, p) == [txn |-> t, line |-> 1, product |-> p, delta |-> 8, key |-> NoKey]

Stocked ==
  /\ status = [p \in Products |-> "active"]
  /\ units = [p \in Products |-> {BaseUnit}]
  /\ pc = [t \in Txns |-> IF t \in {t4, t5} THEN "done" ELSE "idle"]
  /\ kind = [t \in Txns |-> "receipt"]
  /\ lines = [t \in Txns |->
       IF t = t4 THEN <<MCLine(tea, piece, 8, NoKey)>>
       ELSE IF t = t5 THEN <<MCLine(rice, piece, 8, NoKey)>> ELSE <<>>]
  /\ at = [t \in Txns |-> IF t \in {t4, t5} THEN 2 ELSE 1]
  /\ ledger = {Received(t4, tea), Received(t5, rice)}
  /\ staged = [t \in Txns |-> {}]
  /\ lock = [p \in Products |-> Free]
  /\ level = [p \in Products |-> 8]
  /\ draft = [p \in Products |-> 8]
  /\ booked = [p \in Products |-> 8]
  /\ bookedDraft = [p \in Products |-> 8]

StockedSpec == Stocked /\ [][Next]_vars /\ Fairness

Symmetry == Permutations(Txns)
=============================================================================
