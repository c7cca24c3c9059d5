--------------------------- MODULE PointOfSaleProofs ---------------------------
(***************************************************************************)
(* Theorems about PointOfSale, for all orders, products, recipes and       *)
(* requests: receipt numbers are given in order, what is paid for has      *)
(* moved and what has moved for a sale is paid for; and, where the         *)
(* requests on one order come one after the other, totals are the sums of  *)
(* their lines, a completed order stays as it is and is settled in full.   *)
(***************************************************************************)
EXTENDS PointOfSale, SumProofs

-----------------------------------------------------------------------------
(* What a session knows *)

Statuses == {"absent", "active", "inactive"}

EditDesk == [op : {"add", "update", "remove"}, order : Orders,
             what : (Products \X Units) \cup 1 .. MaxItems, qty : Nat,
             found : SUBSET OrderItem, items : SUBSET OrderItem, total : Nat]

SaleDesk == [op : {"sale"}, order : Orders, items : SUBSET OrderItem, total : Nat,
             todo : SUBSET OrderItem, amount : Nat, number : Nat,
             statuses : [Products -> Statuses \cup {"unread"}],
             recipes : [Products -> {"unread", "none", "active", "inactive"}]]

\* The lines of one order as some session may have read them.
Read(S, o) ==
  /\ IsFiniteSet(S)
  /\ \A i \in S : i \in OrderItem /\ i.order = o /\ i.id <= created
  /\ \A i, j \in S : i.id = j.id => i = j

EditFits(d) ==
  /\ d \in EditDesk
  /\ Read(d.items, d.order) /\ Read(d.found, d.order)
  /\ IF d.op = "add" THEN d.what \in Products \X Units
                     ELSE d.what \in 1 .. MaxItems /\ \A i \in d.found : i.id = d.what

SaleFits(d) ==
  /\ d \in SaleDesk
  /\ Read(d.items, d.order) /\ d.todo \subseteq d.items
  /\ \A p \in Products : d.recipes[p] = "active" => Recipe[p] # <<>>

\* Every session has in memory what the statement it is about to execute needs.
DeskFits ==
  /\ desk = [t \in Txns |-> desk[t]]
  /\ \A t \in Txns :
       \/ desk[t] = NoDesk /\ pc[t] \notin {"check", "edit", "insert"}
       \/ EditFits(desk[t]) /\ pc[t] \in {"check", "edit"}
       \/ SaleFits(desk[t]) /\ pc[t] \in Running \cup {"insert"}

RowsFit ==
  /\ pc \in [Txns -> Running \cup Ended \cup {"idle", "check", "edit", "insert"}]
  /\ lines \in [Txns -> Seq(Line)]
  /\ at \in [Txns -> Nat \ {0}]
  /\ staged = [t \in Txns |-> staged[t]]
  /\ status \in [Products -> Statuses]
  /\ \A t \in Txns : pc[t] \in Running \ {"commit"} => at[t] \in DOMAIN lines[t]

DeskInv ==
  /\ DeskTypeOK /\ RowsFit /\ DeskFits
  /\ created \in 0 .. MaxItems /\ IsFiniteSet(items)
  /\ \A p \in Products : recipeStatus[p] # "none" => Recipe[p] # <<>>

-----------------------------------------------------------------------------
(* Lines and their totals *)

Prices == [i \in OrderItem |-> i.lineTotal]

\* What a customer is asked for is a number, the sum of a function of the lines.
LEMMA TotalOfLines ==
  ASSUME NEW S \in SUBSET OrderItem, IsFiniteSet(S)
  PROVE  TotalOf(S) = Total(Prices, S) /\ TotalOf(S) \in Nat
<1> DEFINE D(f) == f = [s \in SUBSET S |-> IF s = {} THEN 0
                                            ELSE Pick(s).lineTotal + f[s \ {Pick(s)}]]
           g == CHOOSE h : D(h)
<1>1. TotalOf(S) = g[S]
  BY DEF TotalOf, MapThenSumSet, MapThenFoldSet, Pick
<1>2. \A s \in SUBSET S : s # {} => Pick(s).lineTotal = Prices[Pick(s)]
  BY PickIn DEF Prices
<1>3. \A f : D(f) <=> Adds(Prices, f, S)
  <2> TAKE f
  <2>1. [s \in SUBSET S |-> IF s = {} THEN 0 ELSE Pick(s).lineTotal + f[s \ {Pick(s)}]]
          = [s \in SUBSET S |-> IF s = {} THEN 0 ELSE Prices[Pick(s)] + f[s \ {Pick(s)}]]
    BY <1>2
  <2> QED
    BY <2>1 DEF Adds
<1>4. PICK f : Adds(Prices, f, S)
  BY AddsExists
<1>5. D(g)
  BY <1>3, <1>4
<1>6. Adds(Prices, g, S)
  BY <1>3, <1>5
<1> HIDE DEF g
<1>7. Total(Prices, S) = g[S]
  BY <1>6, TotalAdds
<1>8. \A i \in S : Prices[i] \in Nat
  BY DEF Prices, OrderItem
<1> QED
  BY <1>1, <1>7, <1>8, TotalNat

\* The price of a line, and a line with another quantity.
LEMMA LineTotals == \A p \in Products, q \in Nat : LineTotal(p, q) \in Nat
<1> SUFFICES ASSUME NEW p \in Products, NEW q \in Nat PROVE LineTotal(p, q) \in Nat
  OBVIOUS
<1>1. Price[p] \in Nat
  BY DeskAssumption
<1>2. \A a, b \in Nat : a * b \in Nat
  OBVIOUS
<1> QED
  BY <1>1, <1>2 DEF LineTotal

LEMMA RewrittenLine ==
  ASSUME NEW d \in EditDesk, NEW i \in OrderItem
  PROVE  /\ Rewritten(d, i) \in OrderItem
         /\ Rewritten(d, i).id = i.id /\ Rewritten(d, i).order = i.order
<1> DEFINE q == IF d.op = "add" THEN i.qty + d.qty ELSE d.qty
<1>1. q \in Nat /\ i.product \in Products
  BY DEF EditDesk, OrderItem
<1>2. LineTotal(i.product, q) \in Nat
  BY <1>1, LineTotals
<1>3. Rewritten(d, i) = [i EXCEPT !.qty = q, !.lineTotal = LineTotal(i.product, q)]
  BY DEF Rewritten
<1> HIDE DEF q
<1> QED
  BY <1>1, <1>2, <1>3 DEF OrderItem

\* The lines an edit changes are lines of its order, as it read them.
LEMMA TargetRead ==
  ASSUME NEW d, EditFits(d)
  PROVE  Read(Target(d), d.order)
<1>1. CASE d.op = "add"
  <2>1. Target(d) \subseteq d.items
    BY <1>1 DEF Target
  <2> QED
    BY <2>1, FS_Subset DEF EditFits, Read
<1>2. CASE d.op = "update"
  BY <1>2 DEF Target, EditFits
<1>3. CASE d.op = "remove"
  <2>1. Target(d) \subseteq d.items
    BY <1>3 DEF Target
  <2> QED
    BY <2>1, FS_Subset DEF EditFits, Read
<1> QED
  BY <1>1, <1>2, <1>3 DEF EditFits, EditDesk

LEMMA NewLine ==
  ASSUME created \in Nat, MaxItems \in Nat, created < MaxItems,
         NEW d \in EditDesk, d.what \in Products \X Units
  PROVE  NewItem(d) \in OrderItem /\ NewItem(d).id = created + 1 /\ NewItem(d).order = d.order
<1>1. d.what[1] \in Products /\ d.what[2] \in Units /\ d.qty \in Nat /\ d.order \in Orders
  BY DEF EditDesk
<1>2. LineTotal(d.what[1], d.qty) \in Nat
  BY <1>1, LineTotals
<1>3. created + 1 \in 1 .. MaxItems
  OBVIOUS
<1> QED
  BY <1>1, <1>2, <1>3 DEF NewItem, OrderItem

\* What an edit writes: new versions of lines the order had, or one line with an id of
\* its own.
LEMMA SavedLines ==
  ASSUME created \in Nat, MaxItems \in Nat, NEW d, EditFits(d),
         NEW new, new = InMemory(d) \ (d.items \cup Updated(d)),
         created + Cardinality(new) <= MaxItems
  PROVE  /\ Read(Updated(d), d.order)
         /\ \/ new = {} /\ Cardinality(new) = 0
            \/ /\ d.op = "add" /\ Target(d) = {} /\ new = {NewItem(d)} /\ Cardinality(new) = 1
               /\ NewItem(d) \in OrderItem /\ NewItem(d).id = created + 1
               /\ NewItem(d).order = d.order
         /\ IsFiniteSet(InMemory(d)) /\ InMemory(d) \subseteq OrderItem
<1>1. Read(Target(d), d.order) /\ Read(d.items, d.order) /\ d \in EditDesk
  BY TargetRead DEF EditFits
<1>2. \A i \in Target(d) : /\ Rewritten(d, i) \in OrderItem
                           /\ Rewritten(d, i).id = i.id /\ Rewritten(d, i).order = i.order
  BY <1>1, RewrittenLine DEF Read
<1> DEFINE rew == {Rewritten(d, i) : i \in Target(d)}
           some == {Rewritten(d, i) : i \in Target(d) \cap d.items}
<1>3. Read(rew, d.order)
  <2>1. IsFiniteSet(rew)
    <3> DEFINE F == [i \in Target(d) |-> Rewritten(d, i)]
    <3>1. F \in Surjection(Target(d), rew)
      BY DEF Surjection
    <3> HIDE DEF F, rew
    <3> QED
      BY <1>1, <3>1, FS_Surjection DEF Read
  <2> QED
    BY <1>1, <1>2, <2>1 DEF Read
<1>4. IsFiniteSet(some) /\ some \subseteq rew
  BY <1>1, <1>3, FS_Subset DEF Read
<1>5. Updated(d) \subseteq rew
  BY DEF Updated
<1>6. Read(Updated(d), d.order)
  BY <1>3, <1>5, FS_Subset DEF Read
<1>7. CASE d.op = "add" /\ Target(d) = {}
  <2>1. InMemory(d) = d.items \cup {NewItem(d)} /\ Updated(d) = {}
    BY <1>7 DEF InMemory, Updated
  <2>2. NewItem(d) \notin d.items
    <3>1. NewItem(d).id = created + 1
      BY DEF NewItem
    <3> QED
      BY <1>1, <3>1 DEF Read, OrderItem
  <2>3. new = {NewItem(d)} /\ Cardinality(new) = 1
    <3>1. Cardinality({NewItem(d)}) = 1
      BY FS_Singleton
    <3> QED
      BY <2>1, <2>2, <3>1
  <2>4. d.what \in Products \X Units
    BY <1>7 DEF EditFits
  <2>5. NewItem(d) \in OrderItem /\ NewItem(d).id = created + 1 /\ NewItem(d).order = d.order
    BY <1>1, <2>3, <2>4, NewLine
  <2>6. IsFiniteSet(InMemory(d)) /\ InMemory(d) \subseteq OrderItem
    BY <1>1, <2>1, <2>5, FS_AddElement DEF Read
  <2> QED
    BY <1>6, <1>7, <2>3, <2>5, <2>6
<1>8. CASE d.op = "remove"
  <2>1. InMemory(d) \subseteq d.items /\ new = {}
    BY <1>8 DEF InMemory
  <2> QED
    BY <1>1, <1>6, <2>1, FS_Subset, FS_EmptySet DEF Read
<1>9. CASE d.op # "remove" /\ ~(d.op = "add" /\ Target(d) = {})
  <2>1. InMemory(d) = (d.items \ Target(d)) \cup some
    BY <1>9 DEF InMemory
  <2>2. new = {}
    <3>1. ASSUME NEW i \in Target(d) \cap d.items, Rewritten(d, i) \notin Updated(d)
          PROVE  Rewritten(d, i) \in d.items
      <4>1. Rewritten(d, i) \in Target(d)
        BY <1>9, <3>1 DEF Updated
      <4> QED
        BY <1>1, <1>2, <4>1 DEF Read
    <3> QED
      BY <2>1, <3>1
  <2>3. IsFiniteSet(d.items \ Target(d)) /\ IsFiniteSet(InMemory(d))
    BY <1>1, <1>4, <2>1, FS_Subset, FS_Union DEF Read
  <2>4. InMemory(d) \subseteq OrderItem
    BY <1>1, <1>3, <1>4, <2>1 DEF Read
  <2> QED
    BY <1>6, <2>2, <2>3, <2>4, FS_EmptySet
<1> QED
  BY <1>7, <1>8, <1>9

-----------------------------------------------------------------------------
(* Types *)

\* The other sessions and rows stay as they are.
LEMMA DeskFrame ==
  ASSUME DeskFits, NEW t \in Txns, created \in Nat, created' \in Nat, created <= created',
         desk' = [u \in Txns |-> desk'[u]],
         \A u \in Txns \ {t} : desk'[u] = desk[u] /\ pc'[u] = pc[u],
         \/ desk'[t] = NoDesk /\ pc'[t] \notin {"check", "edit", "insert"}
         \/ EditFits(desk'[t]) /\ pc'[t] \in {"check", "edit"}
         \/ SaleFits(desk'[t]) /\ pc'[t] \in Running \cup {"insert"}
  PROVE  DeskFits'
<1>1. \A S, o : Read(S, o) => Read(S, o)'
  BY DEF Read, OrderItem
<1>2. \A d : (EditFits(d) => EditFits(d)') /\ (SaleFits(d) => SaleFits(d)')
  BY <1>1 DEF EditFits, SaleFits
<1> QED
  BY <1>2 DEF DeskFits

\* A step that touches neither orders, lines nor payments.
LEMMA QuietDesk ==
  ASSUME DeskInv, NEW t \in Txns, RowsFit',
         UNCHANGED <<orders, items, created, payments, recipeStatus>>,
         nextReceipt' \in Nat, seqHolder' \in Txns \cup {Free},
         desk' = [u \in Txns |-> desk'[u]],
         \A u \in Txns \ {t} : desk'[u] = desk[u] /\ pc'[u] = pc[u],
         \/ desk'[t] = NoDesk /\ pc'[t] \notin {"check", "edit", "insert"}
         \/ EditFits(desk'[t]) /\ pc'[t] \in {"check", "edit"}
         \/ SaleFits(desk'[t]) /\ pc'[t] \in Running \cup {"insert"}
  PROVE  DeskInv'
<1>1. DeskFits'
  BY DeskFrame DEF DeskInv
<1>2. DeskTypeOK'
  BY DEF DeskInv, DeskTypeOK, PaymentRow, OrderItem
<1> QED
  BY <1>1, <1>2 DEF DeskInv

LEMMA ClosedDesk ==
  ASSUME DeskFits, NEW t \in Txns
  PROVE  /\ Closed(t) = [u \in Txns |-> Closed(t)[u]] /\ Closed(t)[t] = NoDesk
         /\ \A u \in Txns \ {t} : Closed(t)[u] = desk[u]
BY DEF DeskFits, Closed

\* The lines of an order as they are committed can be read.
LEMMA CommittedRead ==
  ASSUME DeskInv, NEW o \in Orders
  PROVE  Read(ItemsOf(o), o)
<1>1. ItemsOf(o) \subseteq items
  BY DEF ItemsOf
<1> QED
  BY <1>1, FS_Subset DEF DeskInv, DeskTypeOK, Read, ItemsOf

LEMMA ReadForEditType ==
  ASSUME DeskInv, NEW t \in Txns, NEW op, NEW o \in Orders, NEW what, NEW q \in Nat,
         op \in {"add", "update", "remove"},
         IF op = "add" THEN what \in Products \X Units ELSE what \in 1 .. MaxItems,
         ReadForEdit(t, op, o, what, q)
  PROVE  DeskInv'
<1> DEFINE d == [op |-> op, order |-> o, what |-> what, qty |-> q, found |-> {},
                 items |-> ItemsOf(o), total |-> orders[o].total]
           next == IF Open(o) THEN "check" ELSE "failed"
<1>1. /\ pc' = [pc EXCEPT ![t] = next] /\ UNCHANGED <<catalogue, kind, lines, at, rows>>
      /\ desk' = [desk EXCEPT ![t] = IF next = "failed" THEN NoDesk ELSE d]
      /\ UNCHANGED <<orders, items, created, payments, nextReceipt, seqHolder, recipeStatus>>
  BY DEF ReadForEdit, Arrive, Untouched
<1>2. Read(ItemsOf(o), o) /\ Read({}, o)
  BY CommittedRead, FS_EmptySet DEF Read
<1>3. d \in EditDesk
  BY <1>2 DEF EditDesk, Read, DeskInv, DeskTypeOK
<1>4. EditFits(d)
  BY <1>2, <1>3 DEF EditFits
<1> HIDE DEF d
<1>5. RowsFit'
  BY <1>1 DEF DeskInv, RowsFit, catalogue, rows, Running, Ended
<1>6. /\ desk' = [u \in Txns |-> desk'[u]]
      /\ \A u \in Txns \ {t} : desk'[u] = desk[u] /\ pc'[u] = pc[u]
      /\ pc'[t] = next /\ desk'[t] = IF next = "failed" THEN NoDesk ELSE d
  BY <1>1 DEF DeskInv, DeskFits, RowsFit
<1>7. nextReceipt' \in Nat /\ seqHolder' \in Txns \cup {Free}
  BY <1>1 DEF DeskInv, DeskTypeOK
<1> QED
  BY <1>1, <1>4, <1>5, <1>6, <1>7, QuietDesk

LEMMA ReadForSaleType ==
  ASSUME DeskInv, NEW t \in Txns, NEW o \in Orders, NEW extra \in Int, ReadForSale(t, o, extra)
  PROVE  DeskInv'
<1> DEFINE d == [op |-> "sale", order |-> o, items |-> ItemsOf(o), total |-> orders[o].total,
                 todo |-> ItemsOf(o), amount |-> orders[o].total + extra, number |-> 0,
                 statuses |-> [p \in Products |-> "unread"],
                 recipes |-> [p \in Products |-> "unread"]]
           next == IF Open(o) /\ ItemsOf(o) # {} /\ extra >= 0 THEN "commit" ELSE "failed"
<1>1. /\ pc' = [pc EXCEPT ![t] = next] /\ UNCHANGED <<catalogue, lines, at, rows>>
      /\ desk' = [desk EXCEPT ![t] = IF next = "failed" THEN NoDesk ELSE d]
      /\ UNCHANGED <<orders, items, created, payments, nextReceipt, seqHolder, recipeStatus>>
  BY DEF ReadForSale, Arrive
<1>2. Read(ItemsOf(o), o)
  BY CommittedRead
<1>3. orders[o].total \in Nat
  BY DEF DeskInv, DeskTypeOK
<1>4. next = "commit" => d \in SaleDesk
  BY <1>2, <1>3 DEF SaleDesk, Read
<1>5. next = "commit" => SaleFits(d)
  BY <1>2, <1>4 DEF SaleFits
<1> HIDE DEF d
<1>6. RowsFit'
  BY <1>1 DEF DeskInv, RowsFit, catalogue, rows, Running, Ended
<1>7. /\ desk' = [u \in Txns |-> desk'[u]]
      /\ \A u \in Txns \ {t} : desk'[u] = desk[u] /\ pc'[u] = pc[u]
      /\ pc'[t] = next /\ desk'[t] = IF next = "failed" THEN NoDesk ELSE d
  BY <1>1 DEF DeskInv, DeskFits, RowsFit
<1>8. nextReceipt' \in Nat /\ seqHolder' \in Txns \cup {Free}
  BY <1>1 DEF DeskInv, DeskTypeOK
<1> QED
  BY <1>1, <1>5, <1>6, <1>7, <1>8, QuietDesk DEF Running

LEMMA CheckType ==
  ASSUME DeskInv, NEW t \in Txns, Check(t)
  PROVE  DeskInv'
<1> DEFINE d == [desk[t] EXCEPT !.found = IF desk[t].op = "update" THEN Found(desk[t]) ELSE {}]
<1>0. EditFits(desk[t]) /\ pc[t] = "check"
  BY DEF Check, DeskInv, DeskFits, Running, Ended
<1>1. Read(Found(desk[t]), desk[t].order)
  <2>1. \/ Found(desk[t]) \subseteq desk[t].items
        \/ /\ Found(desk[t]) \subseteq items
           /\ \A i \in Found(desk[t]) : i.order = desk[t].order
    BY DEF Found, DeskInv, DeskTypeOK
  <2> QED
    BY <1>0, <2>1, FS_Subset DEF EditFits, Read, DeskInv, DeskTypeOK
<1>2. \A i \in Found(desk[t]) : i.id = desk[t].what
  BY DEF Found
<1>3. Read({}, desk[t].order)
  BY FS_EmptySet DEF Read
<1>4. d \in EditDesk
  BY <1>0, <1>1, <1>3 DEF EditFits, EditDesk, Read
<1>5. EditFits(d)
  BY <1>0, <1>1, <1>2, <1>3, <1>4 DEF EditFits, EditDesk
<1>6. \/ pc' = [pc EXCEPT ![t] = "edit"] /\ desk' = [desk EXCEPT ![t] = d]
      \/ pc' = [pc EXCEPT ![t] = "failed"] /\ desk' = [desk EXCEPT ![t] = NoDesk]
  BY DEF Check, Closed
<1>7. /\ UNCHANGED <<catalogue, kind, lines, at, rows>>
      /\ UNCHANGED <<orders, items, created, payments, nextReceipt, seqHolder, recipeStatus>>
  BY DEF Check, Untouched
<1> HIDE DEF d
<1>8. RowsFit'
  BY <1>6, <1>7 DEF DeskInv, RowsFit, catalogue, rows, Running, Ended
<1>9. /\ desk' = [u \in Txns |-> desk'[u]]
      /\ \A u \in Txns \ {t} : desk'[u] = desk[u] /\ pc'[u] = pc[u]
      /\ (pc'[t] = "edit" /\ desk'[t] = d) \/ (pc'[t] = "failed" /\ desk'[t] = NoDesk)
  BY <1>6 DEF DeskInv, DeskFits, RowsFit
<1>10. nextReceipt' \in Nat /\ seqHolder' \in Txns \cup {Free}
  BY <1>7 DEF DeskInv, DeskTypeOK
<1> QED
  BY <1>5, <1>7, <1>8, <1>9, <1>10, QuietDesk

LEMMA SaveEditType ==
  ASSUME DeskInv, NEW t \in Txns, SaveEdit(t)
  PROVE  DeskInv'
<1> DEFINE d == desk[t]
           upd == Updated(d)
           new == InMemory(d) \ (d.items \cup upd)
           gone == d.items \ InMemory(d)
<1>0. EditFits(d) /\ d \in EditDesk /\ d.order \in Orders /\ created \in Nat /\ MaxItems \in Nat
  <2>1. EditFits(desk[t])
    BY DEF SaveEdit, DeskInv, DeskFits, Running
  <2>2. created \in Nat /\ MaxItems \in Nat
    BY DeskAssumption DEF DeskInv
  <2> QED
    BY <2>1, <2>2 DEF EditFits, EditDesk
<1>1. /\ UNCHANGED <<catalogue, kind, lines, at, rows>> /\ desk' = Closed(t)
      /\ UNCHANGED <<payments, nextReceipt, seqHolder, recipeStatus>>
      /\ pc' = [pc EXCEPT ![t] = "done"] \/ pc' = [pc EXCEPT ![t] = "failed"]
      /\ created + Cardinality(new) <= MaxItems
  BY DEF SaveEdit, Untouched
<1>2. /\ Read(upd, d.order)
      /\ \/ new = {} /\ Cardinality(new) = 0
         \/ /\ d.op = "add" /\ Target(d) = {} /\ new = {NewItem(d)} /\ Cardinality(new) = 1
            /\ NewItem(d) \in OrderItem /\ NewItem(d).id = created + 1
            /\ NewItem(d).order = d.order
      /\ IsFiniteSet(InMemory(d)) /\ InMemory(d) \subseteq OrderItem
  BY <1>0, <1>1, SavedLines
<1>3. TotalOf(InMemory(d)) \in Nat
  BY <1>2, TotalOfLines
<1>4. RowsFit'
  BY <1>1 DEF DeskInv, RowsFit, catalogue, rows, Running, Ended
<1>5. /\ \/ /\ items' = {i \in items : \A j \in gone \cup upd : j.id # i.id} \cup upd \cup new
            /\ created' = created + Cardinality(new)
            /\ \/ orders' = orders
               \/ orders' = [orders EXCEPT ![d.order].total = TotalOf(InMemory(d))]
         \/ UNCHANGED <<items, created, orders>>
  BY DEF SaveEdit
<1> HIDE DEF d, upd, new, gone
<1>6. created' \in 0 .. MaxItems /\ created <= created'
  BY <1>0, <1>1, <1>2, <1>5 DEF DeskInv
<1>7. DeskFits'
  <2>1. DeskFits /\ created' \in Nat /\ pc'[t] \in Ended
        /\ \A u \in Txns \ {t} : pc'[u] = pc[u]
    BY <1>1, <1>6 DEF DeskInv, RowsFit, Ended
  <2> QED
    BY <1>0, <1>1, <1>6, <2>1, ClosedDesk, DeskFrame DEF Ended
<1>8. /\ items' \subseteq OrderItem /\ IsFiniteSet(items')
      /\ \A i, j \in items' : i.id = j.id => i = j
      /\ \A i \in items' : i.id <= created'
  <2>1. CASE UNCHANGED <<items, created>>
    BY <2>1 DEF DeskInv, DeskTypeOK
  <2>2. CASE /\ items' = {i \in items : \A j \in gone \cup upd : j.id # i.id} \cup upd \cup new
             /\ created' = created + Cardinality(new)
    <3> DEFINE old == {i \in items : \A j \in gone \cup upd : j.id # i.id}
    <3>1. IsFiniteSet(old) /\ IsFiniteSet(upd) /\ IsFiniteSet(new)
      BY <1>2, FS_Subset, FS_EmptySet, FS_Singleton DEF DeskInv, Read
    <3>2. IsFiniteSet(items')
      BY <2>2, <3>1, FS_Union
    <3>3. items' \subseteq OrderItem
      BY <1>2, <2>2 DEF DeskInv, DeskTypeOK, Read
    <3>4. \A i \in old : i.id <= created /\ i.id \in Nat /\ \A j \in upd : i.id # j.id
      BY DEF DeskInv, DeskTypeOK, OrderItem
    <3>5. \A i, j \in old : i.id = j.id => i = j
      BY DEF DeskInv, DeskTypeOK
    <3>6. \A j \in upd : j.id <= created /\ j.id \in Nat
      BY <1>2 DEF Read, OrderItem
    <3>7. \A i, j \in upd : i.id = j.id => i = j
      BY <1>2 DEF Read
    <3>8. \A i, j \in new : i = j /\ i.id = created + 1 /\ created' = created + 1
      BY <1>2, <2>2
    <3> HIDE DEF old
    <3>9. items' = old \cup upd \cup new
      BY <2>2 DEF old
    <3>10. \A i, j \in items' : i.id = j.id => i = j
      BY <1>0, <3>4, <3>5, <3>6, <3>7, <3>8, <3>9
    <3>11. \A i \in items' : i.id <= created'
      BY <1>0, <1>6, <3>4, <3>6, <3>8, <3>9
    <3> QED
      BY <3>2, <3>3, <3>10, <3>11
  <2> QED
    BY <1>5, <2>1, <2>2
<1>9. orders' \in [Orders -> [status : {"none", "open", "completed"}, total : Nat, receipt : Nat]]
  <2> DEFINE n == TotalOf(InMemory(d))
             o == d.order
  <2>1. orders' = orders \/ orders' = [orders EXCEPT ![o].total = n]
    BY <1>5
  <2>2. n \in Nat /\ o \in Orders
    BY <1>0, <1>3
  <2> HIDE DEF n, o
  <2> QED
    BY <2>1, <2>2 DEF DeskInv, DeskTypeOK
<1>10. DeskTypeOK'
  BY <1>1, <1>8, <1>9 DEF DeskInv, DeskTypeOK, PaymentRow, OrderItem
<1> QED
  BY <1>1, <1>4, <1>6, <1>7, <1>8, <1>10 DEF DeskInv

\* The movements a session posts for a line of an order.
\* The keys of what a line of a sale moves.
LEMMA DeductionKeys ==
  ASSUME NEW d, NEW i
  PROVE  /\ RecipeRead(d, i.product) # "active" =>
              DOMAIN Deductions(d, i) = {1} /\ Deductions(d, i)[1].key = SaleKey(i.id, i.product)
         /\ RecipeRead(d, i.product) = "active" =>
              /\ DOMAIN Deductions(d, i) = DOMAIN Recipe[i.product]
              /\ \A n \in DOMAIN Recipe[i.product] :
                   Deductions(d, i)[n].key = SaleKey(i.id, Recipe[i.product][n].product)
         /\ \A n \in DOMAIN Deductions(d, i) :
              Deductions(d, i)[n].key = SaleKey(i.id, Deductions(d, i)[n].product)
<1>1. CASE RecipeRead(d, i.product) # "active"
  <2> DEFINE l == [product |-> i.product, unit |-> i.unit, qty |-> i.qty,
                   key |-> SaleKey(i.id, i.product)]
  <2>1. Deductions(d, i) = <<l>> /\ l.key = SaleKey(i.id, i.product) /\ l.product = i.product
    BY <1>1 DEF Deductions
  <2> HIDE DEF l
  <2>2. DOMAIN Deductions(d, i) = {1} /\ Deductions(d, i)[1] = l
    BY <2>1
  <2> QED
    BY <1>1, <2>1, <2>2
<1>2. CASE RecipeRead(d, i.product) = "active"
  <2> DEFINE r == Recipe[i.product]
             made(n) == (r[n].qty * i.qty * Factor[<<i.product, i.unit>>]) \div Yields[i.product]
             l(n) == [product |-> r[n].product, unit |-> r[n].unit, qty |-> made(n),
                      key |-> SaleKey(i.id, r[n].product)]
  <2>1. Deductions(d, i) = [n \in DOMAIN r |-> l(n)]
    BY <1>2 DEF Deductions
  <2> HIDE DEF made
  <2>2. \A n : l(n).key = SaleKey(i.id, r[n].product) /\ l(n).product = r[n].product
    OBVIOUS
  <2> HIDE DEF l, r
  <2>3. DOMAIN Deductions(d, i) = DOMAIN r /\ \A n \in DOMAIN r : Deductions(d, i)[n] = l(n)
    BY <2>1
  <2>4. \A n \in DOMAIN r : /\ Deductions(d, i)[n].key = SaleKey(i.id, r[n].product)
                            /\ Deductions(d, i)[n].product = r[n].product
    BY <2>2, <2>3
  <2> QED
    BY <1>2, <2>3, <2>4 DEF r
<1> QED
  BY <1>1, <1>2

LEMMA DeductionLines ==
  ASSUME DeskInv, NEW d, SaleFits(d), NEW i \in d.todo
  PROVE  /\ i \in OrderItem
         /\ RecipeRead(d, i.product) \in {"none", "active", "inactive"}
         /\ RecipeRead(d, i.product) = "active" => Recipe[i.product] # <<>>
         /\ Deductions(d, i) \in Seq(Line) /\ Deductions(d, i) # <<>>
<1>1. /\ i \in OrderItem /\ i.product \in Products /\ i.unit \in Units
      /\ i.qty \in Nat /\ i.id \in 1 .. MaxItems
  BY DEF SaleFits, SaleDesk, Read, OrderItem
<1>2. RecipeRead(d, i.product) \in {"none", "active", "inactive"}
  BY <1>1 DEF RecipeRead, SaleFits, SaleDesk, DeskInv, DeskTypeOK
<1>3. RecipeRead(d, i.product) = "active" => Recipe[i.product] # <<>>
  BY <1>1 DEF RecipeRead, SaleFits, DeskInv
<1>4. \A p \in Products : SaleKey(i.id, p) \in Keys
  BY <1>1, DeskAssumption
<1>5. CASE RecipeRead(d, i.product) # "active"
  <2> DEFINE l == [product |-> i.product, unit |-> i.unit, qty |-> i.qty,
                   key |-> SaleKey(i.id, i.product)]
  <2>1. Deductions(d, i) = <<l>>
    BY <1>5 DEF Deductions
  <2>2. l \in Line
    BY <1>1, <1>4 DEF Line
  <2> HIDE DEF l
  <2> QED
    BY <1>1, <1>2, <1>3, <2>1, <2>2
<1>6. CASE RecipeRead(d, i.product) = "active"
  <2> DEFINE r == Recipe[i.product]
             made(n) == (r[n].qty * i.qty * Factor[<<i.product, i.unit>>]) \div Yields[i.product]
             l(n) == [product |-> r[n].product, unit |-> r[n].unit, qty |-> made(n),
                      key |-> SaleKey(i.id, r[n].product)]
  <2>1. r \in Seq(Ingredient) /\ r # <<>>
    BY <1>1, <1>3, <1>6, DeskAssumption
  <2>2. Factor[<<i.product, i.unit>>] \in Nat /\ Yields[i.product] \in Nat \ {0}
    BY <1>1, DeskAssumption, ConstantsAssumption
  <2>3. ASSUME NEW n \in DOMAIN r PROVE l(n) \in Line
    <3>1. r[n].product \in Products /\ r[n].unit \in Units /\ r[n].qty \in Nat
      <4> HIDE DEF r
      <4>1. r[n] \in Ingredient
        BY <2>1
      <4> QED
        BY <4>1 DEF Ingredient
    <3>2. \A a, b \in Nat : a * b \in Nat
      OBVIOUS
    <3>3. \A a \in Nat, b \in Nat \ {0} : a \div b \in Int
      OBVIOUS
    <3>4. made(n) \in Int
      BY <1>1, <2>2, <3>1, <3>2, <3>3
    <3> HIDE DEF made
    <3> QED
      BY <1>4, <3>1, <3>4 DEF Line
  <2>4. Deductions(d, i) = [n \in DOMAIN r |-> l(n)]
    BY <1>6 DEF Deductions
  <2>5. DOMAIN r = 1 .. Len(r) /\ Len(r) \in Nat /\ Len(r) # 0
    BY <2>1
  <2> HIDE DEF r, l
  <2>6. Deductions(d, i) = [n \in 1 .. Len(r) |-> l(n)]
    BY <2>4, <2>5
  <2>7. Deductions(d, i) \in Seq(Line) /\ Len(Deductions(d, i)) = Len(r)
    BY <2>3, <2>5, <2>6
  <2> QED
    BY <1>1, <1>2, <1>3, <2>5, <2>7
<1> QED
  BY <1>5, <1>6

\* A session that forgets what it has read is still that of the same sale.
LEMMA ForgottenFits ==
  ASSUME NEW d, SaleFits(d), NEW e \in StillHeld(d)
  PROVE  /\ SaleFits(e) /\ e.op = "sale" /\ e.order = d.order /\ e.items = d.items
         /\ e.total = d.total /\ e.todo = d.todo /\ e.amount = d.amount /\ e.number = d.number
<1>1. CASE e = d
  BY <1>1 DEF SaleFits, SaleDesk
<1>2. CASE e = Forgotten(d)
  <2> DEFINE none == [p \in Products |-> "unread"]
             f == [d EXCEPT !.recipes = none, !.statuses = none]
  <2>1. e = f
    BY <1>2 DEF Forgotten
  <2>2. /\ none \in [Products -> {"unread", "none", "active", "inactive"}]
        /\ none \in [Products -> Statuses \cup {"unread"}]
        /\ \A p \in Products : none[p] = "unread"
    OBVIOUS
  <2> HIDE DEF none
  <2>3. f \in SaleDesk
    BY <2>2 DEF SaleFits, SaleDesk
  <2>4. /\ f.op = "sale" /\ f.order = d.order /\ f.items = d.items /\ f.total = d.total
        /\ f.todo = d.todo /\ f.amount = d.amount /\ f.number = d.number /\ f.recipes = none
    BY DEF SaleFits, SaleDesk
  <2> HIDE DEF f
  <2> QED
    BY <2>1, <2>2, <2>3, <2>4 DEF SaleFits
<1> QED
  BY <1>1, <1>2 DEF StillHeld

\* What the session keeps after it has read the recipe of a line.
LEMMA AtItemFits ==
  ASSUME DeskInv, NEW d, SaleFits(d), NEW i \in d.todo
  PROVE  LET e == AtItem(d, i)
         IN /\ SaleFits(e) /\ e.todo = d.todo \ {i} /\ e.order = d.order /\ e.items = d.items
            /\ e.total = d.total /\ e.amount = d.amount /\ e.number = d.number
<1> DEFINE recs == [d.recipes EXCEPT ![i.product] = RecipeRead(d, i.product)]
           stats == StatusesRead(d, i.product)
           e == [d EXCEPT !.todo = @ \ {i}, !.recipes = recs, !.statuses = stats]
<1>1. /\ i \in OrderItem
      /\ RecipeRead(d, i.product) \in {"none", "active", "inactive"}
      /\ RecipeRead(d, i.product) = "active" => Recipe[i.product] # <<>>
  BY DeductionLines
<1>2. i.product \in Products
  BY <1>1 DEF OrderItem
<1>3. stats \in [Products -> Statuses \cup {"unread"}]
  BY DEF StatusesRead, SaleFits, SaleDesk, DeskInv, RowsFit
<1>4. recs \in [Products -> {"unread", "none", "active", "inactive"}]
  BY <1>1, <1>2 DEF SaleFits, SaleDesk
<1>5. \A p \in Products : recs[p] = "active" => Recipe[p] # <<>>
  BY <1>1, <1>2 DEF SaleFits, SaleDesk
<1>6. AtItem(d, i) = e
  BY DEF AtItem
<1> HIDE DEF recs, stats
<1>7. e \in SaleDesk
  BY <1>3, <1>4 DEF SaleFits, SaleDesk
<1>8. /\ e.todo = d.todo \ {i} /\ e.order = d.order /\ e.items = d.items /\ e.total = d.total
      /\ e.amount = d.amount /\ e.number = d.number /\ e.recipes = recs
  BY DEF SaleFits, SaleDesk
<1> HIDE DEF e
<1> QED
  BY <1>5, <1>6, <1>7, <1>8 DEF SaleFits

\* The session after its next line: the same sale, with one line less to deal with.
LEMMA NextItemDesk ==
  ASSUME DeskInv, NEW t \in Txns, NextItem(t)
  PROVE  /\ pc[t] = "commit" /\ SaleFits(desk[t])
         /\ \E i \in desk[t].todo, d \in StillHeld(desk[t]) :
              /\ lines' = [lines EXCEPT ![t] = Deductions(d, i)]
              /\ desk'[t].todo = desk[t].todo \ {i}
         /\ SaleFits(desk'[t]) /\ desk'[t].order = desk[t].order
         /\ desk'[t].items = desk[t].items /\ desk'[t].total = desk[t].total
         /\ desk'[t].amount = desk[t].amount /\ desk'[t].number = desk[t].number
         /\ desk' = [desk EXCEPT ![t] = desk'[t]]
<1>1. pc[t] = "commit" /\ SaleFits(desk[t])
  BY DEF NextItem, DeskInv, DeskFits, EditFits, EditDesk, NoDesk
<1>2. PICK i \in desk[t].todo, d \in StillHeld(desk[t]) :
        /\ lines' = [lines EXCEPT ![t] = Deductions(d, i)]
        /\ \E e \in IF RecipeRead(d, i.product) = "active" THEN {AtItem(d, i)}
                                                          ELSE StillHeld(AtItem(d, i)) :
             desk' = [desk EXCEPT ![t] = e]
  BY DEF NextItem
<1>3. PICK e \in StillHeld(AtItem(d, i)) : desk' = [desk EXCEPT ![t] = e]
  BY <1>2 DEF StillHeld
<1>4. desk'[t] = e
  BY <1>3 DEF DeskInv, DeskFits
<1>5. /\ SaleFits(d) /\ d.order = desk[t].order /\ d.items = desk[t].items
      /\ d.total = desk[t].total /\ d.todo = desk[t].todo /\ d.amount = desk[t].amount
      /\ d.number = desk[t].number
  BY <1>1, ForgottenFits
<1> DEFINE f == AtItem(d, i)
<1>6. /\ SaleFits(f) /\ f.todo = d.todo \ {i} /\ f.order = d.order /\ f.items = d.items
      /\ f.total = d.total /\ f.amount = d.amount /\ f.number = d.number
  BY <1>5, AtItemFits
<1> HIDE DEF f
<1>7. /\ SaleFits(e) /\ e.todo = f.todo /\ e.order = f.order /\ e.items = f.items
      /\ e.total = f.total /\ e.amount = f.amount /\ e.number = f.number
  BY <1>3, <1>6, ForgottenFits DEF f
<1> QED
  BY <1>1, <1>2, <1>3, <1>4, <1>5, <1>6, <1>7

LEMMA NextItemType ==
  ASSUME DeskInv, NEW t \in Txns, NextItem(t)
  PROVE  DeskInv'
<1>1. PICK i \in desk[t].todo, d \in StillHeld(desk[t]) :
        lines' = [lines EXCEPT ![t] = Deductions(d, i)]
  BY NextItemDesk
<1>2. pc[t] = "commit" /\ SaleFits(desk[t]) /\ SaleFits(desk'[t])
      /\ desk' = [desk EXCEPT ![t] = desk'[t]]
  BY NextItemDesk
<1>3. /\ at' = [at EXCEPT ![t] = 1] /\ pc' = [pc EXCEPT ![t] = "lookup"]
      /\ UNCHANGED <<status, staged>>
      /\ UNCHANGED <<orders, items, created, payments, nextReceipt, seqHolder, recipeStatus>>
  BY DEF NextItem, catalogue, rows
<1>4. Deductions(d, i) \in Seq(Line) /\ Deductions(d, i) # <<>>
  <2>1. SaleFits(d) /\ i \in d.todo
    BY <1>2, ForgottenFits
  <2> QED
    BY <2>1, DeductionLines
<1>6. RowsFit'
  <2>1. 1 \in DOMAIN Deductions(d, i)
    BY <1>4
  <2> QED
    BY <1>1, <1>3, <1>4, <2>1 DEF DeskInv, RowsFit, Running, Ended
<1>9. /\ desk' = [u \in Txns |-> desk'[u]] /\ pc'[t] = "lookup"
      /\ \A u \in Txns \ {t} : desk'[u] = desk[u] /\ pc'[u] = pc[u]
  BY <1>2, <1>3 DEF DeskInv, DeskFits, RowsFit
<1>10. nextReceipt' \in Nat /\ seqHolder' \in Txns \cup {Free}
  BY <1>3 DEF DeskInv, DeskTypeOK
<1> QED
  BY <1>2, <1>3, <1>6, <1>9, <1>10, QuietDesk DEF Running

\* The end of a transaction, and the steps of StockLedger, keep the rows as they fit.
LEMMA EndRowsFit ==
  ASSUME RowsFit, NEW t \in Txns, NEW fate \in Ended, Rollback(t, fate) \/ Publish(t, fate)
  PROVE  RowsFit' /\ pc'[t] = fate /\ \A u \in Txns \ {t} : pc'[u] = pc[u]
<1>1. /\ staged' = [staged EXCEPT ![t] = {}] /\ pc' = [pc EXCEPT ![t] = fate]
      /\ UNCHANGED <<status, lines, at>>
  BY DEF Rollback, Publish, catalogue
<1>2. staged' = [u \in Txns |-> staged'[u]]
  BY <1>1 DEF RowsFit
<1>3. /\ pc' \in [Txns -> Running \cup Ended \cup {"idle", "check", "edit", "insert"}]
      /\ pc'[t] = fate /\ \A u \in Txns \ {t} : pc'[u] = pc[u]
  BY <1>1 DEF RowsFit
<1>4. fate \notin Running
  BY DEF Running, Ended
<1> QED
  BY <1>1, <1>2, <1>3, <1>4 DEF RowsFit

LEMMA NextLineFits ==
  ASSUME RowsFit, NEW t \in Txns, NextLine(t), pc[t] \in Running \ {"commit"},
         UNCHANGED <<status, lines>>, staged' = [u \in Txns |-> staged'[u]]
  PROVE  RowsFit' /\ pc'[t] \in Running /\ \A u \in Txns \ {t} : pc'[u] = pc[u]
<1>1. at[t] \in DOMAIN lines[t] /\ lines[t] \in Seq(Line)
  BY DEF RowsFit
<1>2. at[t] < Len(lines[t]) => at[t] + 1 \in DOMAIN lines[t]
  BY <1>1
<1>3. /\ at' = [at EXCEPT ![t] = at[t] + 1]
      /\ pc' = [pc EXCEPT ![t] = IF at[t] < Len(lines[t]) THEN "lookup" ELSE "commit"]
  BY DEF NextLine
<1>4. /\ pc' \in [Txns -> Running \cup Ended \cup {"idle", "check", "edit", "insert"}]
      /\ pc'[t] \in Running /\ \A u \in Txns \ {t} : pc'[u] = pc[u]
      /\ pc'[t] \in Running \ {"commit"} => at[t] < Len(lines[t])
  BY <1>3 DEF RowsFit, Running
<1>5. /\ at' \in [Txns -> Nat \ {0}] /\ at'[t] = at[t] + 1
      /\ \A u \in Txns \ {t} : at'[u] = at[u]
  BY <1>3 DEF RowsFit
<1> QED
  BY <1>2, <1>4, <1>5 DEF RowsFit

LEMMA DeductFits ==
  ASSUME RowsFit, NEW t \in Txns, Deduct(t)
  PROVE  /\ RowsFit' /\ pc[t] \in Running \ {"commit"} /\ pc'[t] \in Running \cup {"failed"}
         /\ \A u \in Txns \ {t} : pc'[u] = pc[u]
<1>1. ASSUME NEW next \in {"product", "unit", "lock", "post"}, pc[t] \in Running \ {"commit"},
             pc' = [pc EXCEPT ![t] = next], UNCHANGED <<status, lines, at, staged>>
      PROVE  /\ RowsFit' /\ pc'[t] \in Running
             /\ \A u \in Txns \ {t} : pc'[u] = pc[u]
  BY <1>1 DEF RowsFit, Running, Ended
<1>2. CASE LookUp(t)
  BY <1>1, <1>2, NextLineFits DEF LookUp, Running, catalogue, rows, RowsFit
<1>3. CASE ReadSoldProduct(t)
  BY <1>1, <1>3, EndRowsFit
  DEF ReadSoldProduct, ReadProduct, CheckProduct, Running, Ended, catalogue, rows
<1>4. CASE ReadUnit(t)
  BY <1>1, <1>4, EndRowsFit DEF ReadUnit, Running, Ended, catalogue, rows
<1>5. CASE Lock(t)
  BY <1>1, <1>5 DEF Lock, Running, catalogue, rows
<1>6. CASE Refuse(t) \/ DuplicateKey(t) \/ DeadlockVictim(t)
  BY <1>6, EndRowsFit DEF Refuse, DuplicateKey, DeadlockVictim, Running, Ended
<1>7. CASE Post(t)
  <2>1. staged' = [u \in Txns |-> staged'[u]]
    BY <1>7 DEF Post, RowsFit
  <2> QED
    BY <1>7, <2>1, NextLineFits DEF Post, Running, catalogue
<1> QED
  BY <1>2, <1>3, <1>4, <1>5, <1>6, <1>7 DEF Deduct

LEMMA DeductType ==
  ASSUME DeskInv, NEW t \in Txns, Deduct(t)
  PROVE  DeskInv'
<1>1. /\ RowsFit' /\ pc[t] \in Running \ {"commit"} /\ pc'[t] \in Running \cup {"failed"}
      /\ \A u \in Txns \ {t} : pc'[u] = pc[u]
  BY DeductFits DEF DeskInv
<1>2. /\ UNCHANGED <<orders, items, created, payments, nextReceipt, seqHolder, recipeStatus>>
      /\ desk' = IF pc'[t] = "failed" THEN Closed(t) ELSE desk
  BY DEF Deduct
<1>3. desk[t] = NoDesk \/ SaleFits(desk[t])
  BY <1>1 DEF DeskInv, DeskFits, Running
<1>4. nextReceipt' \in Nat /\ seqHolder' \in Txns \cup {Free}
  BY <1>2 DEF DeskInv, DeskTypeOK
<1>5. /\ desk' = [u \in Txns |-> desk'[u]] /\ \A u \in Txns \ {t} : desk'[u] = desk[u]
      /\ desk'[t] = IF pc'[t] = "failed" THEN NoDesk ELSE desk[t]
  BY <1>2, ClosedDesk DEF DeskInv, DeskFits
<1> QED
  BY <1>1, <1>2, <1>3, <1>4, <1>5, QuietDesk DEF Running

LEMMA NumberType ==
  ASSUME DeskInv, NEW t \in Txns, AllocateNumber(t) \/ InsertSequence(t)
  PROVE  DeskInv'
<1>1. SaleFits(desk[t]) /\ pc[t] \in {"commit", "insert"}
  BY DEF AllocateNumber, InsertSequence, Deducted, DeskInv, DeskFits, Running, NoDesk, EditFits,
         EditDesk
<1>2. CASE \E n \in Nat : /\ TakeNumber(t, n) /\ UNCHANGED <<catalogue, lines, at, rows>>
                         /\ (pc' = pc \/ pc' = [pc EXCEPT ![t] = "commit"])
  <2>1. PICK n \in Nat : /\ TakeNumber(t, n) /\ UNCHANGED <<catalogue, lines, at, rows>>
                        /\ (pc' = pc \/ pc' = [pc EXCEPT ![t] = "commit"])
    BY <1>2
  <2>2. RowsFit'
    BY <2>1 DEF DeskInv, RowsFit, catalogue, rows, Running, Ended
  <2>3. SaleFits([desk[t] EXCEPT !.number = n])
    BY <1>1 DEF SaleFits, SaleDesk
  <2>4. /\ desk' = [u \in Txns |-> desk'[u]] /\ desk'[t] = [desk[t] EXCEPT !.number = n]
        /\ \A u \in Txns \ {t} : desk'[u] = desk[u] /\ pc'[u] = pc[u]
        /\ pc'[t] \in {"commit", "insert"}
    BY <1>1, <2>1 DEF TakeNumber, DeskInv, DeskFits, RowsFit
  <2>5. /\ UNCHANGED <<orders, items, created, payments, recipeStatus>>
        /\ nextReceipt' \in Nat /\ seqHolder' \in Txns \cup {Free}
    BY <2>1 DEF TakeNumber, DeskInv, DeskTypeOK
  <2> QED
    BY <2>2, <2>3, <2>4, <2>5, QuietDesk DEF Running
<1>3. CASE pc' = [pc EXCEPT ![t] = "insert"] /\ Untouched /\ UNCHANGED deskVars
  <2>1. RowsFit'
    BY <1>3 DEF DeskInv, RowsFit, Untouched, catalogue, rows, Running, Ended
  <2>2. /\ desk' = [u \in Txns |-> desk'[u]] /\ desk'[t] = desk[t] /\ pc'[t] = "insert"
        /\ \A u \in Txns \ {t} : desk'[u] = desk[u] /\ pc'[u] = pc[u]
        /\ UNCHANGED <<orders, items, created, payments, recipeStatus>>
        /\ nextReceipt' \in Nat /\ seqHolder' \in Txns \cup {Free}
    BY <1>3 DEF deskVars, DeskInv, DeskFits, DeskTypeOK, RowsFit
  <2> QED
    BY <1>1, <2>1, <2>2, QuietDesk
<1>4. CASE /\ Rollback(t, "failed") /\ desk' = Closed(t)
           /\ UNCHANGED <<orders, items, created, payments, nextReceipt, seqHolder, recipeStatus>>
  <2>1. RowsFit' /\ pc'[t] = "failed" /\ \A u \in Txns \ {t} : pc'[u] = pc[u]
    BY <1>4, EndRowsFit DEF DeskInv, Ended
  <2>2. nextReceipt' \in Nat /\ seqHolder' \in Txns \cup {Free}
    BY <1>4 DEF DeskInv, DeskTypeOK
  <2> QED
    BY <1>4, <2>1, <2>2, ClosedDesk, QuietDesk DEF DeskInv
<1> QED
  BY <1>2, <1>3, <1>4
  DEF AllocateNumber, InsertSequence, vars, control, Untouched, DeskInv, DeskTypeOK

LEMMA SettleType ==
  ASSUME DeskInv, NEW t \in Txns, NEW fate \in Ended, Settle(t, fate)
  PROVE  DeskInv'
<1> DEFINE d == desk[t]
           pay == [txn |-> t, order |-> d.order, amount |-> d.amount, number |-> d.number,
                   total |-> d.total, items |-> d.items]
<1>1. SaleFits(d) /\ d \in SaleDesk /\ d.number # 0
  <2>1. SaleFits(desk[t])
    BY DEF Settle, Deducted, DeskInv, DeskFits, NoDesk, EditFits, EditDesk
  <2> QED
    BY <2>1 DEF SaleFits, Settle
<1>2. /\ orders' = [orders EXCEPT ![d.order].status = "completed",
                                  ![d.order].receipt = d.number]
      /\ payments' = payments \cup {pay} /\ nextReceipt' = d.number + 1
      /\ seqHolder' = Free /\ desk' = Closed(t)
      /\ UNCHANGED <<items, created, recipeStatus>>
  BY DEF Settle
<1>3. RowsFit' /\ pc'[t] = fate /\ \A u \in Txns \ {t} : pc'[u] = pc[u]
  BY EndRowsFit DEF DeskInv, Settle
<1>4. pay \in PaymentRow /\ d.number \in Nat /\ d.order \in Orders
  BY <1>1 DEF SaleDesk, PaymentRow
<1>5. DeskFits'
  <2>1. /\ desk' = [u \in Txns |-> desk'[u]] /\ desk'[t] = NoDesk
        /\ \A u \in Txns \ {t} : desk'[u] = desk[u] /\ pc'[u] = pc[u]
    BY <1>2, <1>3, ClosedDesk DEF DeskInv
  <2>2. DeskFits /\ created \in Nat /\ created' = created /\ created <= created'
    BY <1>2 DEF DeskInv
  <2>3. pc'[t] \notin {"check", "edit", "insert"}
    BY <1>3 DEF Ended
  <2> QED
    BY <2>1, <2>2, <2>3, DeskFrame
<1> HIDE DEF d, pay
<1>6. orders' \in [Orders -> [status : {"none", "open", "completed"}, total : Nat, receipt : Nat]]
  <2>1. orders \in [Orders -> [status : {"none", "open", "completed"}, total : Nat, receipt : Nat]]
    BY DEF DeskInv, DeskTypeOK
  <2>2. orders' = [orders EXCEPT ![d.order].status = "completed", ![d.order].receipt = d.number]
    BY <1>2
  <2> QED
    BY <1>4, <2>1, <2>2
<1>7. payments' \subseteq PaymentRow
  <2>1. payments \subseteq PaymentRow
    BY DEF DeskInv, DeskTypeOK
  <2> QED
    BY <1>2, <1>4, <2>1
<1>8. DeskTypeOK'
  <2>1. nextReceipt' \in Nat /\ seqHolder' \in Txns \cup {Free}
    BY <1>2, <1>4
  <2>2. UNCHANGED <<items, created, recipeStatus>>
    BY <1>2
  <2> QED
    BY <1>6, <1>7, <2>1, <2>2 DEF DeskInv, DeskTypeOK
<1> QED
  BY <1>2, <1>3, <1>5, <1>8 DEF DeskInv

LEMMA CrashDeskType ==
  ASSUME DeskInv, NEW t \in Txns, CrashDesk(t)
  PROVE  DeskInv'
<1>1. RowsFit' /\ pc'[t] = "unanswered" /\ \A u \in Txns \ {t} : pc'[u] = pc[u]
  BY EndRowsFit DEF DeskInv, CrashDesk, Ended
<1>2. /\ UNCHANGED <<orders, items, created, payments, recipeStatus>> /\ desk' = Closed(t)
      /\ nextReceipt' \in Nat /\ seqHolder' \in Txns \cup {Free}
  BY DEF CrashDesk, DeskInv, DeskTypeOK
<1> QED
  BY <1>1, <1>2, ClosedDesk, QuietDesk DEF DeskInv

LEMMA StockRequestType ==
  ASSUME DeskInv, NEW t \in Txns, StockRequest(t)
  PROVE  DeskInv'
<1>1. UNCHANGED deskVars /\ desk[t] = NoDesk
  BY DEF StockRequest, DeskInv, DeskFits, EditFits, SaleFits, EditDesk, SaleDesk
<1>2. RowsFit' /\ pc'[t] \in Running \cup Ended /\ \A u \in Txns \ {t} : pc'[u] = pc[u]
  <2>1. CASE Commit(t)
    BY <2>1, EndRowsFit DEF DeskInv, Commit, Ended
  <2>2. ASSUME NEW r \in Requests, Begin(t, r)
        PROVE  RowsFit' /\ pc'[t] \in Running \cup Ended /\ \A u \in Txns \ {t} : pc'[u] = pc[u]
    <3>1. r.lines \in Seq(Line) /\ 1 \in DOMAIN r.lines
      BY RequestsAssumption DEF Request
    <3> QED
      BY <2>2, <3>1 DEF Begin, DeskInv, RowsFit, catalogue, rows, Running, Ended
  <2> QED
    BY <2>1, <2>2 DEF StockRequest
<1>3. /\ UNCHANGED <<orders, items, created, payments, recipeStatus>> /\ desk' = desk
      /\ nextReceipt' \in Nat /\ seqHolder' \in Txns \cup {Free}
  BY <1>1 DEF deskVars, DeskInv, DeskTypeOK
<1>4. /\ desk' = [u \in Txns |-> desk'[u]] /\ desk'[t] = NoDesk
      /\ pc'[t] \notin {"check", "edit", "insert"}
  BY <1>1, <1>2, <1>3 DEF DeskInv, DeskFits, Running, Ended
<1> QED
  BY <1>2, <1>3, <1>4, QuietDesk

\* The steps that no session takes.
LEMMA OthersType ==
  ASSUME DeskInv,
         \/ Catalogue /\ UNCHANGED deskVars
         \/ \E o \in Orders : CreateOrder(o)
         \/ \E p \in Products, s \in {"active", "inactive"} : SwitchRecipe(p, s)
         \/ UNCHANGED allVars
  PROVE  DeskInv'
<1>1. /\ UNCHANGED <<desk, pc, lines, at, staged, items, created, payments, nextReceipt, seqHolder>>
  BY DEF Catalogue, CreateProduct, AddProductUnit, UpdateStatus, CreateOrder, SwitchRecipe,
         allVars, vars, control, rows, deskVars
<1>2. RowsFit'
  <2>1. status' \in [Products -> Statuses]
    BY DEF DeskInv, RowsFit, Catalogue, CreateProduct, AddProductUnit, UpdateStatus, CreateOrder,
           SwitchRecipe, allVars, vars, catalogue, Statuses
  <2> QED
    BY <1>1, <2>1 DEF DeskInv, RowsFit
<1>3. DeskFits'
  BY <1>1 DEF DeskInv, DeskFits, EditFits, SaleFits, Read
<1>4. recipeStatus' \in [Products -> {"none", "active", "inactive"}]
      /\ \A p \in Products : recipeStatus'[p] # "none" => Recipe[p] # <<>>
  BY DEF DeskInv, DeskTypeOK, CreateOrder, SwitchRecipe, deskVars, allVars
<1>5. orders' \in [Orders -> [status : {"none", "open", "completed"}, total : Nat, receipt : Nat]]
  BY DEF DeskInv, DeskTypeOK, CreateOrder, SwitchRecipe, deskVars, allVars
<1> QED
  BY <1>1, <1>2, <1>3, <1>4, <1>5 DEF DeskInv, DeskTypeOK, OrderItem, PaymentRow

LEMMA DeskStepType ==
  ASSUME DeskInv, [DeskNext]_allVars
  PROVE  DeskInv'
<1>1. ASSUME NEW t \in Txns, DeskRequest(t) PROVE DeskInv'
  <2> PICK o \in Orders :
        \/ \E pu \in Products \X Units, q \in Quantities : ReadForEdit(t, "add", o, pu, q)
        \/ \E id \in 1 .. created, q \in Quantities : ReadForEdit(t, "update", o, id, q)
        \/ \E id \in 1 .. created : ReadForEdit(t, "remove", o, id, 0)
        \/ \E extra \in Extras : ReadForSale(t, o, extra)
    BY <1>1 DEF DeskRequest
  <2>1. Quantities \subseteq Nat /\ 1 .. created \subseteq 1 .. MaxItems /\ Extras \subseteq Int
    BY DeskAssumption DEF DeskInv
  <2>2. ASSUME NEW pu \in Products \X Units, NEW q \in Quantities, ReadForEdit(t, "add", o, pu, q)
        PROVE  DeskInv'
    BY <2>1, <2>2, ReadForEditType
  <2>3. ASSUME NEW id \in 1 .. created, NEW q \in Quantities, ReadForEdit(t, "update", o, id, q)
        PROVE  DeskInv'
    BY <2>1, <2>3, ReadForEditType
  <2>4. ASSUME NEW id \in 1 .. created, ReadForEdit(t, "remove", o, id, 0)
        PROVE  DeskInv'
    BY <2>1, <2>4, ReadForEditType
  <2>5. ASSUME NEW extra \in Extras, ReadForSale(t, o, extra)
        PROVE  DeskInv'
    BY <2>1, <2>5, ReadForSaleType
  <2> QED
    BY <2>2, <2>3, <2>4, <2>5
<1>2. ASSUME NEW t \in Txns, DeskStep(t) PROVE DeskInv'
  BY <1>2, DeductType, CheckType, SaveEditType, NextItemType, NumberType, SettleType
  DEF DeskStep, Ended
<1> QED
  BY <1>1, <1>2, OthersType, StockRequestType, CrashDeskType, SettleType DEF DeskNext, Ended

\* Every variable of the point of sale keeps its type, every session has in memory what
\* its next statement needs, and the id of a line is never given again (pos/service.py).
THEOREM DeskInductive == DeskSpec => []DeskInv
<1>1. DeskInit => DeskInv
  <2> SUFFICES ASSUME DeskInit PROVE DeskInv
    OBVIOUS
  <2>1. IsFiniteSet({}) /\ MaxItems \in Nat /\ <<>> \in Seq(Line)
    BY FS_EmptySet, DeskAssumption
  <2> QED
    BY <2>1
    DEF DeskInit, Init, DeskInv, DeskTypeOK, RowsFit, DeskFits, Running, Ended, Statuses
<1> QED
  BY <1>1, DeskStepType, PTL DEF DeskSpec

\* The types of the point of sale, as the runs check them.
THEOREM DeskTypeCorrect == DeskSpec => []DeskTypeOK
<1>1. DeskInv => DeskTypeOK
  BY DEF DeskInv
<1> QED
  BY <1>1, DeskInductive, PTL

-----------------------------------------------------------------------------
(* Receipt numbers *)

\* The number a session has taken is the next one, and no other session has one.
NumbersHeld ==
  \A t \in Txns :
    desk[t].op = "sale" /\ desk[t].number # 0 =>
      seqHolder = t /\ desk[t].number = IF nextReceipt = 0 THEN 1 ELSE nextReceipt

NumbersInv == ReceiptNumbersInOrder /\ NumbersHeld

\* A session that takes no number, and gives up the one it has if it ends.
LEMMA QuietNumbers ==
  ASSUME NumbersInv, NEW t \in Txns, UNCHANGED <<payments, nextReceipt>>,
         \A u \in Txns \ {t} : desk'[u] = desk[u],
         \/ desk'[t].op # "sale"
         \/ /\ desk'[t].number = 0 \/ desk'[t].number = desk[t].number
            /\ desk[t].op = "sale" \/ desk'[t].number = 0
            /\ seqHolder' = seqHolder,
         seqHolder' = seqHolder \/ seqHolder = t
  PROVE  NumbersInv'
BY DEF NumbersInv, ReceiptNumbersInOrder, NumbersHeld

LEMMA NumbersStep ==
  ASSUME DeskInv, NumbersInv, [DeskNext]_allVars
  PROVE  NumbersInv'
<1>0. desk = [t \in Txns |-> desk[t]] /\ nextReceipt \in Nat
  BY DEF DeskInv, DeskFits, DeskTypeOK
<1>1. CASE UNCHANGED <<payments, nextReceipt, seqHolder, desk>>
  BY <1>1 DEF NumbersInv, ReceiptNumbersInOrder, NumbersHeld
<1>2. ASSUME NEW t \in Txns, desk' = Closed(t), UNCHANGED <<payments, nextReceipt>>,
             seqHolder' = seqHolder \/ seqHolder = t
      PROVE  NumbersInv'
  BY <1>0, <1>2, QuietNumbers DEF Closed, NoDesk
<1>3. ASSUME NEW t \in Txns, NEW o, NEW next, NEW d, Arrive(t, o, next, d),
             d.op # "sale" \/ d.number = 0
      PROVE  NumbersInv'
  BY <1>0, <1>3, QuietNumbers DEF Arrive, NoDesk
<1>4. ASSUME NEW t \in Txns, DeskRequest(t) PROVE NumbersInv'
  <2>1. ASSUME NEW op, NEW o, NEW what, NEW q, ReadForEdit(t, op, o, what, q) PROVE NumbersInv'
    BY <1>3, <2>1, DeskAssumption DEF ReadForEdit
  <2>2. ASSUME NEW o, NEW extra, ReadForSale(t, o, extra) PROVE NumbersInv'
    BY <1>3, <2>2 DEF ReadForSale
  <2> QED
    BY <1>4, <2>1, <2>2 DEF DeskRequest
<1>5. ASSUME NEW t \in Txns, Check(t) PROVE NumbersInv'
  <2>1. EditFits(desk[t])
    BY <1>5 DEF Check, DeskInv, DeskFits, Running
  <2>2. desk[t].op # "sale"
    BY <2>1 DEF EditFits, EditDesk
  <2>3. /\ UNCHANGED <<payments, nextReceipt, seqHolder>>
        /\ \A u \in Txns \ {t} : desk'[u] = desk[u]
        /\ desk'[t] = NoDesk \/ desk'[t].op = desk[t].op
    BY <1>0, <1>5, <2>1 DEF Check, Closed, EditFits, EditDesk
  <2> QED
    BY <2>2, <2>3, QuietNumbers DEF NoDesk
<1>6. ASSUME NEW t \in Txns, NextItem(t) PROVE NumbersInv'
  <2>1. SaleFits(desk[t]) /\ desk[t].op = "sale"
    BY <1>6 DEF NextItem, DeskInv, DeskFits, NoDesk, EditFits, EditDesk
  <2>2. /\ UNCHANGED <<payments, nextReceipt, seqHolder>>
        /\ \A u \in Txns \ {t} : desk'[u] = desk[u]
        /\ desk'[t].number = desk[t].number
    BY <1>0, <1>6, NextItemDesk DEF NextItem
  <2> QED
    BY <2>1, <2>2, QuietNumbers
<1>7. ASSUME NEW t \in Txns, NEW n \in Nat, TakeNumber(t, n), desk[t].op = "sale",
             n = IF nextReceipt = 0 THEN 1 ELSE nextReceipt
      PROVE  NumbersInv'
  <2>1. \A u \in Txns : ~(desk[u].op = "sale" /\ desk[u].number # 0)
    BY <1>7, ConstantsAssumption DEF TakeNumber, NumbersInv, NumbersHeld
  <2>2. desk[t] \in SaleDesk
    BY <1>7 DEF DeskInv, DeskFits, NoDesk, EditFits, EditDesk, SaleFits
  <2>3. desk'[t].number = n /\ \A u \in Txns \ {t} : desk'[u] = desk[u]
    BY <1>0, <1>7, <2>2 DEF TakeNumber, SaleDesk
  <2> QED
    BY <1>7, <2>1, <2>3 DEF TakeNumber, NumbersInv, NumbersHeld, ReceiptNumbersInOrder
<1>8. ASSUME NEW t \in Txns, NEW fate, Settle(t, fate) PROVE NumbersInv'
  <2> DEFINE k == desk[t].number
             pay == [txn |-> t, order |-> desk[t].order, amount |-> desk[t].amount,
                     number |-> k, total |-> desk[t].total, items |-> desk[t].items]
  <2>1. /\ desk[t].op = "sale" /\ k # 0 /\ payments' = payments \cup {pay}
        /\ nextReceipt' = k + 1 /\ desk' = Closed(t)
    BY <1>8 DEF Settle, Deducted
  <2>2. seqHolder = t /\ k = IF nextReceipt = 0 THEN 1 ELSE nextReceipt
    BY <2>1 DEF NumbersInv, NumbersHeld
  <2>3. \A u \in Txns \ {t} : ~(desk[u].op = "sale" /\ desk[u].number # 0)
    BY <2>2 DEF NumbersInv, NumbersHeld
  <2>4. pay.number = k
    OBVIOUS
  <2> HIDE DEF pay, k
  <2>5. {p.number : p \in payments} = 1 .. nextReceipt - 1
    BY DEF NumbersInv, ReceiptNumbersInOrder
  <2>6. k \in Nat \ {0} /\ 1 .. nextReceipt - 1 = 1 .. k - 1
    BY <1>0, <2>2
  <2>7. {p.number : p \in payments'} = (1 .. k - 1) \cup {k}
    <3>1. {p.number : p \in payments'} = {p.number : p \in payments} \cup {pay.number}
      BY <2>1
    <3> QED
      BY <3>1, <2>4, <2>5, <2>6
  <2>8. (1 .. k - 1) \cup {k} = 1 .. nextReceipt' - 1
    BY <2>1, <2>6
  <2>9. \A p \in payments : p.number # k
    <3>1. \A p \in payments : p.number \in {q.number : q \in payments}
      OBVIOUS
    <3>2. \A p \in payments : p.number \in 1 .. k - 1
      BY <3>1, <2>5, <2>6
    <3>3. k \notin 1 .. k - 1
      BY <2>6
    <3> QED
      BY <3>2, <3>3
  <2>10. \A p, q \in payments' : p.number = q.number => p = q
    BY <2>1, <2>4, <2>9 DEF NumbersInv, ReceiptNumbersInOrder
  <2>11. \A u \in Txns : desk'[u] = IF u = t THEN NoDesk ELSE desk[u]
    BY <1>0, <2>1 DEF Closed
  <2> QED
    BY <2>3, <2>7, <2>8, <2>10, <2>11 DEF NumbersInv, ReceiptNumbersInOrder, NumbersHeld, NoDesk
<1>9. ASSUME NEW t \in Txns, AllocateNumber(t) \/ InsertSequence(t) PROVE NumbersInv'
  <2>1. desk[t].op = "sale"
    BY <1>9 DEF AllocateNumber, InsertSequence, Deducted, DeskInv, DeskFits, NoDesk, SaleFits,
                SaleDesk, Running
  <2> QED
    BY <1>0, <1>1, <1>2, <1>7, <1>9, <2>1 DEF AllocateNumber, InsertSequence, deskVars
<1>10. ASSUME NEW t \in Txns, DeskStep(t) PROVE NumbersInv'
  BY <1>1, <1>2, <1>5, <1>6, <1>8, <1>9, <1>10 DEF DeskStep, Deduct, SaveEdit
<1>11. ASSUME NEW t \in Txns, StockRequest(t) PROVE NumbersInv'
  BY <1>1, <1>11 DEF StockRequest, deskVars
<1>12. ASSUME NEW t \in Txns, CrashDesk(t) PROVE NumbersInv'
  BY <1>2, <1>12 DEF CrashDesk
<1>13. ASSUME \/ Catalogue /\ UNCHANGED deskVars
              \/ \E o \in Orders : CreateOrder(o)
              \/ \E p \in Products, s \in {"active", "inactive"} : SwitchRecipe(p, s)
              \/ UNCHANGED allVars
       PROVE  NumbersInv'
  BY <1>1, <1>13 DEF CreateOrder, SwitchRecipe, deskVars, allVars
<1> QED
  BY <1>4, <1>8, <1>10, <1>11, <1>12, <1>13 DEF DeskNext

\* Receipt numbers are given in order, without gaps or repetitions, whatever sales fail,
\* crash or meet at the first receipt (allocate_receipt_number).
THEOREM ReceiptsInOrder == DeskSpec => []ReceiptNumbersInOrder
<1>1. DeskInit => NumbersInv
  BY DEF DeskInit, NumbersInv, ReceiptNumbersInOrder, NumbersHeld, NoDesk
<1>2. NumbersInv => ReceiptNumbersInOrder
  BY DEF NumbersInv
<1> QED
  BY <1>1, <1>2, NumbersStep, DeskInductive, PTL DEF DeskSpec

-----------------------------------------------------------------------------
(* Movements: what a step does to them *)

Posts == Running \ {"commit"}

KeyIn(k, S) == \E m \in S : m.key = k

\* Only t takes the step.
OnlyOf(t) ==
  \A u \in Txns \ {t} :
    /\ desk'[u] = desk[u] /\ staged'[u] = staged[u] /\ lines'[u] = lines[u]
    /\ at'[u] = at[u] /\ pc'[u] = pc[u]

\* The session of t ends, and what it staged is gone.
Gives(t) ==
  /\ staged'[t] = {} /\ desk'[t] = NoDesk /\ pc'[t] \notin Posts
  /\ UNCHANGED <<ledger, payments>>

\* t moves nothing and remains with the lines it has.
Keeps(t) ==
  /\ UNCHANGED <<ledger, payments>>
  /\ staged'[t] = staged[t] /\ lines'[t] = lines[t] /\ at'[t] = at[t]
  /\ pc'[t] \in Posts => pc[t] \in Posts
  /\ desk'[t].op = "sale" <=> desk[t].op = "sale"
  /\ desk'[t].op = "sale" =>
       /\ desk'[t].items = desk[t].items /\ desk'[t].todo = desk[t].todo
       /\ pc[t] \in Posts => pc'[t] \in Posts

\* A request of its own begins.
Begins(t) ==
  /\ desk[t] = NoDesk /\ desk'[t] = NoDesk /\ staged'[t] = staged[t]
  /\ UNCHANGED <<ledger, payments>>
  /\ \E r \in Requests : lines'[t] = r.lines

\* A sale begins, and nothing is dealt with.
Sells(t) ==
  /\ desk[t] = NoDesk /\ desk'[t].op = "sale" /\ desk'[t].todo = desk'[t].items
  /\ staged'[t] = staged[t] /\ pc'[t] \notin Posts /\ UNCHANGED <<ledger, payments>>

\* A sale comes to the line i of its order.
Takes(t, i) ==
  /\ desk[t].op = "sale" /\ pc[t] = "commit"
  /\ desk'[t].op = "sale" /\ desk'[t].items = desk[t].items /\ desk'[t].todo = desk[t].todo \ {i}
  /\ \E d \in StillHeld(desk[t]) : lines'[t] = Deductions(d, i)
  /\ at'[t] = 1 /\ pc'[t] = "lookup" /\ staged'[t] = staged[t]
  /\ UNCHANGED <<ledger, payments>>

\* The line t is at has moved, now or under its key before.
Moves(t) ==
  /\ pc[t] \in Posts /\ desk'[t] = desk[t] /\ lines'[t] = lines[t] /\ at'[t] = at[t] + 1
  /\ pc'[t] = IF at[t] < Len(lines[t]) THEN "lookup" ELSE "commit"
  /\ staged'[t] = staged[t] \/ staged'[t] = staged[t] \cup {Movement(t)}
  /\ KeyIn(Current(t).key, ledger \cup staged'[t])
  /\ UNCHANGED <<ledger, payments>>

\* The movements of t are published, those of a sale with its payment.
Publishes(t) ==
  /\ ledger' = ledger \cup staged[t] /\ staged'[t] = {} /\ desk'[t] = NoDesk
  /\ pc[t] = "commit" /\ pc'[t] \notin Posts
  /\ \/ desk[t] = NoDesk /\ payments' = payments
     \/ /\ desk[t].op = "sale" /\ desk[t].todo = {}
        /\ payments' = payments \cup
             {[txn |-> t, order |-> desk[t].order, amount |-> desk[t].amount,
               number |-> desk[t].number, total |-> desk[t].total, items |-> desk[t].items]}

Moment(t) ==
  /\ OnlyOf(t)
  /\ \/ Gives(t) \/ Keeps(t) \/ Begins(t) \/ Sells(t) \/ Moves(t) \/ Publishes(t)
     \/ \E i \in desk[t].todo : Takes(t, i)

LEMMA GivesUp ==
  ASSUME DeskInv, NEW t \in Txns, NEW fate \in Ended, Rollback(t, fate), desk' = Closed(t),
         UNCHANGED payments
  PROVE  OnlyOf(t) /\ Gives(t)
<1>1. /\ \A u \in Txns \ {t} : desk'[u] = desk[u]
      /\ desk'[t] = NoDesk
  BY ClosedDesk DEF DeskInv
<1>2. fate \notin Posts
  BY DEF Posts, Ended, Running
<1> QED
  BY <1>1, <1>2 DEF Rollback, OnlyOf, Gives, DeskInv, RowsFit

LEMMA DeductMoment ==
  ASSUME DeskInv, NEW t \in Txns, Deduct(t)
  PROVE  Moment(t)
<1>0. /\ pc[t] \in Posts /\ at[t] \in DOMAIN lines[t] /\ lines[t] \in Seq(Line)
      /\ payments' = payments /\ desk = [u \in Txns |-> desk[u]]
      /\ staged = [u \in Txns |-> staged[u]]
  BY DeductFits DEF DeskInv, RowsFit, DeskFits, Posts, Deduct, NoDesk, EditFits, EditDesk
<1>1. ASSUME Rollback(t, "failed") PROVE Moment(t)
  <2>1. desk' = Closed(t)
    BY <1>1 DEF Rollback, Deduct, DeskInv, RowsFit
  <2> QED
    BY <1>0, <1>1, <2>1, GivesUp DEF Moment, Ended
<1>2. ASSUME NEW next \in Posts, pc' = [pc EXCEPT ![t] = next], UNCHANGED <<lines, at, rows>>
      PROVE  Moment(t)
  <2>1. desk' = desk /\ \A u \in Txns : pc'[u] = IF u = t THEN next ELSE pc[u]
    BY <1>2 DEF Deduct, DeskInv, RowsFit, Posts, Running
  <2> QED
    BY <1>0, <1>2, <2>1 DEF Moment, OnlyOf, Keeps, rows
<1>3. ASSUME NextLine(t), UNCHANGED <<lines, ledger>>,
             staged' = staged \/ staged' = [staged EXCEPT ![t] = @ \cup {Movement(t)}],
             KeyIn(Current(t).key, ledger \cup staged'[t])
      PROVE  Moment(t)
  <2>1. /\ pc'[t] = IF at[t] < Len(lines[t]) THEN "lookup" ELSE "commit"
        /\ at'[t] = at[t] + 1 /\ \A u \in Txns \ {t} : at'[u] = at[u] /\ pc'[u] = pc[u]
    BY <1>3 DEF NextLine, DeskInv, RowsFit
  <2>2. desk' = desk
    BY <2>1 DEF Deduct
  <2>3. staged'[t] = staged[t] \/ staged'[t] = staged[t] \cup {Movement(t)}
    BY <1>0, <1>3 DEF RowsFit
  <2>4. \A u \in Txns \ {t} : staged'[u] = staged[u]
    BY <1>0, <1>3 DEF RowsFit
  <2> QED
    BY <1>0, <1>3, <2>1, <2>2, <2>3, <2>4 DEF Moment, OnlyOf, Moves
<1>4. CASE LookUp(t)
  <2>1. HasKey(Current(t).key, ledger \cup staged[t])
          => KeyIn(Current(t).key, ledger \cup staged[t])
    BY DEF HasKey, KeyIn
  <2> QED
    BY <1>2, <1>3, <1>4, <2>1 DEF LookUp, Posts, Running, rows
<1>5. CASE ReadSoldProduct(t)
  BY <1>1, <1>2, <1>5 DEF ReadSoldProduct, ReadProduct, CheckProduct, Posts, Running
<1>6. CASE ReadUnit(t)
  BY <1>1, <1>2, <1>6 DEF ReadUnit, Posts, Running
<1>7. CASE Lock(t)
  BY <1>2, <1>7 DEF Lock, Posts, Running
<1>8. CASE Refuse(t) \/ DuplicateKey(t) \/ DeadlockVictim(t)
  BY <1>1, <1>8 DEF Refuse, DuplicateKey, DeadlockVictim
<1>9. CASE Post(t)
  <2>1. Movement(t) \in staged'[t] /\ Movement(t).key = Current(t).key
    BY <1>0, <1>9 DEF Post, RowsFit, Movement
  <2>2. KeyIn(Current(t).key, ledger \cup staged'[t])
    BY <2>1 DEF KeyIn
  <2> QED
    BY <1>3, <1>9, <2>2 DEF Post
<1> QED
  BY <1>4, <1>5, <1>6, <1>7, <1>8, <1>9 DEF Deduct

\* Every step is one of these moments of a session, or leaves what has moved alone.
LEMMA MomentOfStep ==
  ASSUME DeskInv, [DeskNext]_allVars
  PROVE  \/ UNCHANGED <<ledger, staged, payments, desk, pc, lines, at>>
         \/ \E t \in Txns : Moment(t)
<1> USE DEF OnlyOf
<1>0. /\ pc = [u \in Txns |-> pc[u]] /\ desk = [u \in Txns |-> desk[u]]
      /\ lines = [u \in Txns |-> lines[u]] /\ at = [u \in Txns |-> at[u]]
      /\ staged = [u \in Txns |-> staged[u]]
  BY DEF DeskInv, RowsFit, DeskFits
<1>1. ASSUME NEW t \in Txns, DeskRequest(t) PROVE Moment(t)
  <2>1. desk[t] = NoDesk
    BY <1>1 DEF DeskRequest, ReadForEdit, ReadForSale, Arrive, DeskInv, DeskFits, Running
  <2>2. ASSUME NEW op \in {"add", "update", "remove"}, NEW o, NEW what, NEW q,
               ReadForEdit(t, op, o, what, q)
        PROVE  Moment(t)
    <3>1. desk'[t].op # "sale" /\ desk[t].op # "sale" /\ \A u \in Txns \ {t} : desk'[u] = desk[u]
      BY <1>0, <2>1, <2>2 DEF ReadForEdit, Arrive, NoDesk
    <3>2. pc'[t] \notin Posts /\ \A u \in Txns \ {t} : pc'[u] = pc[u]
      BY <1>0, <2>2 DEF ReadForEdit, Arrive, Posts, Running
    <3> QED
      BY <2>2, <3>1, <3>2 DEF ReadForEdit, Arrive, Untouched, rows, Moment, Keeps
  <2>3. ASSUME NEW o, NEW extra, ReadForSale(t, o, extra) PROVE Moment(t)
    <3>1. /\ UNCHANGED <<ledger, staged, lines, at, payments>>
          /\ \A u \in Txns \ {t} : desk'[u] = desk[u] /\ pc'[u] = pc[u]
          /\ pc'[t] \notin Posts
      BY <1>0, <2>3 DEF ReadForSale, Arrive, rows, Posts, Running
    <3>2. desk'[t] = NoDesk \/ (desk'[t].op = "sale" /\ desk'[t].todo = desk'[t].items)
      BY <1>0, <2>3 DEF ReadForSale, Arrive
    <3>3. NoDesk.op # "sale"
      BY DEF NoDesk
    <3> QED
      BY <2>1, <3>1, <3>2, <3>3 DEF Moment, Keeps, Sells
  <2> QED
    BY <1>1, <2>2, <2>3 DEF DeskRequest
<1>2. ASSUME NEW t \in Txns, Check(t) \/ SaveEdit(t) PROVE Moment(t)
  <2>1. EditFits(desk[t])
    BY <1>2 DEF Check, SaveEdit, DeskInv, DeskFits, Running
  <2>2. desk[t].op # "sale" /\ desk[t] \in EditDesk
    BY <2>1 DEF EditFits, EditDesk
  <2>3. UNCHANGED <<ledger, staged, lines, at, payments>>
    BY <1>2 DEF Check, SaveEdit, Untouched, rows
  <2>4. /\ \A u \in Txns \ {t} : desk'[u] = desk[u]
        /\ desk'[t] = NoDesk \/ desk'[t].op = desk[t].op
    BY <1>0, <1>2, <2>2 DEF Check, SaveEdit, Closed, EditDesk
  <2>5. pc'[t] \notin Posts /\ \A u \in Txns \ {t} : pc'[u] = pc[u]
    BY <1>0, <1>2 DEF Check, SaveEdit, Posts, Running
  <2> QED
    BY <2>2, <2>3, <2>4, <2>5 DEF Moment, Keeps, NoDesk
<1>3. ASSUME NEW t \in Txns, NextItem(t) PROVE Moment(t)
  <2>1. /\ pc[t] = "commit" /\ SaleFits(desk[t]) /\ SaleFits(desk'[t])
        /\ desk'[t].items = desk[t].items /\ desk' = [desk EXCEPT ![t] = desk'[t]]
    BY <1>3, NextItemDesk
  <2>2. PICK i \in desk[t].todo, d \in StillHeld(desk[t]) :
          /\ lines' = [lines EXCEPT ![t] = Deductions(d, i)]
          /\ desk'[t].todo = desk[t].todo \ {i}
    BY <1>3, NextItemDesk
  <2>3. desk[t].op = "sale" /\ desk'[t].op = "sale" /\ \A u \in Txns \ {t} : desk'[u] = desk[u]
    BY <1>0, <2>1 DEF SaleFits, SaleDesk
  <2>4. /\ lines'[t] = Deductions(d, i) /\ at'[t] = 1 /\ pc'[t] = "lookup"
        /\ \A u \in Txns \ {t} : lines'[u] = lines[u] /\ at'[u] = at[u] /\ pc'[u] = pc[u]
    BY <1>0, <1>3, <2>2 DEF NextItem
  <2>5. UNCHANGED <<ledger, staged, payments>>
    BY <1>3 DEF NextItem, rows
  <2>6. Takes(t, i)
    BY <2>1, <2>2, <2>3, <2>4, <2>5 DEF Takes
  <2> QED
    BY <2>3, <2>4, <2>5, <2>6 DEF Moment
<1>4. ASSUME NEW t \in Txns, AllocateNumber(t) \/ InsertSequence(t) PROVE Moment(t)
  <2>1. SaleFits(desk[t]) /\ pc[t] \in {"commit", "insert"}
    BY <1>4 DEF AllocateNumber, InsertSequence, Deducted, DeskInv, DeskFits, Running, NoDesk,
                EditFits, EditDesk
  <2>2. desk[t] \in SaleDesk
    BY <2>1 DEF SaleFits
  <2>3. CASE Rollback(t, "failed") /\ desk' = Closed(t) /\ payments' = payments
    BY <2>3, GivesUp DEF Moment, Ended
  <2>4. ASSUME NEW n, TakeNumber(t, n)
        PROVE  /\ payments' = payments /\ \A u \in Txns \ {t} : desk'[u] = desk[u]
               /\ desk'[t].op = desk[t].op /\ desk'[t].items = desk[t].items
               /\ desk'[t].todo = desk[t].todo
    BY <1>0, <2>2, <2>4 DEF TakeNumber, SaleDesk
  <2>5. ASSUME UNCHANGED <<ledger, staged, lines, at>>,
               (desk' = desk /\ payments' = payments) \/ \E n : TakeNumber(t, n),
               \/ pc' = pc \/ pc' = [pc EXCEPT ![t] = "insert"]
               \/ pc' = [pc EXCEPT ![t] = "commit"]
        PROVE  Moment(t)
    <3>1. /\ payments' = payments /\ \A u \in Txns \ {t} : desk'[u] = desk[u]
          /\ desk'[t].op = desk[t].op /\ desk'[t].items = desk[t].items
          /\ desk'[t].todo = desk[t].todo
      BY <2>4, <2>5
    <3>2. pc'[t] \notin Posts /\ pc[t] \notin Posts /\ \A u \in Txns \ {t} : pc'[u] = pc[u]
      BY <1>0, <2>1, <2>5 DEF Posts, Running
    <3> QED
      BY <2>2, <2>5, <3>1, <3>2 DEF Moment, Keeps, SaleDesk
  <2> QED
    BY <1>4, <2>3, <2>5
    DEF AllocateNumber, InsertSequence, vars, control, rows, Untouched, deskVars
<1>5. ASSUME NEW t \in Txns, NEW fate \in Ended, Settle(t, fate) PROVE Moment(t)
  <2>1. /\ desk' = Closed(t) /\ Publish(t, fate) /\ desk[t].op = "sale" /\ desk[t].todo = {}
        /\ payments' = payments \cup
             {[txn |-> t, order |-> desk[t].order, amount |-> desk[t].amount,
               number |-> desk[t].number, total |-> desk[t].total, items |-> desk[t].items]}
    BY <1>5 DEF Settle, Deducted
  <2>2. desk'[t] = NoDesk /\ \A u \in Txns \ {t} : desk'[u] = desk[u]
    BY <2>1, ClosedDesk DEF DeskInv
  <2>3. fate \notin Posts
    BY DEF Ended, Posts, Running
  <2> QED
    BY <1>0, <2>1, <2>2, <2>3 DEF Publish, Moment, Publishes
<1>6. ASSUME NEW t \in Txns, CrashDesk(t) PROVE Moment(t)
  BY <1>6, GivesUp DEF CrashDesk, Moment, Ended
<1>7. ASSUME NEW t \in Txns, StockRequest(t) PROVE Moment(t)
  <2>1. desk[t] = NoDesk /\ desk' = desk /\ payments' = payments
    BY <1>7 DEF StockRequest, deskVars, DeskInv, DeskFits, EditFits, SaleFits, EditDesk, SaleDesk
  <2>2. CASE Commit(t)
    <3>1. "done" \notin Posts
      BY DEF Posts, Running
    <3> QED
      BY <1>0, <2>1, <2>2, <3>1 DEF Commit, Publish, Moment, Publishes
  <2>3. ASSUME NEW r \in Requests, Begin(t, r) PROVE Moment(t)
    BY <1>0, <2>1, <2>3 DEF Begin, rows, Moment, Begins
  <2> QED
    BY <1>7, <2>2, <2>3 DEF StockRequest
<1>8. ASSUME NEW t \in Txns, DeskStep(t) PROVE Moment(t)
  BY <1>2, <1>3, <1>4, <1>5, <1>8, DeductMoment DEF DeskStep, Ended
<1>9. ASSUME \/ Catalogue /\ UNCHANGED deskVars
             \/ \E o \in Orders : CreateOrder(o)
             \/ \E p \in Products, s \in {"active", "inactive"} : SwitchRecipe(p, s)
             \/ UNCHANGED allVars
      PROVE  UNCHANGED <<ledger, staged, payments, desk, pc, lines, at>>
  BY <1>9 DEF Catalogue, CreateProduct, AddProductUnit, UpdateStatus, CreateOrder, SwitchRecipe,
              allVars, vars, control, rows, deskVars
<1> QED
  BY <1>1, <1>5, <1>6, <1>7, <1>8, <1>9 DEF DeskNext, Ended

-----------------------------------------------------------------------------
(* What is paid has moved *)

\* Every deduction of the line i of an order has its movement in S.
MovedIn(i, S) ==
  \/ KeyIn(SaleKey(i.id, i.product), S)
  \/ /\ Recipe[i.product] # <<>>
     /\ \A n \in DOMAIN Recipe[i.product] : KeyIn(SaleKey(i.id, Recipe[i.product][n].product), S)

\* The lines t is posting are the deductions of the line i.
Posting(t, i) ==
  \/ DOMAIN lines[t] = {1} /\ lines[t][1].key = SaleKey(i.id, i.product)
  \/ /\ Recipe[i.product] # <<>> /\ DOMAIN lines[t] = DOMAIN Recipe[i.product]
     /\ \A n \in DOMAIN Recipe[i.product] :
          lines[t][n].key = SaleKey(i.id, Recipe[i.product][n].product)

\* A line that t has dealt with has moved, but for the one t is posting, which has
\* moved as far as it is posted.
Dealt(t, i) ==
  \/ MovedIn(i, ledger \cup staged[t])
  \/ /\ pc[t] \in Posts /\ Posting(t, i)
     /\ \A n \in DOMAIN lines[t] : n < at[t] => KeyIn(lines[t][n].key, ledger \cup staged[t])

SoldMoved ==
  \A t \in Txns : desk[t].op = "sale" => \A i \in desk[t].items \ desk[t].todo : Dealt(t, i)

SoldInv == SoldMoved /\ PaidLinesMoved

LEMMA MoreMoved ==
  ASSUME NEW S, NEW T, S \subseteq T
  PROVE  /\ \A k : KeyIn(k, S) => KeyIn(k, T)
         /\ \A i : MovedIn(i, S) => MovedIn(i, T)
BY DEF KeyIn, MovedIn

LEMMA PaidByLedger ==
  PaidLinesMoved <=> \A p \in payments : \A i \in p.items : MovedIn(i, ledger)
BY DEF PaidLinesMoved, MovedIn, Keyed, KeyIn

LEMMA SoldMoment ==
  ASSUME DeskInv, SoldInv, NEW t \in Txns, Moment(t)
  PROVE  SoldInv'
<1>0. OnlyOf(t)
  BY DEF Moment
<1>1. ledger \subseteq ledger'
  BY DEF Moment, Gives, Keeps, Begins, Sells, Moves, Takes, Publishes
<1>2. \A p \in payments : \A i \in p.items : MovedIn(i, ledger')
  BY <1>1, MoreMoved, PaidByLedger DEF SoldInv
<1>3. ASSUME NEW u \in Txns \ {t}, NEW i, Dealt(u, i) PROVE Dealt(u, i)'
  <2>1. ledger \cup staged[u] \subseteq ledger' \cup staged'[u]
    BY <1>0, <1>1 DEF OnlyOf
  <2>2. /\ MovedIn(i, ledger \cup staged[u]) => MovedIn(i, ledger' \cup staged'[u])
        /\ \A k : KeyIn(k, ledger \cup staged[u]) => KeyIn(k, ledger' \cup staged'[u])
    BY <2>1, MoreMoved
  <2>3. Posting(u, i) => Posting(u, i)'
    BY <1>0 DEF Posting, OnlyOf
  <2>4. pc'[u] = pc[u] /\ at'[u] = at[u] /\ lines'[u] = lines[u]
    BY <1>0 DEF OnlyOf
  <2> QED
    BY <1>3, <2>2, <2>3, <2>4 DEF Dealt, MovedIn, KeyIn
<1>4. SUFFICES ASSUME desk'[t].op = "sale", NEW i \in desk'[t].items \ desk'[t].todo
               PROVE  Dealt(t, i)'
  <2>1. ASSUME \A i \in desk'[t].items \ desk'[t].todo : desk'[t].op = "sale" => Dealt(t, i)'
        PROVE  SoldMoved'
    BY <1>0, <1>3, <2>1 DEF SoldInv, SoldMoved, OnlyOf
  <2>2. \A p \in payments' : \A i \in p.items : MovedIn(i, ledger')
    <3>1. CASE payments' = payments
      BY <1>2, <3>1
    <3>2. CASE payments' # payments
      <4>1. Publishes(t) /\ desk[t].op = "sale" /\ desk[t].todo = {}
        BY <3>2 DEF Moment, Gives, Keeps, Begins, Sells, Moves, Takes, Publishes
      <4>2. \A i \in desk[t].items : MovedIn(i, ledger')
        BY <4>1 DEF Publishes, SoldInv, SoldMoved, Dealt, Posts
      <4> DEFINE pay == [txn |-> t, order |-> desk[t].order, amount |-> desk[t].amount,
                         number |-> desk[t].number, total |-> desk[t].total,
                         items |-> desk[t].items]
      <4>3. payments' = payments \cup {pay}
        BY <3>2, <4>1 DEF Publishes
      <4>4. pay.items = desk[t].items
        OBVIOUS
      <4> HIDE DEF pay
      <4> QED
        BY <1>2, <4>2, <4>3, <4>4
    <3> QED
      BY <3>1, <3>2
  <2> QED
    BY <2>1, <2>2, PaidByLedger DEF SoldInv, PaidLinesMoved, MovedIn, Keyed, KeyIn
<1>5. CASE Keeps(t)
  <2>1. Dealt(t, i)
    BY <1>4, <1>5 DEF Keeps, SoldInv, SoldMoved
  <2>2. pc[t] \in Posts => pc'[t] \in Posts
    BY <1>4, <1>5 DEF Keeps
  <2> QED
    BY <1>5, <2>1, <2>2 DEF Keeps, Dealt, Posting, MovedIn, KeyIn
<1>6. ASSUME NEW j \in desk[t].todo, Takes(t, j) PROVE Dealt(t, i)'
  <2>1. CASE i # j
    <3>1. Dealt(t, i) /\ pc[t] \notin Posts
      BY <1>4, <1>6, <2>1 DEF Takes, SoldInv, SoldMoved, Posts
    <3> QED
      BY <1>6, <3>1 DEF Takes, Dealt, MovedIn, KeyIn
  <2>2. CASE i = j
    <3>0. PICK d \in StillHeld(desk[t]) : lines'[t] = Deductions(d, i)
      BY <1>6, <2>2 DEF Takes
    <3>1. SaleFits(d) /\ i \in d.todo
      <4>1. SaleFits(desk[t])
        BY <1>6 DEF Takes, DeskInv, DeskFits, NoDesk, EditFits, EditDesk
      <4> QED
        BY <1>6, <2>2, <4>1, ForgottenFits
    <3>2. RecipeRead(d, i.product) = "active" => Recipe[i.product] # <<>>
      BY <3>1, DeductionLines
    <3>3. Posting(t, i)'
      <4>1. lines'[t] = Deductions(d, i)
        BY <3>0
      <4>2. CASE RecipeRead(d, i.product) # "active"
        <5>1. DOMAIN lines'[t] = {1} /\ lines'[t][1].key = SaleKey(i.id, i.product)
          BY <4>1, <4>2, DeductionKeys
        <5> QED
          BY <5>1 DEF Posting
      <4>3. CASE RecipeRead(d, i.product) = "active"
        <5>1. /\ DOMAIN lines'[t] = DOMAIN Recipe[i.product]
              /\ \A n \in DOMAIN Recipe[i.product] :
                   lines'[t][n].key = SaleKey(i.id, Recipe[i.product][n].product)
          BY <4>1, <4>3, DeductionKeys
        <5> QED
          BY <3>2, <4>3, <5>1 DEF Posting
      <4> QED
        BY <4>2, <4>3
    <3>4. \A n \in DOMAIN lines'[t] : ~(n < at'[t])
      <4>1. lines'[t] \in Seq(Line) /\ at'[t] = 1
        BY <1>6, <3>0, <3>1, DeductionLines DEF Takes
      <4> QED
        BY <4>1
    <3>5. pc'[t] \in Posts
      BY <1>6 DEF Takes, Posts, Running
    <3> QED
      BY <3>3, <3>4, <3>5 DEF Dealt
  <2> QED
    BY <2>1, <2>2
<1>7. CASE Moves(t)
  <2>1. Dealt(t, i)
    BY <1>4, <1>7 DEF Moves, SoldInv, SoldMoved
  <2>2. ledger \cup staged[t] \subseteq ledger' \cup staged'[t] /\ ledger' = ledger
    BY <1>7 DEF Moves
  <2>3. CASE MovedIn(i, ledger \cup staged[t])
    <3>1. MovedIn(i, ledger' \cup staged'[t])
      BY <2>2, <2>3, MoreMoved
    <3> QED
      BY <3>1 DEF Dealt, MovedIn, KeyIn
  <2>4. CASE /\ pc[t] \in Posts /\ Posting(t, i)
             /\ \A n \in DOMAIN lines[t] :
                  n < at[t] => KeyIn(lines[t][n].key, ledger \cup staged[t])
    <3>1. /\ at[t] \in DOMAIN lines[t] /\ Len(lines[t]) \in Nat
          /\ DOMAIN lines[t] = 1 .. Len(lines[t])
      BY <2>4 DEF DeskInv, RowsFit, Posts
    <3>2. /\ lines'[t] = lines[t] /\ at'[t] = at[t] + 1
          /\ KeyIn(lines[t][at[t]].key, ledger \cup staged'[t])
          /\ pc'[t] = IF at[t] < Len(lines[t]) THEN "lookup" ELSE "commit"
      BY <1>7 DEF Moves, Current
    <3>3. \A n \in DOMAIN lines[t] :
            n <= at[t] => KeyIn(lines[t][n].key, ledger' \cup staged'[t])
      <4> SUFFICES ASSUME NEW n \in DOMAIN lines[t], n <= at[t]
                   PROVE  KeyIn(lines[t][n].key, ledger' \cup staged'[t])
        OBVIOUS
      <4>1. CASE n = at[t]
        BY <2>2, <3>2, <4>1
      <4>2. CASE n < at[t]
        BY <2>2, <2>4, <4>2, MoreMoved
      <4> QED
        BY <3>1, <4>1, <4>2
    <3>4. CASE at[t] < Len(lines[t])
      <4>1. Posting(t, i)'
        BY <2>4, <3>2 DEF Posting
      <4>2. \A n \in DOMAIN lines'[t] :
              n < at'[t] => KeyIn(lines'[t][n].key, ledger' \cup staged'[t])
        <5>1. \A n \in DOMAIN lines[t] : n < at[t] + 1 => n <= at[t]
          BY <3>1
        <5> QED
          BY <3>2, <3>3, <5>1
      <4>3. pc'[t] \in Posts
        BY <3>2, <3>4 DEF Posts, Running
      <4> QED
        BY <4>1, <4>2, <4>3 DEF Dealt, KeyIn
    <3>5. CASE ~(at[t] < Len(lines[t]))
      <4>1. \A n \in DOMAIN lines[t] : KeyIn(lines[t][n].key, ledger' \cup staged'[t])
        <5>1. \A n \in DOMAIN lines[t] : n <= at[t]
          BY <3>1, <3>5
        <5> QED
          BY <3>3, <5>1
      <4>2. MovedIn(i, ledger' \cup staged'[t])
        BY <2>4, <4>1 DEF Posting, MovedIn
      <4> QED
        BY <4>2 DEF Dealt, MovedIn, KeyIn
    <3> QED
      BY <3>4, <3>5
  <2> QED
    BY <2>1, <2>3, <2>4 DEF Dealt
<1> QED
  BY <1>4, <1>5, <1>6, <1>7 DEF Moment, Gives, Begins, Sells, Publishes, NoDesk

\* Every line a payment was taken for has moved its product or all its ingredients
\* (complete_sale, consume_for_sale_line).
THEOREM PaidHasMoved == DeskSpec => []PaidLinesMoved
<1>1. DeskInit => SoldInv
  BY DEF DeskInit, SoldInv, SoldMoved, PaidLinesMoved, NoDesk
<1>2. ASSUME DeskInv, SoldInv, [DeskNext]_allVars PROVE SoldInv'
  <2>1. CASE UNCHANGED <<ledger, staged, payments, desk, pc, lines, at>>
    BY <1>2, <2>1 DEF SoldInv, SoldMoved, PaidLinesMoved, Dealt, MovedIn, Posting, Keyed, KeyIn
  <2> QED
    BY <1>2, <2>1, MomentOfStep, SoldMoment
<1>3. SoldInv => PaidLinesMoved
  BY DEF SoldInv
<1> QED
  BY <1>1, <1>2, <1>3, DeskInductive, PTL DEF DeskSpec

-----------------------------------------------------------------------------
(* Orders handled one request at a time *)

\* What a session remembers of its order is what is committed, and the order is open.
Fresh(d) ==
  /\ Open(d.order) /\ d.items = ItemsOf(d.order) /\ d.total = orders[d.order].total
  /\ d.op # "sale" => d.found \subseteq d.items

\* An order has at most one session, which knows it as it is.
Alone ==
  \A t \in Txns : desk[t].op # "none" =>
    /\ Fresh(desk[t])
    /\ \A u \in Txns : desk[u].op # "none" /\ desk[u].order = desk[t].order => u = t

OrdersInv == Alone /\ TotalIsSumOfLines

\* The lines of an order after an edit that knew them: what the session had in memory.
LEMMA EditedLines ==
  ASSUME DeskInv, NEW d, EditFits(d), d.items = ItemsOf(d.order), d.found \subseteq d.items,
         NEW new, new = InMemory(d) \ (d.items \cup Updated(d)),
         created + Cardinality(new) <= MaxItems,
         items' = {i \in items : \A j \in (d.items \ InMemory(d)) \cup Updated(d) : j.id # i.id}
                    \cup Updated(d) \cup new
  PROVE  /\ ItemsOf(d.order)' = InMemory(d)
         /\ \A o \in Orders \ {d.order} : ItemsOf(o)' = ItemsOf(o)
<1> DEFINE gone == d.items \ InMemory(d)
           upd == Updated(d)
           T == Target(d)
           rew == {Rewritten(d, i) : i \in T}
           old == {i \in items : \A j \in gone \cup upd : j.id # i.id}
<1>0. created \in Nat /\ MaxItems \in Nat /\ d \in EditDesk
  BY DeskAssumption DEF DeskInv, EditFits
<1>1. T \subseteq d.items
  BY <1>0 DEF Target, EditDesk
<1>2. \A i \in T : Rewritten(d, i).id = i.id /\ Rewritten(d, i).order = i.order
  BY <1>0, <1>1, RewrittenLine DEF EditFits, Read
<1>3. /\ \A i, j \in items : i.id = j.id => i = j
      /\ d.items \subseteq items /\ \A i \in items : i \in d.items <=> i.order = d.order
  BY DEF DeskInv, DeskTypeOK, ItemsOf
<1>4. /\ \A i \in upd : i.order = d.order
      /\ \/ new = {}
         \/ d.op = "add" /\ T = {} /\ new = {NewItem(d)} /\ NewItem(d).order = d.order
  BY <1>0, SavedLines DEF Read
<1>5. \A j \in gone \cup upd : \E k \in d.items : k.id = j.id
  <2>1. upd \subseteq rew
    BY DEF Updated
  <2> QED
    BY <1>1, <1>2, <2>1
<1>6. ItemsOf(d.order)' = (old \cap d.items) \cup upd \cup new
  BY <1>3, <1>4 DEF ItemsOf
<1>7. \A o \in Orders \ {d.order} : ItemsOf(o)' = ItemsOf(o)
  <2> SUFFICES ASSUME NEW o \in Orders \ {d.order} PROVE ItemsOf(o)' = ItemsOf(o)
    OBVIOUS
  <2>1. \A i \in ItemsOf(o) : i \in old
    BY <1>3, <1>5 DEF ItemsOf
  <2> QED
    BY <1>4, <2>1 DEF ItemsOf
<1>8. CASE d.op = "remove"
  <2>1. InMemory(d) = d.items \ T /\ upd = {} /\ gone = T
    BY <1>1, <1>8 DEF InMemory, Updated
  <2>2. old \cap d.items = d.items \ T /\ new = {}
    BY <1>1, <1>3, <2>1
  <2> QED
    BY <1>6, <1>7, <2>1, <2>2
<1>9. CASE d.op = "add" /\ T = {}
  <2>1. InMemory(d) = d.items \cup {NewItem(d)} /\ upd = {} /\ gone = {}
    BY <1>9 DEF InMemory, Updated
  <2>2. old \cap d.items = d.items /\ d.items \cup new = InMemory(d)
    BY <1>3, <2>1
  <2> QED
    BY <1>6, <1>7, <2>1, <2>2
<1>10. CASE d.op # "remove" /\ ~(d.op = "add" /\ T = {})
  <2>1. InMemory(d) = (d.items \ T) \cup rew
    <3>1. InMemory(d) = (d.items \ T) \cup {Rewritten(d, i) : i \in T \cap d.items}
      BY <1>10 DEF InMemory
    <3>2. T \cap d.items = T
      BY <1>1
    <3> QED
      BY <3>1, <3>2
  <2>2. upd = rew \ T /\ new = {}
    BY <1>4, <1>10 DEF Updated
  <2>3. \A i \in T : Rewritten(d, i) \in T => Rewritten(d, i) = i
    BY <1>1, <1>2, <1>3
  <2> HIDE DEF T
  <2>4. \A i \in d.items \ T : i \in old
    BY <1>1, <1>2, <1>3, <2>1, <2>2
  <2>5. \A i \in T : Rewritten(d, i) \in T => i \in old /\ i \in rew
    <3> SUFFICES ASSUME NEW i \in T, Rewritten(d, i) \in T PROVE i \in old /\ i \in rew
      OBVIOUS
    <3>1. i = Rewritten(d, i) /\ i \in rew /\ i \in items
      BY <1>1, <1>3, <2>3
    <3>2. \A j \in gone : j.id # i.id
      BY <1>1, <1>3, <2>1, <3>1
    <3>3. \A j \in upd : j.id # i.id
      BY <1>1, <1>2, <1>3, <2>2, <3>1
    <3> QED
      BY <3>1, <3>2, <3>3
  <2>6. \A i \in T \cap old : i \in rew
    BY <1>1, <1>2, <1>3, <2>2, <2>3
  <2>7. (old \cap d.items) \cup upd = (d.items \ T) \cup rew
    <3>1. \A i \in T : Rewritten(d, i) \in (old \cap d.items) \cup upd
      BY <1>1, <2>2, <2>3, <2>5
    <3>2. rew \subseteq (old \cap d.items) \cup upd
      BY <3>1
    <3> QED
      BY <2>2, <2>4, <2>6, <3>2
  <2> QED
    BY <1>6, <1>7, <2>1, <2>2, <2>7
<1> QED
  BY <1>8, <1>9, <1>10

\* The request on one order leaves the others alone.
OnlyOrder(o) ==
  \A q \in Orders \ {o} :
    orders'[q] = orders[q] /\ ItemsOf(q)' = ItemsOf(q) /\ PaymentsOf(q)' = PaymentsOf(q)

\* What a step does to the orders: nothing, while a session goes on or ends, or a new one
\* finds its order as it is; or the session of an open order writes to it and ends.
Reads(t) ==
  /\ UNCHANGED <<orders, items, payments>>
  /\ \A u \in Txns \ {t} : desk'[u] = desk[u]
  /\ \/ desk'[t].op = "none"
     \/ /\ desk[t].op # "none" /\ desk'[t].op = desk[t].op /\ desk'[t].order = desk[t].order
        /\ desk'[t].items = desk[t].items /\ desk'[t].total = desk[t].total
        /\ desk'[t].op # "sale" => desk'[t].found \subseteq desk'[t].items
     \/ Fresh(desk'[t]) /\ ~Busy(desk'[t].order)

Writes(t, o) ==
  /\ desk[t].op # "none" /\ desk[t].order = o /\ desk'[t].op = "none"
  /\ \A u \in Txns \ {t} : desk'[u] = desk[u]
  /\ OnlyOrder(o)
  /\ orders'[o].total = TotalOf(ItemsOf(o)')
  /\ orders'[o].status = "completed" => ItemsOf(o)' = ItemsOf(o)

Creates ==
  /\ UNCHANGED <<desk, items, payments>>
  /\ \A o \in Orders : /\ orders'[o].total = orders[o].total
                       /\ orders'[o] = orders[o] \/ orders[o].status = "none"

LEMMA WhatFound ==
  ASSUME DeskInv, NEW d, EditFits(d), d.items = ItemsOf(d.order)
  PROVE  Found(d) \subseteq d.items
BY DEF Found, ItemsOf, DeskInv, DeskTypeOK

LEMMA OrdersMoment ==
  ASSUME OneAtATime, DeskInv, OrdersInv, [DeskNext]_allVars
  PROVE  Creates \/ \E t \in Txns : Reads(t) \/ \E o \in Orders : Writes(t, o)
<1>0. desk = [u \in Txns |-> desk[u]] /\ NoDesk.op = "none"
  BY DEF DeskInv, DeskFits, NoDesk
<1>1. ASSUME NEW t \in Txns, desk' = Closed(t), UNCHANGED <<orders, items, payments>>
      PROVE  Reads(t)
  BY <1>0, <1>1, ClosedDesk DEF Reads, DeskInv
<1>2. ASSUME NEW t \in Txns, desk' = desk, UNCHANGED <<orders, items, payments>>,
             EditFits(desk[t]) => desk[t].op # "none"
      PROVE  Reads(t)
  <2>1. desk[t].op \notin {"none", "sale"} => desk[t].found \subseteq desk[t].items
    BY DEF OrdersInv, Alone, Fresh
  <2> QED
    BY <1>2, <2>1 DEF Reads
<1>3. ASSUME NEW t \in Txns, DeskRequest(t) PROVE Reads(t)
  <2>1. ASSUME NEW o \in Orders, NEW next, NEW d, Arrive(t, o, next, d), d.order = o,
               next # "failed" => Open(o), d.items = ItemsOf(o), d.total = orders[o].total,
               d.op # "sale" => d.found = {}
        PROVE  Reads(t)
    <3>1. /\ UNCHANGED <<orders, items, payments>> /\ ~Busy(o)
          /\ \A u \in Txns \ {t} : desk'[u] = desk[u]
          /\ desk'[t] = NoDesk \/ (desk'[t] = d /\ Open(o))
      BY <1>0, <2>1 DEF Arrive
    <3> QED
      BY <1>0, <2>1, <3>1 DEF Reads, Fresh
  <2>2. ASSUME NEW op, NEW o \in Orders, NEW what, NEW q, ReadForEdit(t, op, o, what, q)
        PROVE  Reads(t)
    BY <2>1, <2>2 DEF ReadForEdit
  <2>3. ASSUME NEW o \in Orders, NEW extra, ReadForSale(t, o, extra) PROVE Reads(t)
    BY <2>1, <2>3 DEF ReadForSale
  <2> QED
    BY <1>3, <2>2, <2>3 DEF DeskRequest
<1>4. ASSUME NEW t \in Txns, Check(t) PROVE Reads(t)
  <2> DEFINE d == [desk[t] EXCEPT !.found = IF desk[t].op = "update" THEN Found(desk[t]) ELSE {}]
  <2>1. EditFits(desk[t])
    BY <1>4 DEF Check, DeskInv, DeskFits, Running
  <2>2. desk[t] \in EditDesk
    BY <2>1 DEF EditFits
  <2>3. desk[t].items = ItemsOf(desk[t].order) /\ desk[t].op # "none"
    BY <2>2 DEF OrdersInv, Alone, Fresh, EditDesk
  <2>4. Found(desk[t]) \subseteq desk[t].items
    BY <2>1, <2>3, WhatFound
  <2>5. /\ d.op = desk[t].op /\ d.order = desk[t].order /\ d.items = desk[t].items
        /\ d.total = desk[t].total /\ d.found \subseteq d.items
    BY <2>2, <2>4 DEF EditDesk
  <2>6. /\ UNCHANGED <<orders, items, payments>>
        /\ desk' = Closed(t) \/ desk' = [desk EXCEPT ![t] = d]
    BY <1>4 DEF Check
  <2> HIDE DEF d
  <2> QED
    BY <1>0, <1>1, <2>3, <2>5, <2>6 DEF Reads
<1>5. ASSUME NEW t \in Txns, SaveEdit(t)
      PROVE  Reads(t) \/ \E o \in Orders : Writes(t, o)
  <2>0. PICK d, o : d = desk[t] /\ o = d.order
    OBVIOUS
  <2> DEFINE new == InMemory(d) \ (d.items \cup Updated(d))
             sum == TotalOf(InMemory(d))
  <2>1. EditFits(d) /\ d \in EditDesk
    BY <1>5, <2>0 DEF SaveEdit, DeskInv, DeskFits, Running, EditFits
  <2>2. Fresh(d) /\ d.op # "none" /\ d.op # "sale" /\ o \in Orders
    BY <2>0, <2>1 DEF OrdersInv, Alone, EditDesk
  <2>3. created + Cardinality(new) <= MaxItems /\ desk' = Closed(t) /\ payments' = payments
    BY <1>5, <2>0 DEF SaveEdit
  <2>4. CASE UNCHANGED <<items, created, orders>>
    BY <1>1, <2>3, <2>4
  <2>5. CASE /\ items' = {i \in items : \A j \in (d.items \ InMemory(d)) \cup Updated(d) :
                                            j.id # i.id} \cup Updated(d) \cup new
             /\ orders' = IF sum = d.total THEN orders ELSE [orders EXCEPT ![o].total = sum]
    <3>1. ItemsOf(o)' = InMemory(d) /\ \A q \in Orders \ {o} : ItemsOf(q)' = ItemsOf(q)
      BY <2>0, <2>1, <2>2, <2>3, <2>5, EditedLines DEF Fresh
    <3>2. orders \in [Orders -> [status : {"none", "open", "completed"}, total : Nat,
                                 receipt : Nat]]
      BY DEF DeskInv, DeskTypeOK
    <3>3. orders[o].status = "open" /\ d.total = orders[o].total
      BY <2>0, <2>2 DEF Fresh, Open
    <3> HIDE DEF sum
    <3>4. /\ orders'[o].total = sum /\ orders'[o].status = "open"
          /\ \A q \in Orders \ {o} : orders'[q] = orders[q]
      BY <2>2, <2>5, <3>2, <3>3
    <3>5. desk'[t] = NoDesk /\ \A u \in Txns \ {t} : desk'[u] = desk[u]
      BY <2>3, ClosedDesk DEF DeskInv
    <3>6. \A q : PaymentsOf(q)' = PaymentsOf(q)
      BY <2>3 DEF PaymentsOf
    <3> QED
      BY <1>0, <2>0, <2>2, <3>1, <3>4, <3>5, <3>6 DEF Writes, OnlyOrder, sum
  <2> QED
    BY <1>5, <2>0, <2>4, <2>5 DEF SaveEdit
<1>6. ASSUME NEW t \in Txns, NEW fate, Settle(t, fate)
      PROVE  \E o \in Orders : Writes(t, o)
  <2>0. PICK o : o = desk[t].order
    OBVIOUS
  <2> DEFINE pay == [txn |-> t, order |-> o, amount |-> desk[t].amount,
                     number |-> desk[t].number, total |-> desk[t].total,
                     items |-> desk[t].items]
  <2>1. desk[t].op = "sale" /\ desk[t] \in SaleDesk
    BY <1>6 DEF Settle, Deducted, DeskInv, DeskFits, NoDesk, EditFits, EditDesk, SaleFits
  <2>2. /\ orders' = [orders EXCEPT ![o].status = "completed", ![o].receipt = desk[t].number]
        /\ payments' = payments \cup {pay} /\ items' = items /\ desk' = Closed(t)
    BY <1>6, <2>0 DEF Settle
  <2>3. o \in Orders /\ pay.order = o
    BY <2>0, <2>1 DEF SaleDesk
  <2>4. orders \in [Orders -> [status : {"none", "open", "completed"}, total : Nat,
                               receipt : Nat]]
    BY DEF DeskInv, DeskTypeOK
  <2> HIDE DEF pay
  <2>5. /\ orders'[o].total = orders[o].total
        /\ \A q \in Orders \ {o} : orders'[q] = orders[q]
    BY <2>2, <2>3, <2>4
  <2>6. \A q : ItemsOf(q)' = ItemsOf(q)
    BY <2>2 DEF ItemsOf
  <2>7. \A q \in Orders \ {o} : PaymentsOf(q)' = PaymentsOf(q)
    BY <2>2, <2>3 DEF PaymentsOf
  <2>8. orders[o].total = TotalOf(ItemsOf(o)')
    BY <2>3, <2>6 DEF OrdersInv, TotalIsSumOfLines
  <2>9. desk'[t] = NoDesk /\ \A u \in Txns \ {t} : desk'[u] = desk[u]
    BY <2>2, ClosedDesk DEF DeskInv
  <2> QED
    BY <1>0, <2>0, <2>1, <2>3, <2>5, <2>6, <2>7, <2>8, <2>9 DEF Writes, OnlyOrder
<1>7. ASSUME NEW t \in Txns, NextItem(t) \/ \E n : TakeNumber(t, n) /\ desk[t].op = "sale",
             UNCHANGED <<orders, items, payments>>
      PROVE  Reads(t)
  <2>0. desk[t].op = "sale"
    BY <1>7 DEF NextItem
  <2>1. desk[t] \in SaleDesk
    BY <2>0 DEF DeskInv, DeskFits, NoDesk, EditFits, EditDesk, SaleFits
  <2>2. /\ \A u \in Txns \ {t} : desk'[u] = desk[u]
        /\ desk'[t].op = "sale" /\ desk'[t].order = desk[t].order
        /\ desk'[t].items = desk[t].items /\ desk'[t].total = desk[t].total
    <3>1. CASE NextItem(t)
      BY <1>0, <3>1, NextItemDesk DEF SaleFits, SaleDesk
    <3>2. CASE \E n : TakeNumber(t, n)
      BY <1>0, <2>1, <3>2 DEF TakeNumber, SaleDesk
    <3> QED
      BY <1>7, <3>1, <3>2
  <2> QED
    BY <1>7, <2>0, <2>2 DEF Reads
<1>8. ASSUME NEW t \in Txns, AllocateNumber(t) \/ InsertSequence(t) PROVE Reads(t)
  <2>1. desk[t].op = "sale"
    BY <1>8 DEF AllocateNumber, InsertSequence, Deducted, DeskInv, DeskFits, NoDesk, SaleFits,
                SaleDesk, Running
  <2> QED
    BY <1>1, <1>2, <1>7, <1>8, <2>1 DEF AllocateNumber, InsertSequence, TakeNumber, deskVars
<1>9. ASSUME NEW t \in Txns, DeskStep(t)
      PROVE  Reads(t) \/ \E o \in Orders : Writes(t, o)
  <2>1. ASSUME Deduct(t) PROVE Reads(t)
    BY <1>1, <1>2, <2>1 DEF Deduct, EditFits, EditDesk
  <2> QED
    BY <1>4, <1>5, <1>6, <1>7, <1>8, <1>9, <2>1 DEF DeskStep, NextItem
<1>10. ASSUME NEW t \in Txns, StockRequest(t) \/ CrashDesk(t) PROVE Reads(t)
  BY <1>1, <1>2, <1>10 DEF StockRequest, CrashDesk, deskVars, EditFits, EditDesk
<1>11. ASSUME \/ Catalogue /\ UNCHANGED deskVars
              \/ \E o \in Orders : CreateOrder(o)
              \/ \E p \in Products, s \in {"active", "inactive"} : SwitchRecipe(p, s)
              \/ UNCHANGED allVars
       PROVE  Creates
  <2>1. CASE \E o \in Orders : CreateOrder(o)
    BY <2>1 DEF Creates, CreateOrder, DeskInv, DeskTypeOK
  <2>2. CASE \/ Catalogue /\ UNCHANGED deskVars
             \/ \E p \in Products, s \in {"active", "inactive"} : SwitchRecipe(p, s)
             \/ UNCHANGED allVars
    BY <2>2 DEF Creates, SwitchRecipe, deskVars, allVars
  <2> QED
    BY <1>11, <2>1, <2>2
<1> QED
  BY <1>3, <1>6, <1>9, <1>10, <1>11 DEF DeskNext

LEMMA OrdersStep ==
  ASSUME OneAtATime, DeskInv, OrdersInv, [DeskNext]_allVars
  PROVE  OrdersInv'
<1>0. \A t \in Txns : desk[t].op # "none" => desk[t].order \in Orders
  BY DEF DeskInv, DeskFits, EditFits, SaleFits, EditDesk, SaleDesk, NoDesk
<1>1. CASE Creates
  <2>1. \A o \in Orders : ItemsOf(o)' = ItemsOf(o)
    BY <1>1 DEF Creates, ItemsOf
  <2>2. TotalIsSumOfLines'
    BY <1>1, <2>1 DEF Creates, OrdersInv, TotalIsSumOfLines
  <2>3. \A t \in Txns : desk[t].op # "none" =>
          /\ orders'[desk[t].order] = orders[desk[t].order]
          /\ ItemsOf(desk[t].order)' = ItemsOf(desk[t].order)
    BY <1>0, <1>1, <2>1 DEF Creates, OrdersInv, Alone, Fresh, Open
  <2> QED
    BY <1>1, <2>2, <2>3 DEF Creates, OrdersInv, Alone, Fresh, Open
<1>2. ASSUME NEW t \in Txns, Reads(t) PROVE OrdersInv'
  <2>1. orders' = orders /\ \A o : ItemsOf(o)' = ItemsOf(o)
    BY <1>2 DEF Reads, ItemsOf
  <2>2. TotalIsSumOfLines'
    BY <2>1 DEF OrdersInv, TotalIsSumOfLines
  <2>3. \A d : Fresh(d)' <=> Fresh(d)
    BY <2>1 DEF Fresh, Open
  <2>4. \A u \in Txns \ {t} : desk'[u] = desk[u]
    BY <1>2 DEF Reads
  <2>5. ASSUME desk'[t].op # "none"
        PROVE  /\ Fresh(desk'[t])
               /\ \A u \in Txns \ {t} : desk[u].op # "none" => desk[u].order # desk'[t].order
    <3>1. CASE /\ desk[t].op # "none" /\ desk'[t].op = desk[t].op
               /\ desk'[t].order = desk[t].order /\ desk'[t].items = desk[t].items
               /\ desk'[t].total = desk[t].total
               /\ desk'[t].op # "sale" => desk'[t].found \subseteq desk'[t].items
      BY <3>1 DEF OrdersInv, Alone, Fresh
    <3>2. CASE Fresh(desk'[t]) /\ ~Busy(desk'[t].order)
      BY <3>2 DEF Busy
    <3> QED
      BY <1>2, <2>5, <3>1, <3>2 DEF Reads
  <2>6. Alone'
    <3>1. ASSUME NEW u \in Txns, desk'[u].op # "none" PROVE Fresh(desk'[u])
      BY <2>4, <2>5, <3>1 DEF OrdersInv, Alone
    <3>2. ASSUME NEW u \in Txns, NEW v \in Txns, desk'[u].op # "none", desk'[v].op # "none",
                 desk'[v].order = desk'[u].order
          PROVE  v = u
      BY <2>4, <2>5, <3>2 DEF OrdersInv, Alone
    <3>3. ASSUME NEW u \in Txns, desk'[u].op # "none" PROVE Fresh(desk[u])'
      BY <1>2, <3>1, <3>3 DEF Reads, Fresh, Open, ItemsOf
    <3> QED
      BY <3>2, <3>3 DEF Alone
  <2> QED
    BY <2>2, <2>6 DEF OrdersInv
<1>3. ASSUME NEW t \in Txns, NEW o \in Orders, Writes(t, o) PROVE OrdersInv'
  <2>1. /\ \A q \in Orders \ {o} : orders'[q] = orders[q] /\ ItemsOf(q)' = ItemsOf(q)
        /\ orders'[o].total = TotalOf(ItemsOf(o)')
        /\ desk[t].order = o /\ desk[t].op # "none" /\ desk'[t].op = "none"
        /\ \A u \in Txns \ {t} : desk'[u] = desk[u]
    BY <1>3 DEF Writes, OnlyOrder
  <2>2. TotalIsSumOfLines'
    <3> SUFFICES ASSUME NEW q \in Orders PROVE orders'[q].total = TotalOf(ItemsOf(q)')
      BY DEF TotalIsSumOfLines
    <3> QED
      BY <2>1 DEF OrdersInv, TotalIsSumOfLines
  <2>3. ASSUME NEW u \in Txns, desk'[u].op # "none"
        PROVE  /\ desk'[u] = desk[u] /\ u # t /\ desk[u].order \in Orders \ {o}
    BY <1>0, <2>1, <2>3 DEF OrdersInv, Alone
  <2>4. ASSUME NEW u \in Txns, desk'[u].op # "none" PROVE Fresh(desk[u])'
    <3>1. PICK q \in Orders \ {o} : q = desk[u].order
      BY <2>3, <2>4
    <3>2. orders'[q] = orders[q] /\ ItemsOf(q)' = ItemsOf(q) /\ desk'[u] = desk[u]
      BY <2>1, <2>3, <2>4, <3>1
    <3>3. Fresh(desk[u])
      BY <2>4, <3>2 DEF OrdersInv, Alone
    <3> QED
      BY <3>1, <3>2, <3>3 DEF Fresh, Open, ItemsOf
  <2>5. Alone'
    BY <2>3, <2>4 DEF OrdersInv, Alone
  <2> QED
    BY <2>2, <2>5 DEF OrdersInv
<1> QED
  BY <1>1, <1>2, <1>3, OrdersMoment

\* An order without lines comes to nothing.
LEMMA NothingToPay == TotalOf({}) = 0
<1>1. {} \subseteq OrderItem /\ IsFiniteSet({})
  BY FS_EmptySet
<1> QED
  BY <1>1, TotalOfLines, TotalStep DEF Numbers

LEMMA OrdersBegin == DeskInit => OrdersInv
<1> SUFFICES ASSUME DeskInit PROVE OrdersInv
  OBVIOUS
<1>1. \A o \in Orders : ItemsOf(o) = {} /\ orders[o].total = 0
  BY DEF DeskInit, ItemsOf
<1> QED
  BY <1>1, NothingToPay DEF DeskInit, OrdersInv, Alone, TotalIsSumOfLines, NoDesk

\* Where requests on one order come one after the other, what a customer is asked for is
\* the sum of the lines of the order, through every edit (add_item, update_item,
\* remove_item).
THEOREM TotalsAreSums == ASSUME OneAtATime PROVE DeskSpec => []TotalIsSumOfLines
<1>1. OrdersInv => TotalIsSumOfLines
  BY DEF OrdersInv
<1> QED
  BY <1>1, OrdersBegin, OrdersStep, DeskInductive, PTL DEF DeskSpec

\* What CompletedIsFinal says of one order.
Final(o) ==
  /\ orders[o].status = "completed" =>
       /\ orders'[o] = orders[o]
       /\ ItemsOf(o)' = ItemsOf(o)
       /\ PaymentsOf(o)' = PaymentsOf(o)
  /\ orders'[o].status = "completed" => ItemsOf(o)' = ItemsOf(o)

LEMMA FinalStep ==
  ASSUME OneAtATime, DeskInv, OrdersInv, [DeskNext]_allVars, NEW o \in Orders
  PROVE  Final(o)
<1>1. CASE Creates
  BY <1>1 DEF Creates, ItemsOf, PaymentsOf, Final
<1>2. ASSUME NEW t \in Txns, Reads(t) PROVE Final(o)
  BY <1>2 DEF Reads, ItemsOf, PaymentsOf, Final
<1>3. ASSUME NEW t \in Txns, NEW q \in Orders, Writes(t, q) PROVE Final(o)
  <2>1. orders[q].status # "completed"
    <3>1. desk[t].order = q /\ desk[t].op # "none"
      BY <1>3 DEF Writes
    <3>2. Fresh(desk[t])
      BY <3>1 DEF OrdersInv, Alone
    <3> QED
      BY <3>1, <3>2 DEF Fresh, Open
  <2> QED
    BY <1>3, <2>1 DEF Writes, OnlyOrder, Final
<1> QED
  BY <1>1, <1>2, <1>3, OrdersMoment

\* Where requests on one order come one after the other, a completed order is never touched
\* again (_require_open_order).
THEOREM CompletedStays == ASSUME OneAtATime PROVE DeskSpec => CompletedIsFinal
<1>1. DeskInv /\ OrdersInv /\ [DeskNext]_allVars => [\A o \in Orders : Final(o)]_allVars
  BY FinalStep
<1>2. CompletedIsFinal <=> [][\A o \in Orders : Final(o)]_allVars
  BY PTL DEF CompletedIsFinal, Final
<1> QED
  BY <1>1, <1>2, OrdersBegin, OrdersStep, DeskInductive, PTL DEF DeskSpec

-----------------------------------------------------------------------------
(* What has moved is paid, and as much as was paid *)

\* Clients do not make up the keys of sales.  The schemas only bound a key's length; the
\* keys of clients name their own requests.
ClientKeys ==
  \A r \in Requests : \A n \in DOMAIN r.lines :
    \A i \in 1 .. MaxItems, p \in Products : r.lines[n].key # SaleKey(i, p)

\* The row m takes as much of p as the line i of an order asks for.
RightRow(m, i, p) == m.product = p /\ MovesFor(m, i)

\* The line l is to take as much of p as the line i of an order asks for.
RightLine(l, i, p) ==
  /\ l.product = p
  /\ \/ p = i.product /\ l.unit = i.unit /\ l.qty = i.qty
     \/ \E n \in DOMAIN Recipe[i.product] :
          LET g == Recipe[i.product][n]
          IN g.product = p /\ l.unit = g.unit /\ l.qty * Yields[i.product] = g.qty * Sold(i)

\* A key of a sale is that of a line of the order being sold, and what is moved under it
\* is what that line asks for.
RightOf(t) ==
  /\ \A m \in staged[t], k \in 1 .. MaxItems, p \in Products :
       m.key = SaleKey(k, p) =>
         /\ m.txn = t /\ desk[t].op = "sale"
         /\ \E i \in desk[t].items : i.id = k /\ RightRow(m, i, p)
  /\ \A m \in staged[t] : m.product \in Products
  /\ pc[t] \in Posts => \A n \in DOMAIN lines[t], k \in 1 .. MaxItems, p \in Products :
       lines[t][n].key = SaleKey(k, p) =>
         desk[t].op = "sale" /\ \E i \in desk[t].items : i.id = k /\ RightLine(lines[t][n], i, p)

\* What goes into q of the meal p comes out even.
Even(p, q) ==
  \A n \in DOMAIN Recipe[p] : \E k \in Nat : Recipe[p][n].qty * q = Yields[p] * k

\* What a session has in memory is what was entered, and enough was tendered.
Entered(d) ==
  /\ d.op # "none" => \A i \in d.items : Even(i.product, i.qty)
  /\ d.op \in {"add", "update", "remove"} => \A i \in d.found : Even(i.product, i.qty)
  /\ d.op \in {"add", "update"} => d.qty \in Quantities
  /\ d.op = "sale" => d.amount >= d.total

\* What is entered comes out even, in the tables and in memory, and sales are sales.
EnteredInv ==
  /\ kind = [t \in Txns |-> kind[t]]
  /\ \A i \in items : Even(i.product, i.qty)
  /\ \A t \in Txns : Entered(desk[t]) /\ (desk[t].op = "sale" => kind[t] = "sale")

LEMMA EnteredKept ==
  ASSUME EnteredInv, NEW t \in Txns, kind' = [u \in Txns |-> kind'[u]],
         \A i \in items' : Even(i.product, i.qty),
         \A u \in Txns \ {t} : desk'[u] = desk[u] /\ kind'[u] = kind[u],
         Entered(desk'[t]), desk'[t].op = "sale" => kind'[t] = "sale"
  PROVE  EnteredInv'
BY DEF EnteredInv, Entered, Even

LEMMA Ingredients ==
  ASSUME NEW p \in Products, NEW n \in DOMAIN Recipe[p]
  PROVE  /\ Recipe[p][n].product \in Products /\ Recipe[p][n].unit \in Units
         /\ Recipe[p][n].qty \in Nat
<1> DEFINE r == Recipe[p]
<1>1. r \in Seq(Ingredient)
  BY DeskAssumption
<1> HIDE DEF r
<1>2. n \in DOMAIN r => r[n] \in Ingredient
  BY <1>1
<1> QED
  BY <1>2 DEF Ingredient, r

\* Lines of a meal add up.
LEMMA EvenSum ==
  ASSUME NEW p \in Products, NEW a \in Nat, NEW b \in Nat, Even(p, a), Even(p, b)
  PROVE  Even(p, a + b)
<1> SUFFICES ASSUME NEW n \in DOMAIN Recipe[p]
             PROVE  \E k \in Nat : Recipe[p][n].qty * (a + b) = Yields[p] * k
  BY DEF Even
<1>1. PICK k \in Nat, l \in Nat :
        Recipe[p][n].qty * a = Yields[p] * k /\ Recipe[p][n].qty * b = Yields[p] * l
  BY DEF Even
<1>2. Recipe[p][n].qty \in Nat /\ Yields[p] \in Nat
  BY DeskAssumption, Ingredients
<1>3. \A x, y \in Nat : x * a = y * k /\ x * b = y * l => x * (a + b) = y * (k + l)
  OBVIOUS
<1>4. k + l \in Nat
  OBVIOUS
<1> QED
  BY <1>1, <1>2, <1>3, <1>4

LEMMA EvenQuantities == \A p \in Products, q \in Quantities : Even(p, q)
<1> SUFFICES ASSUME NEW p \in Products, NEW q \in Quantities, NEW n \in DOMAIN Recipe[p]
             PROVE  \E k \in Nat : Recipe[p][n].qty * q = Yields[p] * k
  BY DEF Even
<1>1. /\ Recipe[p][n].qty \in Nat /\ Yields[p] \in Nat \ {0} /\ q \in Nat
      /\ (Recipe[p][n].qty * q) % Yields[p] = 0
  BY DeskAssumption, Ingredients
<1>2. \A x \in Nat, y \in Nat \ {0} : x % y = 0 => x = y * (x \div y) /\ x \div y \in Nat
  OBVIOUS
<1>3. \A x, y \in Nat : x * y \in Nat
  OBVIOUS
<1> QED
  BY <1>1, <1>2, <1>3

\* A line an edit writes is entered, or the sum of what is entered.
LEMMA EditedEven ==
  ASSUME DeskInv, EnteredInv, NEW t \in Txns, SaveEdit(t), NEW i \in items'
  PROVE  Even(i.product, i.qty)
<1> DEFINE d == desk[t]
           new == InMemory(d) \ (d.items \cup Updated(d))
<1>1. EditFits(d) /\ d \in EditDesk
  BY DEF SaveEdit, DeskInv, DeskFits, Running, EditFits
<1>2. Entered(d) /\ d.op # "none"
  BY <1>1 DEF EnteredInv, EditDesk
<1>3. Target(d) \subseteq OrderItem /\ \A j \in Target(d) : Even(j.product, j.qty)
  BY <1>1, <1>2 DEF Target, EditDesk, EditFits, Read, Entered
<1>4. i \in items \/ i \in Updated(d) \/ i \in new
  BY DEF SaveEdit
<1>5. created \in Nat /\ MaxItems \in Nat /\ created + Cardinality(new) <= MaxItems
  BY DeskAssumption DEF DeskInv, SaveEdit
<1>6. CASE i \in items
  BY <1>6 DEF EnteredInv
<1>7. CASE i \in Updated(d)
  <2>1. d.op \in {"add", "update"}
    BY <1>1, <1>7 DEF Updated, EditDesk
  <2>2. d.qty \in Quantities /\ d.qty \in Nat
    <3>1. d.qty \in Quantities
      BY <1>2, <2>1 DEF Entered
    <3>2. \A q \in Quantities : q \in Nat
      BY DeskAssumption
    <3> QED
      BY <3>1, <3>2
  <2>3. PICK j \in Target(d) : i = Rewritten(d, j)
    BY <1>7, <2>1 DEF Updated
  <2>4. j.product \in Products /\ j.qty \in Nat
    BY <1>3 DEF OrderItem
  <2>5. i.product = j.product /\ i.qty = IF d.op = "add" THEN j.qty + d.qty ELSE d.qty
    BY <1>3, <2>3 DEF Rewritten, OrderItem
  <2>6. Even(j.product, j.qty) /\ Even(j.product, d.qty)
    BY <1>3, <2>2, <2>4, EvenQuantities
  <2> QED
    BY <2>2, <2>4, <2>5, <2>6, EvenSum
<1>8. CASE i \in new
  <2>1. d.op = "add" /\ i = NewItem(d)
    BY <1>1, <1>5, <1>8, SavedLines
  <2>2. d.qty \in Quantities /\ i.qty = d.qty /\ i.product = d.what[1] /\ d.what[1] \in Products
    BY <1>1, <1>2, <2>1 DEF Entered, NewItem, EditFits
  <2> QED
    BY <2>2, EvenQuantities
<1> QED
  BY <1>4, <1>6, <1>7, <1>8

LEMMA EnteredStep ==
  ASSUME DeskInv, EnteredInv, [DeskNext]_allVars
  PROVE  EnteredInv'
<1>0. /\ desk = [u \in Txns |-> desk[u]] /\ kind = [u \in Txns |-> kind[u]]
      /\ \A i \in items : Even(i.product, i.qty)
      /\ Entered(NoDesk) /\ NoDesk.op # "sale"
  BY DEF DeskInv, DeskFits, EnteredInv, Entered, NoDesk
<1>1. ASSUME UNCHANGED <<items, kind, desk>> PROVE EnteredInv'
  BY <1>1 DEF EnteredInv, Entered, Even
<1>2. ASSUME NEW t \in Txns, desk' = Closed(t), UNCHANGED <<items, kind>> PROVE EnteredInv'
  <2>1. desk'[t] = NoDesk /\ \A u \in Txns \ {t} : desk'[u] = desk[u]
    BY <1>2, ClosedDesk DEF DeskInv
  <2> QED
    BY <1>0, <1>2, <2>1, EnteredKept
<1>3. ASSUME NEW t \in Txns, DeskRequest(t) PROVE EnteredInv'
  <2>1. ASSUME NEW op, NEW o, NEW what, NEW q, ReadForEdit(t, op, o, what, q),
               op \in {"add", "update", "remove"}, op # "remove" => q \in Quantities
        PROVE  EnteredInv'
    <3>1. /\ \/ desk'[t] = NoDesk
             \/ /\ desk'[t].op = op /\ desk'[t].qty = q /\ desk'[t].found = {}
                /\ desk'[t].items = ItemsOf(o)
          /\ \A u \in Txns \ {t} : desk'[u] = desk[u]
      BY <1>0, <2>1 DEF ReadForEdit, Arrive
    <3>2. UNCHANGED <<items, kind>>
      BY <2>1 DEF ReadForEdit, Arrive, Untouched
    <3>3. Entered(desk'[t]) /\ desk'[t].op # "sale"
      BY <1>0, <2>1, <3>1 DEF Entered, ItemsOf
    <3> QED
      BY <1>0, <3>1, <3>2, <3>3, EnteredKept
  <2>2. ASSUME NEW o \in Orders, NEW extra \in Extras, ReadForSale(t, o, extra)
        PROVE  EnteredInv'
    <3>1. /\ kind' = [u \in Txns |-> kind'[u]] /\ kind'[t] = "sale" /\ items' = items
          /\ \A u \in Txns \ {t} : desk'[u] = desk[u] /\ kind'[u] = kind[u]
      BY <1>0, <2>2 DEF ReadForSale, Arrive
    <3>2. \/ desk'[t] = NoDesk
          \/ /\ desk'[t].op = "sale" /\ extra >= 0 /\ desk'[t].items = ItemsOf(o)
             /\ desk'[t].amount = orders[o].total + extra /\ desk'[t].total = orders[o].total
      BY <1>0, <2>2 DEF ReadForSale, Arrive
    <3>3. orders[o].total \in Nat /\ extra \in Int
      BY DeskAssumption DEF DeskInv, DeskTypeOK
    <3>4. Entered(desk'[t])
      BY <1>0, <3>2, <3>3 DEF Entered, ItemsOf
    <3> QED
      BY <1>0, <3>1, <3>4, EnteredKept
  <2> QED
    BY <1>3, <2>1, <2>2 DEF DeskRequest
<1>4. ASSUME NEW t \in Txns, Check(t) PROVE EnteredInv'
  <2>1. desk[t] \in EditDesk /\ Entered(desk[t])
    BY <1>4 DEF Check, DeskInv, DeskFits, Running, EditFits, EnteredInv
  <2> DEFINE found == IF desk[t].op = "update" THEN Found(desk[t]) ELSE {}
  <2>2. /\ UNCHANGED <<items, kind>>
        /\ \A u \in Txns \ {t} : desk'[u] = desk[u]
        /\ desk'[t] = NoDesk \/ desk'[t] = [desk[t] EXCEPT !.found = found]
    BY <1>0, <1>4, <2>1 DEF Check, Untouched, Closed
  <2>3. found \subseteq items \cup desk[t].items
    BY DEF Found
  <2> HIDE DEF found
  <2>4. \/ desk'[t] = NoDesk
        \/ /\ desk'[t].op = desk[t].op /\ desk'[t].qty = desk[t].qty
           /\ desk'[t].items = desk[t].items /\ desk'[t].found = found
    BY <2>1, <2>2 DEF EditDesk
  <2>5. Entered(desk'[t]) /\ desk'[t].op # "sale"
    BY <1>0, <2>1, <2>3, <2>4 DEF Entered, EditDesk
  <2> QED
    BY <1>0, <2>2, <2>5, EnteredKept
<1>5. ASSUME NEW t \in Txns, SaveEdit(t) PROVE EnteredInv'
  <2>1. desk' = Closed(t) /\ kind' = kind
    BY <1>5 DEF SaveEdit, Untouched
  <2>2. desk'[t] = NoDesk /\ \A u \in Txns \ {t} : desk'[u] = desk[u]
    BY <2>1, ClosedDesk DEF DeskInv
  <2> QED
    BY <1>0, <1>5, <2>1, <2>2, EditedEven, EnteredKept
<1>6. ASSUME NEW t \in Txns, NextItem(t) \/ \E n : TakeNumber(t, n), desk[t].op = "sale",
             UNCHANGED <<items, kind>>
      PROVE  EnteredInv'
  <2>1. desk[t] \in SaleDesk
    BY <1>6 DEF DeskInv, DeskFits, NoDesk, EditFits, EditDesk, SaleFits
  <2>2. /\ \A u \in Txns \ {t} : desk'[u] = desk[u]
        /\ desk'[t].op = "sale" /\ desk'[t].amount = desk[t].amount
        /\ desk'[t].total = desk[t].total /\ desk'[t].items = desk[t].items
    <3>1. CASE NextItem(t)
      BY <1>0, <3>1, NextItemDesk DEF SaleFits, SaleDesk
    <3>2. CASE \E n : TakeNumber(t, n)
      BY <1>0, <2>1, <3>2 DEF TakeNumber, SaleDesk
    <3> QED
      BY <1>6, <3>1, <3>2
  <2>3. Entered(desk[t]) /\ kind[t] = "sale"
    BY <1>6 DEF EnteredInv
  <2>4. Entered(desk'[t])
    BY <1>6, <2>2, <2>3 DEF Entered
  <2> QED
    BY <1>0, <1>6, <2>2, <2>3, <2>4, EnteredKept
<1>7. ASSUME NEW t \in Txns, AllocateNumber(t) \/ InsertSequence(t) PROVE EnteredInv'
  <2>1. desk[t].op = "sale"
    BY <1>7 DEF AllocateNumber, InsertSequence, Deducted, DeskInv, DeskFits, NoDesk, SaleFits,
                SaleDesk, Running
  <2> QED
    BY <1>1, <1>2, <1>6, <1>7, <2>1
    DEF AllocateNumber, InsertSequence, TakeNumber, deskVars, Untouched, vars, control, Rollback
<1>8. ASSUME NEW t \in Txns, NEW fate, Settle(t, fate) \/ CrashDesk(t) PROVE EnteredInv'
  BY <1>2, <1>8 DEF Settle, Publish, CrashDesk, Rollback
<1>9. ASSUME NEW t \in Txns, Deduct(t) PROVE EnteredInv'
  <2>1. UNCHANGED <<items, kind>>
    BY <1>9 DEF Deduct, LookUp, ReadSoldProduct, ReadProduct, CheckProduct, ReadUnit, Lock,
                Refuse, DuplicateKey, Post, DeadlockVictim, Rollback
  <2> QED
    BY <1>1, <1>2, <1>9, <2>1 DEF Deduct
<1>10. ASSUME NEW t \in Txns, StockRequest(t) PROVE EnteredInv'
  <2>1. desk' = desk /\ items' = items /\ desk[t] = NoDesk
    BY <1>10 DEF StockRequest, deskVars, DeskInv, DeskFits, EditFits, SaleFits, EditDesk, SaleDesk
  <2>2. /\ kind' = [u \in Txns |-> kind'[u]]
        /\ \A u \in Txns \ {t} : kind'[u] = kind[u]
    BY <1>0, <1>10 DEF StockRequest, Begin, Commit, Publish
  <2> QED
    BY <1>0, <2>1, <2>2, EnteredKept
<1>11. ASSUME NEW t \in Txns, DeskStep(t) PROVE EnteredInv'
  BY <1>4, <1>5, <1>6, <1>7, <1>8, <1>9, <1>11 DEF DeskStep, NextItem
<1>12. ASSUME \/ Catalogue /\ UNCHANGED deskVars
              \/ \E o \in Orders : CreateOrder(o)
              \/ \E p \in Products, s \in {"active", "inactive"} : SwitchRecipe(p, s)
              \/ UNCHANGED allVars
       PROVE  EnteredInv'
  BY <1>1, <1>12 DEF Catalogue, CreateProduct, AddProductUnit, UpdateStatus, CreateOrder,
                     SwitchRecipe, allVars, vars, control, deskVars
<1> QED
  BY <1>3, <1>8, <1>10, <1>11, <1>12 DEF DeskNext

\* What the database stores of a quantity is within half of the last place of it.
LEMMA StoredNear ==
  ASSUME NEW q \in Int, NEW f \in Nat, NEW y \in Nat
  PROVE  Near(Stored((-q) * f), q * f * y, y)
<1> DEFINE x == q * f
           e == Stored(-x)
<1>1. x \in Int /\ (-q) * f = -x
  OBVIOUS
<1> HIDE DEF x
<1>2. e \in Int /\ e % 4 = 0 /\ -2 <= e + x /\ e + x <= 2
  BY <1>1 DEF Stored
<1> HIDE DEF e
<1>3. e * y + x * y = (e + x) * y
  BY <1>1, <1>2
<1>4. \A z \in Int : -2 <= z /\ z <= 2 => -2 * y <= z * y /\ z * y <= 2 * y
  OBVIOUS
<1>5. -2 * y <= (e + x) * y /\ (e + x) * y <= 2 * y
  BY <1>1, <1>2, <1>4
<1> QED
  BY <1>1, <1>2, <1>5 DEF Near, x, e

\* The deductions of a line are what it asks for.
LEMMA RightDeductions ==
  ASSUME DeskInv, NEW d, SaleFits(d), NEW i \in d.todo, Even(i.product, i.qty),
         NEW n \in DOMAIN Deductions(d, i), NEW k \in 1 .. MaxItems, NEW p \in Products,
         Deductions(d, i)[n].key = SaleKey(k, p)
  PROVE  i.id = k /\ RightLine(Deductions(d, i)[n], i, p)
<1>1. i \in OrderItem /\ (RecipeRead(d, i.product) = "active" => Recipe[i.product] # <<>>)
  BY DeductionLines
<1>2. CASE RecipeRead(d, i.product) # "active"
  <2> DEFINE l == [product |-> i.product, unit |-> i.unit, qty |-> i.qty,
                   key |-> SaleKey(i.id, i.product)]
  <2>1. Deductions(d, i) = <<l>>
    BY <1>2 DEF Deductions
  <2>2. /\ l.product = i.product /\ l.unit = i.unit /\ l.qty = i.qty
        /\ l.key = SaleKey(i.id, i.product)
    OBVIOUS
  <2> HIDE DEF l
  <2>3. Deductions(d, i)[n] = l
    BY <2>1
  <2> QED
    BY <2>2, <2>3 DEF SaleKey, RightLine
<1>3. CASE RecipeRead(d, i.product) = "active"
  <2> DEFINE g == Recipe[i.product][n]
             made == (g.qty * i.qty * Factor[<<i.product, i.unit>>]) \div Yields[i.product]
             l == [product |-> g.product, unit |-> g.unit, qty |-> made,
                   key |-> SaleKey(i.id, g.product)]
  <2>1. n \in DOMAIN Recipe[i.product] /\ Deductions(d, i)[n] = l
    BY <1>3 DEF Deductions
  <2>2. /\ i.product \in Products /\ i.unit \in Units /\ i.qty \in Nat
        /\ g.qty \in Nat /\ Yields[i.product] \in Nat \ {0}
        /\ Factor[<<i.product, i.unit>>] \in Nat
    BY <1>1, <2>1, Ingredients, DeskAssumption, ConstantsAssumption DEF OrderItem
  <2>3. PICK c \in Nat : g.qty * i.qty = Yields[i.product] * c
    BY <2>1 DEF Even
  <2>4. made * Yields[i.product] = g.qty * Sold(i)
    <3>1. PICK a, q, f, y : a = g.qty /\ q = i.qty /\ f = Factor[<<i.product, i.unit>>]
                              /\ y = Yields[i.product]
      OBVIOUS
    <3>2. a \in Nat /\ q \in Nat /\ f \in Nat /\ y \in Nat \ {0} /\ a * q = y * c
      BY <2>2, <2>3, <3>1
    <3>3. ((a * q * f) \div y) * y = a * (q * f)
      <4>1. PICK m \in Nat : m = c * f
        BY <3>2
      <4>2. a * q * f = y * m
        BY <3>2, <4>1
      <4>3. (y * m) \div y = m
        BY <3>2
      <4>4. a * (q * f) = a * q * f /\ m * y = y * m
        BY <3>2
      <4> QED
        BY <4>2, <4>3, <4>4
    <3> QED
      BY <3>1, <3>3 DEF Sold
  <2>5. /\ l.product = g.product /\ l.unit = g.unit /\ l.qty = made
        /\ l.key = SaleKey(i.id, g.product)
    OBVIOUS
  <2> HIDE DEF l, made
  <2>6. i.id = k /\ g.product = p
    BY <2>1, <2>5 DEF SaleKey
  <2> QED
    BY <2>1, <2>4, <2>5, <2>6 DEF RightLine
<1> QED
  BY <1>2, <1>3

\* A right line is moved right.
LEMMA RightMovement ==
  ASSUME NEW t \in Txns, kind[t] = "sale", Current(t) \in Line, NEW i \in OrderItem,
         NEW p \in Products, RightLine(Current(t), i, p)
  PROVE  RightRow(Movement(t), i, p)
<1> DEFINE l == Current(t)
           f == Factor[<<l.product, l.unit>>]
<1>1. l.qty \in Int /\ f \in Nat /\ l.product = p
  BY ConstantsAssumption DEF Line, RightLine
<1>2. Movement(t).product = p /\ Movement(t).delta = Stored((-l.qty) * f)
  BY <1>1 DEF Movement, Delta, Signed
<1> HIDE DEF f
<1>3. CASE p = i.product /\ l.unit = i.unit /\ l.qty = i.qty
  <2>1. Near(Stored((-l.qty) * f), l.qty * f * 1, 1)
    BY <1>1, StoredNear
  <2>2. l.qty * f * 1 = Sold(i)
    BY <1>1, <1>3 DEF Sold, f
  <2> QED
    BY <1>2, <1>3, <2>1, <2>2 DEF RightRow, MovesFor
<1>4. ASSUME NEW n \in DOMAIN Recipe[i.product], Recipe[i.product][n].product = p,
             l.unit = Recipe[i.product][n].unit,
             l.qty * Yields[i.product] = Recipe[i.product][n].qty * Sold(i)
      PROVE  RightRow(Movement(t), i, p)
  <2>1. /\ Recipe[i.product][n].qty \in Nat /\ Yields[i.product] \in Nat
        /\ i.qty \in Nat /\ Factor[<<i.product, i.unit>>] \in Nat
    BY Ingredients, DeskAssumption, ConstantsAssumption DEF OrderItem
  <2>2. Near(Stored((-l.qty) * f), l.qty * f * Yields[i.product], Yields[i.product])
    BY <1>1, <2>1, StoredNear
  <2>3. l.qty * f * Yields[i.product] = Recipe[i.product][n].qty * Sold(i) * f
    <3>1. \A q \in Int, y, e, s \in Nat : q * y = e * s => q * f * y = e * s * f
      <4> SUFFICES ASSUME NEW q \in Int, NEW y \in Nat, NEW e \in Nat, NEW s \in Nat,
                          q * y = e * s
                   PROVE  q * f * y = e * s * f
        OBVIOUS
      <4>1. q * f * y = (q * y) * f
        BY <1>1
      <4> QED
        BY <4>1
    <3>2. Sold(i) \in Nat
      <4>1. \A a, b \in Nat : a * b \in Nat
        OBVIOUS
      <4> QED
        BY <2>1, <4>1 DEF Sold
    <3> QED
      BY <1>1, <1>4, <2>1, <3>1, <3>2
  <2>4. f = Factor[<<Recipe[i.product][n].product, Recipe[i.product][n].unit>>]
    BY <1>1, <1>4 DEF f
  <2> QED
    BY <1>2, <1>4, <2>2, <2>3, <2>4 DEF RightRow, MovesFor
<1> QED
  BY <1>1, <1>3, <1>4 DEF RightLine

LEMMA RightMoment ==
  ASSUME ClientKeys, DeskInv, EnteredInv, \A u \in Txns : RightOf(u),
         NEW t \in Txns, Moment(t)
  PROVE  \A u \in Txns : RightOf(u)'
<1>0. OnlyOf(t) /\ RightOf(t)
  BY DEF Moment
<1>1. \A u \in Txns \ {t} : RightOf(u)'
  BY <1>0 DEF OnlyOf, RightOf
<1>2. SUFFICES RightOf(t)'
  BY <1>1
<1>3. CASE Gives(t) \/ Publishes(t)
  BY <1>3 DEF Gives, Publishes, RightOf
<1>4. CASE Keeps(t)
  <2>1. /\ staged'[t] = staged[t] /\ lines'[t] = lines[t] /\ (pc'[t] \in Posts => pc[t] \in Posts)
        /\ desk'[t].op = "sale" <=> desk[t].op = "sale"
        /\ desk'[t].op = "sale" => desk'[t].items = desk[t].items
    BY <1>4 DEF Keeps
  <2> QED
    BY <1>0, <2>1 DEF RightOf
<1>5. CASE Begins(t)
  <2>1. PICK r \in Requests : lines'[t] = r.lines
    BY <1>5 DEF Begins
  <2>2. \A n \in DOMAIN lines'[t], k \in 1 .. MaxItems, p \in Products :
          lines'[t][n].key # SaleKey(k, p)
    BY <2>1 DEF ClientKeys
  <2>3. NoDesk.op # "sale"
    BY DEF NoDesk
  <2> QED
    BY <1>0, <1>5, <2>2, <2>3 DEF Begins, RightOf
<1>6. CASE Sells(t)
  BY <1>0, <1>6 DEF Sells, RightOf, NoDesk
<1>7. ASSUME NEW i \in desk[t].todo, Takes(t, i) PROVE RightOf(t)'
  <2>1. SaleFits(desk[t]) /\ desk[t].op = "sale"
    BY <1>7 DEF Takes, DeskInv, DeskFits, NoDesk, EditFits, EditDesk
  <2>2. i \in desk[t].items
    BY <2>1 DEF SaleFits
  <2>3. Even(i.product, i.qty)
    BY <2>1, <2>2 DEF EnteredInv, Entered
  <2>4. ASSUME NEW n \in DOMAIN lines'[t], NEW k \in 1 .. MaxItems, NEW p \in Products,
               lines'[t][n].key = SaleKey(k, p)
        PROVE  i.id = k /\ RightLine(lines'[t][n], i, p)
    <3>1. PICK d \in StillHeld(desk[t]) : lines'[t] = Deductions(d, i)
      BY <1>7 DEF Takes
    <3>2. SaleFits(d) /\ i \in d.todo
      BY <2>1, ForgottenFits
    <3> QED
      BY <2>3, <2>4, <3>1, <3>2, RightDeductions
  <2>5. /\ desk'[t].op = "sale" /\ desk'[t].items = desk[t].items /\ staged'[t] = staged[t]
    BY <1>7 DEF Takes
  <2> QED
    BY <1>0, <2>2, <2>4, <2>5 DEF RightOf
<1>8. CASE Moves(t)
  <2>1. /\ pc[t] \in Posts /\ desk'[t] = desk[t] /\ lines'[t] = lines[t]
        /\ staged'[t] = staged[t] \/ staged'[t] = staged[t] \cup {Movement(t)}
    BY <1>8 DEF Moves
  <2>2. at[t] \in DOMAIN lines[t] /\ lines[t] \in Seq(Line)
    BY <2>1 DEF DeskInv, RowsFit, Posts
  <2>3. /\ Current(t) \in Line /\ Movement(t).key = Current(t).key
        /\ Movement(t).txn = t /\ Movement(t).product \in Products
    <3>1. Current(t) \in Line
      BY <2>2 DEF Current
    <3>2. /\ Movement(t).key = Current(t).key /\ Movement(t).txn = t
          /\ Movement(t).product = Current(t).product
      BY DEF Movement
    <3> QED
      BY <3>1, <3>2 DEF Line
  <2>4. ASSUME NEW k \in 1 .. MaxItems, NEW p \in Products, Movement(t).key = SaleKey(k, p)
        PROVE  /\ desk[t].op = "sale"
               /\ \E i \in desk[t].items : i.id = k /\ RightRow(Movement(t), i, p)
    <3>0. lines[t][at[t]] = Current(t) /\ Current(t).key = SaleKey(k, p)
      BY <2>3, <2>4 DEF Current
    <3>1. desk[t].op = "sale" /\ \E i \in desk[t].items : i.id = k /\ RightLine(Current(t), i, p)
      BY <1>0, <2>1, <2>2, <3>0 DEF RightOf
    <3>2. PICK i \in desk[t].items : i.id = k /\ RightLine(Current(t), i, p)
      BY <3>1
    <3>3. i \in OrderItem
      BY <3>1 DEF DeskInv, DeskFits, NoDesk, EditFits, EditDesk, SaleFits, Read
    <3>4. kind[t] = "sale"
      BY <3>1 DEF EnteredInv
    <3> QED
      BY <2>3, <3>1, <3>2, <3>3, <3>4, RightMovement
  <2>5. \A m \in staged'[t] : m \in staged[t] \/ m = Movement(t)
    BY <2>1
  <2> HIDE DEF Movement
  <2>6. /\ pc[t] \in Posts /\ desk'[t] = desk[t] /\ lines'[t] = lines[t]
    BY <2>1
  <2> QED
    BY <1>0, <2>3, <2>4, <2>5, <2>6 DEF RightOf
<1> QED
  BY <1>3, <1>4, <1>5, <1>6, <1>7, <1>8 DEF Moment

\* What is published for a sale is what its payment was for.
LEMMA UnpaidMoment ==
  ASSUME DeskInv, \A u \in Txns : RightOf(u), NothingMovedUnpaid, NEW t \in Txns, Moment(t)
  PROVE  NothingMovedUnpaid'
<1>1. CASE Gives(t) \/ Keeps(t) \/ Begins(t) \/ Sells(t) \/ Moves(t)
           \/ \E i \in desk[t].todo : Takes(t, i)
  BY <1>1 DEF Gives, Keeps, Begins, Sells, Moves, Takes, NothingMovedUnpaid
<1>2. CASE Publishes(t)
  <2>1. ledger' = ledger \cup staged[t] /\ payments \subseteq payments'
    BY <1>2 DEF Publishes
  <2>2. ASSUME NEW m \in staged[t], NEW i \in 1 .. MaxItems, m.key = SaleKey(i, m.product)
        PROVE  \E p \in payments' : p.txn = m.txn /\ \E j \in p.items : j.id = i /\ MovesFor(m, j)
    <3>1. /\ m.txn = t /\ desk[t].op = "sale"
          /\ \E j \in desk[t].items : j.id = i /\ RightRow(m, j, m.product)
      BY <2>2 DEF RightOf
    <3> DEFINE pay == [txn |-> t, order |-> desk[t].order, amount |-> desk[t].amount,
                       number |-> desk[t].number, total |-> desk[t].total,
                       items |-> desk[t].items]
    <3>2. pay \in payments'
      BY <1>2, <3>1 DEF Publishes, NoDesk
    <3>3. pay.txn = t /\ pay.items = desk[t].items
      OBVIOUS
    <3> HIDE DEF pay
    <3> QED
      BY <3>1, <3>2, <3>3 DEF RightRow
  <2> QED
    BY <2>1, <2>2 DEF NothingMovedUnpaid
<1> QED
  BY <1>1, <1>2 DEF Moment

\* What stock moves for a sale was paid, in the quantity paid for, also when requests on the
\* order overlap: the movements of a sale that fails at a later line, or dies, disappear
\* with it (complete_sale, consume_for_sale_line).
THEOREM MovedIsPaid == ASSUME ClientKeys PROVE DeskSpec => []NothingMovedUnpaid
<1> DEFINE Inv == EnteredInv /\ NothingMovedUnpaid /\ \A t \in Txns : RightOf(t)
<1>1. DeskInit => Inv
  BY DEF DeskInit, Init, EnteredInv, Entered, RightOf, NothingMovedUnpaid, NoDesk, Posts,
         Running
<1>2. ASSUME DeskInv, Inv, [DeskNext]_allVars PROVE Inv'
  <2>1. CASE UNCHANGED <<ledger, staged, payments, desk, pc, lines, at>>
    <3>1. NothingMovedUnpaid' /\ (\A t \in Txns : RightOf(t))'
      BY <1>2, <2>1 DEF RightOf, NothingMovedUnpaid
    <3> QED
      BY <1>2, <3>1, EnteredStep
  <2>2. ASSUME NEW t \in Txns, Moment(t) PROVE Inv'
    BY <1>2, <2>2, EnteredStep, RightMoment, UnpaidMoment
  <2> QED
    BY <1>2, <2>1, <2>2, MomentOfStep
<1>3. Inv => NothingMovedUnpaid
  OBVIOUS
<1> QED
  BY <1>1, <1>2, <1>3, DeskInductive, PTL DEF DeskSpec

-----------------------------------------------------------------------------
(* Completed orders are settled in full *)

\* A payment is for an order as it was completed, which has no other, and what has moved
\* for a sale was paid.
PaymentsInv ==
  /\ \A p \in payments :
       /\ orders[p.order].status = "completed" /\ p.items = ItemsOf(p.order)
       /\ p.amount >= orders[p.order].total /\ p.number = orders[p.order].receipt
       /\ \A q \in payments : q.order = p.order => q = p
       /\ \A i \in p.items : InFull(i)
  /\ \A o \in Orders : orders[o].status = "completed" => PaymentsOf(o) # {}
  /\ \A m \in ledger, k \in 1 .. MaxItems, q \in Products :
       m.key = SaleKey(k, q) => \E p \in payments : \E i \in p.items : i.id = k

\* A line whose deductions are all in the ledger, and right, is deducted in full.
LEMMA MovedInFull ==
  ASSUME NEW i \in OrderItem, MovedIn(i, ledger'),
         \A m \in ledger', p \in Products : m.key = SaleKey(i.id, p) => RightRow(m, i, p)
  PROVE  InFull(i)'
<1>1. i.product \in Products
  BY DEF OrderItem
<1>2. CASE KeyIn(SaleKey(i.id, i.product), ledger')
  <2>1. PICK m \in ledger' : m.key = SaleKey(i.id, i.product)
    BY <1>2 DEF KeyIn
  <2>2. RightRow(m, i, i.product)
    BY <1>1, <2>1
  <2>3. \A n \in DOMAIN Recipe[i.product] : Recipe[i.product][n].product # i.product
    BY <1>1, DeskAssumption
  <2>4. m.product = i.product /\ Near(m.delta, Sold(i), 1)
    BY <2>2, <2>3 DEF RightRow, MovesFor
  <2> QED
    BY <2>1, <2>4 DEF InFull, Took
<1>3. CASE /\ Recipe[i.product] # <<>>
           /\ \A n \in DOMAIN Recipe[i.product] :
                KeyIn(SaleKey(i.id, Recipe[i.product][n].product), ledger')
  <2>1. ASSUME NEW n \in DOMAIN Recipe[i.product]
        PROVE  LET g == Recipe[i.product][n]
               IN Took(SaleKey(i.id, g.product), g.product,
                       g.qty * Sold(i) * Factor[<<g.product, g.unit>>], Yields[i.product])'
    <3> DEFINE g == Recipe[i.product][n]
    <3>1. PICK m \in ledger' : m.key = SaleKey(i.id, g.product)
      BY <1>3 DEF KeyIn
    <3>2. g.product \in Products /\ g.product # i.product
      BY <1>1, Ingredients, DeskAssumption
    <3>3. RightRow(m, i, g.product)
      BY <3>1, <3>2
    <3>4. \A k \in DOMAIN Recipe[i.product] : Recipe[i.product][k].product = g.product => k = n
      BY <1>1, DeskAssumption
    <3>5. /\ m.product = g.product
          /\ Near(m.delta, g.qty * Sold(i) * Factor[<<g.product, g.unit>>], Yields[i.product])
      BY <3>2, <3>3, <3>4 DEF RightRow, MovesFor
    <3> QED
      BY <3>1, <3>5 DEF Took
  <2> QED
    BY <1>3, <2>1 DEF InFull
<1> QED
  BY <1>2, <1>3 DEF MovedIn

LEMMA InFullStays ==
  ASSUME ledger \subseteq ledger', NEW i, InFull(i)
  PROVE  InFull(i)'
<1>1. \A k, p, n, d : Took(k, p, n, d) => Took(k, p, n, d)'
  BY DEF Took
<1> QED
  BY <1>1 DEF InFull

\* All that is known of the desks.
BooksOfDesk ==
  DeskInv /\ OrdersInv /\ EnteredInv /\ SoldInv /\ PaymentsInv /\ \A t \in Txns : RightOf(t)

LEMMA SettleInFull ==
  ASSUME BooksOfDesk, NEW t \in Txns, NEW fate \in Ended, Settle(t, fate),
         ledger' = ledger \cup staged[t], NEW i \in desk[t].items
  PROVE  InFull(i)'
<1>1. /\ desk[t].op = "sale" /\ desk[t].todo = {} /\ pc[t] \notin Posts
  BY DEF Settle, Deducted, Posts
<1>2. MovedIn(i, ledger')
  BY <1>1 DEF BooksOfDesk, SoldInv, SoldMoved, Dealt
<1>3. SaleFits(desk[t]) /\ i \in OrderItem
  BY <1>1 DEF BooksOfDesk, DeskInv, DeskFits, NoDesk, EditFits, EditDesk, SaleFits, Read
<1>4. /\ i \in items /\ orders[i.order].status = "open"
      /\ \A j \in items : j.id = i.id => j = i
  BY <1>1 DEF BooksOfDesk, OrdersInv, Alone, Fresh, Open, ItemsOf, DeskInv, DeskTypeOK
<1>5. i.id \in 1 .. MaxItems
  BY <1>3 DEF OrderItem
<1>6. ASSUME NEW m \in ledger', NEW p \in Products, m.key = SaleKey(i.id, p)
      PROVE  RightRow(m, i, p)
  <2>1. m \notin ledger
    <3>1. ASSUME m \in ledger PROVE FALSE
      <4>1. PICK q \in payments : \E j \in q.items : j.id = i.id
        BY <1>5, <1>6, <3>1 DEF BooksOfDesk, PaymentsInv
      <4>2. q.items = ItemsOf(q.order) /\ orders[q.order].status = "completed"
        BY DEF BooksOfDesk, PaymentsInv
      <4>3. i \in ItemsOf(q.order)
        BY <1>4, <4>1, <4>2 DEF ItemsOf
      <4> QED
        BY <1>4, <4>2, <4>3 DEF ItemsOf
    <3> QED
      BY <3>1
  <2>2. PICK j \in desk[t].items : j.id = i.id /\ RightRow(m, j, p)
    BY <1>5, <1>6, <2>1 DEF BooksOfDesk, RightOf
  <2>3. j \in items
    BY <1>1 DEF BooksOfDesk, OrdersInv, Alone, Fresh, ItemsOf
  <2> QED
    BY <1>4, <2>2, <2>3
<1> QED
  BY <1>2, <1>3, <1>6, MovedInFull

\* Only Settle pays for or completes an order.
LEMMA OnlySettlePays ==
  ASSUME DeskInv, [DeskNext]_allVars,
         \A t \in Txns : ~Settle(t, "done") /\ ~Settle(t, "unanswered")
  PROVE  /\ payments' = payments
         /\ \A o \in Orders : orders'[o].status = "completed" => orders[o].status = "completed"
<1>0. orders \in [Orders -> [status : {"none", "open", "completed"}, total : Nat, receipt : Nat]]
  BY DEF DeskInv, DeskTypeOK
<1>1. ASSUME UNCHANGED <<payments, orders>>
      PROVE  /\ payments' = payments
             /\ \A o \in Orders :
                  orders'[o].status = "completed" => orders[o].status = "completed"
  BY <1>1
<1>2. ASSUME NEW t \in Txns, SaveEdit(t)
      PROVE  /\ payments' = payments
             /\ \A o \in Orders :
                  orders'[o].status = "completed" => orders[o].status = "completed"
  <2> DEFINE sum == TotalOf(InMemory(desk[t]))
             q == desk[t].order
  <2>1. /\ payments' = payments
        /\ orders' = orders \/ orders' = [orders EXCEPT ![q].total = sum]
    BY <1>2 DEF SaveEdit
  <2> HIDE DEF sum, q
  <2> QED
    BY <1>0, <2>1
<1>3. ASSUME NEW t \in Txns, AllocateNumber(t) \/ InsertSequence(t)
      PROVE  UNCHANGED <<payments, orders>>
  BY <1>3 DEF AllocateNumber, InsertSequence, TakeNumber, deskVars
<1>4. ASSUME NEW t \in Txns, DeskRequest(t) PROVE UNCHANGED <<payments, orders>>
  BY <1>4 DEF DeskRequest, ReadForEdit, ReadForSale, Arrive
<1>5. ASSUME NEW t \in Txns, Deduct(t) \/ Check(t) \/ NextItem(t) \/ StockRequest(t) \/ CrashDesk(t)
      PROVE  UNCHANGED <<payments, orders>>
  BY <1>5 DEF Deduct, Check, NextItem, StockRequest, CrashDesk, deskVars
<1>6. ASSUME NEW o \in Orders, CreateOrder(o)
      PROVE  /\ payments' = payments
             /\ \A q \in Orders :
                  orders'[q].status = "completed" => orders[q].status = "completed"
  BY <1>0, <1>6 DEF CreateOrder
<1>7. ASSUME \/ Catalogue /\ UNCHANGED deskVars
             \/ \E p \in Products, s \in {"active", "inactive"} : SwitchRecipe(p, s)
             \/ UNCHANGED allVars
      PROVE  UNCHANGED <<payments, orders>>
  BY <1>7 DEF SwitchRecipe, deskVars, allVars
<1> QED
  BY <1>1, <1>2, <1>3, <1>4, <1>5, <1>6, <1>7 DEF DeskNext, DeskStep

LEMMA PaymentsStep ==
  ASSUME ClientKeys, OneAtATime, BooksOfDesk, [DeskNext]_allVars
  PROVE  PaymentsInv'
<1>0. DeskInv /\ OrdersInv /\ PaymentsInv /\ \A o \in Orders : Final(o)
  BY FinalStep DEF BooksOfDesk
<1>1. \A p \in payments : p.order \in Orders /\ p.items \subseteq OrderItem
  BY <1>0 DEF DeskInv, DeskTypeOK, PaymentRow
<1>2. ledger \subseteq ledger'
  BY <1>0, MomentOfStep DEF Moment, Gives, Keeps, Begins, Sells, Moves, Takes, Publishes
\* What was settled stays so.
<1>3. \A p \in payments :
        /\ orders'[p.order].status = "completed" /\ p.items = ItemsOf(p.order)'
        /\ p.amount >= orders'[p.order].total /\ p.number = orders'[p.order].receipt
        /\ \A i \in p.items : InFull(i)'
  <2> SUFFICES ASSUME NEW p \in payments
               PROVE  /\ orders'[p.order].status = "completed" /\ p.items = ItemsOf(p.order)'
                      /\ p.amount >= orders'[p.order].total
                      /\ p.number = orders'[p.order].receipt
                      /\ \A i \in p.items : InFull(i)'
    OBVIOUS
  <2>1. orders[p.order].status = "completed" /\ Final(p.order)
    BY <1>0, <1>1 DEF PaymentsInv
  <2>2. orders'[p.order] = orders[p.order] /\ ItemsOf(p.order)' = ItemsOf(p.order)
    BY <2>1 DEF Final
  <2>3. \A i \in p.items : InFull(i)'
    BY <1>0, <1>2, InFullStays DEF PaymentsInv
  <2> QED
    BY <1>0, <2>1, <2>2, <2>3 DEF PaymentsInv
<1>4. CASE \A t \in Txns : ~Settle(t, "done") /\ ~Settle(t, "unanswered")
  <2>1. /\ payments' = payments
        /\ \A o \in Orders : orders'[o].status = "completed" => orders[o].status = "completed"
    BY <1>0, <1>4, OnlySettlePays
  <2>2. \A m \in ledger', k \in 1 .. MaxItems, q \in Products :
          m.key = SaleKey(k, q) => \E p \in payments : \E i \in p.items : i.id = k
    <3>1. \/ ledger' = ledger
          \/ \E t \in Txns : ledger' = ledger \cup staged[t] /\ desk[t] = NoDesk
      <4>1. ASSUME NEW t \in Txns, Publishes(t) PROVE desk[t] = NoDesk
        <5>1. ASSUME payments' = payments \cup
                {[txn |-> t, order |-> desk[t].order, amount |-> desk[t].amount,
                  number |-> desk[t].number, total |-> desk[t].total,
                  items |-> desk[t].items]},
                desk[t].op = "sale"
              PROVE  FALSE
          <6> DEFINE pay == [txn |-> t, order |-> desk[t].order, amount |-> desk[t].amount,
                             number |-> desk[t].number, total |-> desk[t].total,
                             items |-> desk[t].items]
          <6>1. pay \in payments /\ pay.order = desk[t].order
            BY <2>1, <5>1
          <6> HIDE DEF pay
          <6>2. orders[desk[t].order].status = "completed"
            BY <1>0, <6>1 DEF PaymentsInv
          <6> QED
            BY <1>0, <5>1, <6>2 DEF OrdersInv, Alone, Fresh, Open
        <5> QED
          BY <4>1, <5>1 DEF Publishes
      <4>2. \/ UNCHANGED ledger
            \/ \E t \in Txns : Publishes(t)
        BY <1>0, MomentOfStep DEF Moment, Gives, Keeps, Begins, Sells, Moves, Takes
      <4> QED
        BY <4>1, <4>2 DEF Publishes
    <3>2. NoDesk.op # "sale"
      BY DEF NoDesk
    <3> QED
      BY <1>0, <3>1, <3>2 DEF PaymentsInv, BooksOfDesk, RightOf
  <2>3. \A o \in Orders : orders'[o].status = "completed" => PaymentsOf(o)' # {}
    BY <1>0, <2>1 DEF PaymentsInv, PaymentsOf
  <2> QED
    BY <1>0, <1>3, <2>1, <2>2, <2>3 DEF PaymentsInv
<1>5. ASSUME NEW t \in Txns, NEW fate \in Ended, Settle(t, fate)
      PROVE  PaymentsInv'
  <2>0. PICK d, o : d = desk[t] /\ o = d.order
    OBVIOUS
  <2> DEFINE pay == [txn |-> t, order |-> o, amount |-> d.amount, number |-> d.number,
                     total |-> d.total, items |-> d.items]
  <2>1. /\ d.op = "sale" /\ payments' = payments \cup {pay} /\ items' = items
        /\ orders' = [orders EXCEPT ![o].status = "completed", ![o].receipt = d.number]
        /\ ledger' = ledger \cup staged[t]
    BY <1>5, <2>0 DEF Settle, Deducted, Publish
  <2>2. d \in SaleDesk /\ o \in Orders
    <3>1. SaleFits(d)
      BY <1>0, <2>0, <2>1 DEF DeskInv, DeskFits, NoDesk, EditFits, EditDesk
    <3> QED
      BY <2>0, <3>1 DEF SaleFits, SaleDesk
  <2>3. /\ orders[o].status = "open" /\ d.items = ItemsOf(o) /\ d.total = orders[o].total
        /\ d.amount >= d.total
    BY <1>0, <2>0, <2>1 DEF OrdersInv, Alone, Fresh, Open, BooksOfDesk, EnteredInv, Entered
  <2>4. /\ pay.order = o /\ pay.items = d.items /\ pay.amount = d.amount
        /\ pay.number = d.number
    OBVIOUS
  <2> HIDE DEF pay
  <2>5. /\ orders'[o].status = "completed" /\ orders'[o].receipt = d.number
        /\ orders'[o].total = orders[o].total
        /\ \A q \in Orders \ {o} : orders'[q] = orders[q]
    BY <1>0, <2>1, <2>2 DEF DeskInv, DeskTypeOK
  <2>6. ItemsOf(o)' = ItemsOf(o)
    BY <2>1 DEF ItemsOf
  <2>7. \A i \in d.items : InFull(i)'
    BY <1>5, <2>0, <2>1, SettleInFull
  <2>8. \A p \in payments : p.order # o
    BY <1>0, <2>3 DEF PaymentsInv
  <2>9. \A p \in payments' :
          /\ orders'[p.order].status = "completed" /\ p.items = ItemsOf(p.order)'
          /\ p.amount >= orders'[p.order].total /\ p.number = orders'[p.order].receipt
          /\ \A q \in payments' : q.order = p.order => q = p
          /\ \A i \in p.items : InFull(i)'
    <3>1. \A p, q \in payments' : q.order = p.order => q = p
      BY <1>0, <2>1, <2>4, <2>8 DEF PaymentsInv
    <3>2. /\ orders'[pay.order].status = "completed" /\ pay.items = ItemsOf(pay.order)'
          /\ pay.amount >= orders'[pay.order].total /\ pay.number = orders'[pay.order].receipt
          /\ \A i \in pay.items : InFull(i)'
      BY <2>3, <2>4, <2>5, <2>6, <2>7
    <3> QED
      BY <1>3, <2>1, <3>1, <3>2
  <2>10. \A q \in Orders : orders'[q].status = "completed" => PaymentsOf(q)' # {}
    <3>1. pay \in PaymentsOf(o)'
      BY <2>1, <2>4 DEF PaymentsOf
    <3>2. \A q \in Orders \ {o} : PaymentsOf(q) \subseteq PaymentsOf(q)'
      BY <2>1 DEF PaymentsOf
    <3> QED
      BY <1>0, <2>5, <3>1, <3>2 DEF PaymentsInv
  <2>11. \A m \in ledger', k \in 1 .. MaxItems, q \in Products :
           m.key = SaleKey(k, q) => \E p \in payments' : \E i \in p.items : i.id = k
    <3>1. ASSUME NEW m \in staged[t], NEW k \in 1 .. MaxItems, NEW q \in Products,
                 m.key = SaleKey(k, q)
          PROVE  \E i \in pay.items : i.id = k
      BY <2>0, <2>4, <3>1 DEF BooksOfDesk, RightOf
    <3> QED
      BY <1>0, <2>1, <3>1 DEF PaymentsInv
  <2> QED
    BY <2>9, <2>10, <2>11 DEF PaymentsInv
<1> QED
  BY <1>4, <1>5 DEF Ended

\* Where requests on one order come one after the other and clients keep to their own
\* keys, a completed order has exactly one payment, of at least its total, the receipt
\* number taken with it, and every line deducted in full, whatever recipes are switched
\* while it is sold (complete_sale).
THEOREM CompletedIsSettled ==
  ASSUME ClientKeys, OneAtATime PROVE DeskSpec => []SettledInFull
<1>1. DeskInit => OrdersInv /\ EnteredInv /\ SoldInv /\ PaymentsInv /\ \A t \in Txns : RightOf(t)
  <2>1. DeskInit => EnteredInv
    BY DEF DeskInit, Init, EnteredInv, Entered, NoDesk
  <2>2. DeskInit => SoldInv
    BY DEF DeskInit, SoldInv, SoldMoved, PaidLinesMoved, NoDesk
  <2>3. DeskInit => PaymentsInv
    BY DEF DeskInit, Init, PaymentsInv
  <2>4. DeskInit => \A t \in Txns : RightOf(t)
    BY DEF DeskInit, Init, RightOf, Posts, Running
  <2> QED
    BY <2>1, <2>2, <2>3, <2>4, OrdersBegin
<1>2. ASSUME BooksOfDesk, [DeskNext]_allVars
      PROVE  (OrdersInv /\ EnteredInv /\ SoldInv /\ PaymentsInv /\ \A t \in Txns : RightOf(t))'
  <2>1. DeskInv /\ OrdersInv /\ EnteredInv /\ SoldInv /\ \A t \in Txns : RightOf(t)
    BY <1>2 DEF BooksOfDesk
  <2>2. CASE UNCHANGED <<ledger, staged, payments, desk, pc, lines, at>>
    <3>1. SoldInv'
      BY <2>1, <2>2 DEF SoldInv, SoldMoved, PaidLinesMoved, Dealt, MovedIn, Posting, Keyed, KeyIn
    <3>2. (\A t \in Txns : RightOf(t))'
      BY <2>1, <2>2 DEF RightOf
    <3> QED
      BY <1>2, <2>1, <3>1, <3>2, OrdersStep, EnteredStep, PaymentsStep
  <2>3. ASSUME NEW t \in Txns, Moment(t) PROVE SoldInv' /\ \A u \in Txns : RightOf(u)'
    BY <2>1, <2>3, SoldMoment, RightMoment
  <2> QED
    BY <1>2, <2>1, <2>2, <2>3, MomentOfStep, OrdersStep, EnteredStep, PaymentsStep
<1>3. PaymentsInv => SettledInFull
  <2> SUFFICES ASSUME PaymentsInv, NEW o \in Orders, orders[o].status = "completed"
               PROVE  /\ \E p \in payments :
                           /\ PaymentsOf(o) = {p}
                           /\ p.amount >= orders[o].total
                           /\ p.number = orders[o].receipt
                      /\ \A i \in ItemsOf(o) : InFull(i)
    BY DEF SettledInFull
  <2>1. PICK p \in payments : p.order = o
    BY DEF PaymentsInv, PaymentsOf
  <2>2. PaymentsOf(o) = {p}
    BY <2>1 DEF PaymentsInv, PaymentsOf
  <2> QED
    BY <2>1, <2>2 DEF PaymentsInv
<1> QED
  BY <1>1, <1>2, <1>3, DeskInductive, PTL DEF DeskSpec, BooksOfDesk
=============================================================================
