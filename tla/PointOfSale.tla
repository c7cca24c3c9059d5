------------------------------ MODULE PointOfSale ------------------------------
(***************************************************************************)
(* Orders, their lines, their completion and the receipts of               *)
(* app/modules/pos, on top of the transactions of StockLedger: completing  *)
(* an order posts the deductions of all its lines (through the recipe of   *)
(* the product, if it has an active one), records a payment and takes the  *)
(* next receipt number, in one transaction.                                *)
(*                                                                         *)
(* Every request reads the order without a lock, checks that it is open,   *)
(* and writes later from what it read: between the two, other requests on  *)
(* the same order may commit.  The session never refreshes what it has     *)
(* loaded, and an UPDATE writes only the columns the request changed.      *)
(*                                                                         *)
(* Prices and the contents of recipes are constants, RecipeBook has those  *)
(* who edit recipes, and money is not rounded.                             *)
(***************************************************************************)
EXTENDS StockLedger

CONSTANTS
  Orders,      \* orders of the tenant
  MaxItems,    \* bound: order lines created, ever
  Price,       \* unit_price_minor of each product
  SalesUnits,  \* the <<product, unit>> pairs with is_sales
  Recipe,      \* the ingredient lines of each product's recipe, <<>> if none
  Yields,      \* yields_quantity of each product's recipe
  Quantities,  \* the quantities a cashier enters
  Extras,      \* how far the amount tendered is from the total
  Edits,       \* the edits clients send: a subset of {"add", "update", "remove"}
  OneAtATime   \* whether the requests on one order come one after the other

\* A recipe line: how much of the ingredient goes into the meals a recipe yields.  What
\* goes into one is a quotient; the quarters are fine enough for those of Quantities.
Ingredient == [product : Products, unit : Units, qty : Nat \ {0}]

\* The keys of sale movements: "sale:{order}:{item}" for the product itself and
\* "sale:{item}:{recipe item}" for an ingredient.  A recipe has an ingredient once
\* and never the meal, so the line and the product deducted tell keys apart.
SaleKey(i, p) == <<i, p>>

ASSUME DeskAssumption ==
  /\ MaxItems \in Nat
  /\ Price \in [Products -> Nat]
  /\ SalesUnits \subseteq Products \X Units
  /\ \A p \in Products : <<p, BaseUnit>> \in SalesUnits
  /\ Recipe \in [Products -> Seq(Ingredient)]
  /\ \A p \in Products : \A i, j \in DOMAIN Recipe[p] :
       /\ Recipe[p][i].product # p
       /\ Recipe[p][i].product = Recipe[p][j].product => i = j
  /\ Yields \in [Products -> Nat \ {0}]
  /\ \A p \in Products : \A i \in DOMAIN Recipe[p] :
       \A q \in Quantities : (Recipe[p][i].qty * q) % Yields[p] = 0
  /\ Quantities \subseteq Nat \ {0}
  /\ Extras \subseteq Int
  /\ Edits \subseteq {"add", "update", "remove"}
  /\ OneAtATime \in BOOLEAN
  /\ {SaleKey(i, p) : i \in 1 .. MaxItems, p \in Products} \subseteq Keys

VARIABLES
  orders,        \* status, total and receipt number (0 for NULL) of each order
  items,         \* order_items: the committed lines of all orders
  created,       \* how many lines were ever created
  payments,      \* the committed payments
  nextReceipt,   \* pos_receipt_sequences.next_receipt_number, 0 without a row
  seqHolder,     \* the transaction holding or inserting that row, if any
  recipeStatus,  \* recipes.status by product, "none" without a recipe
  desk           \* what each session has in memory

deskVars == <<orders, items, created, payments, nextReceipt, seqHolder, recipeStatus, desk>>
allVars == <<vars, deskVars>>

\* The session of a request that has read nothing of an order, or has ended.
NoDesk == [op |-> "none"]
Closed(t) == [desk EXCEPT ![t] = NoDesk]

LineTotal(p, q) == q * Price[p]
TotalOf(S) == MapThenSumSet(LAMBDA i : i.lineTotal, S)
ItemsOf(o) == {i \in items : i.order = o}
PaymentsOf(o) == {p \in payments : p.order = o}
Open(o) == orders[o].status = "open"

\* A request on the order is being handled.
Busy(o) == \E t \in Txns : desk[t].op # "none" /\ desk[t].order = o

-----------------------------------------------------------------------------
DeskInit ==
  /\ Init
  /\ orders = [o \in Orders |-> [status |-> "none", total |-> 0, receipt |-> 0]]
  /\ items = {}
  /\ created = 0
  /\ payments = {}
  /\ nextReceipt = 0
  /\ seqHolder = Free
  /\ recipeStatus = [p \in Products |-> IF Recipe[p] = <<>> THEN "none" ELSE "active"]
  /\ desk = [t \in Txns |-> NoDesk]

\* create_order
CreateOrder(o) ==
  /\ orders[o].status = "none"
  /\ orders' = [orders EXCEPT ![o].status = "open"]
  /\ UNCHANGED <<vars, items, created, payments, nextReceipt, seqHolder, recipeStatus, desk>>

\* update_recipe with a status
SwitchRecipe(p, s) ==
  /\ recipeStatus[p] \notin {"none", s}
  /\ recipeStatus' = [recipeStatus EXCEPT ![p] = s]
  /\ UNCHANGED <<vars, orders, items, created, payments, nextReceipt, seqHolder, desk>>

-----------------------------------------------------------------------------
(* add_item, update_item and remove_item *)

\* The request reaches the order and reads it with its lines.
Arrive(t, o, next, d) ==
  /\ pc[t] = "idle"
  /\ orders[o].status # "none"
  /\ OneAtATime => ~Busy(o)
  /\ pc' = [pc EXCEPT ![t] = next]
  /\ desk' = [desk EXCEPT ![t] = IF next = "failed" THEN NoDesk ELSE d]
  /\ UNCHANGED <<orders, items, created, payments, nextReceipt, seqHolder, recipeStatus>>

Untouched == UNCHANGED <<catalogue, kind, lines, at, rows, lock, stock>>

\* Mutant of ReadForEdit: the order need not be open.
ReadAnyForEdit(t, op, o, what, q) ==
  /\ op \in Edits
  /\ Arrive(t, o, "check",
       [op |-> op, order |-> o, what |-> what, qty |-> q, found |-> {},
        items |-> ItemsOf(o), total |-> orders[o].total])
  /\ Untouched

\* _require_open_order.  What the request names is a <<product, unit>> to add, or
\* the id of a line to update or remove.
ReadForEdit(t, op, o, what, q) ==
  /\ op \in Edits
  /\ Arrive(t, o, IF Open(o) THEN "check" ELSE "failed",
       [op |-> op, order |-> o, what |-> what, qty |-> q, found |-> {},
        items |-> ItemsOf(o), total |-> orders[o].total])
  /\ Untouched

Sellable(p, u) == status[p] = "active" /\ u \in units[p] /\ <<p, u>> \in SalesUnits

\* get_item: the line is looked for in the database, but a line the session read
\* with the order stays as it was read.
Found(d) ==
  IF \E i \in items : i.id = d.what /\ i.order = d.order
  THEN LET known == {i \in d.items : i.id = d.what}
       IN IF known # {} THEN known ELSE {i \in items : i.id = d.what}
  ELSE {}

\* The line an edit changes: the one it names, or for add_item the one with the
\* same product and unit, if the order had one when it was read.
Target(d) ==
  CASE d.op = "add" -> {i \in d.items : <<i.product, i.unit>> = d.what}
    [] d.op = "update" -> d.found
    [] OTHER -> {i \in d.items : i.id = d.what}

\* add_item reads the product and its unit, update_item the line; remove_item looks
\* the line up in memory.
Check(t) ==
  LET d == [desk[t] EXCEPT !.found = IF desk[t].op = "update" THEN Found(desk[t]) ELSE {}]
      fine == IF d.op = "add" THEN Sellable(d.what[1], d.what[2]) ELSE Target(d) # {}
  IN /\ pc[t] = "check"
     /\ pc' = [pc EXCEPT ![t] = IF fine THEN "edit" ELSE "failed"]
     /\ desk' = IF fine THEN [desk EXCEPT ![t] = d] ELSE Closed(t)
     /\ UNCHANGED <<orders, items, created, payments, nextReceipt, seqHolder, recipeStatus>>
     /\ Untouched

\* Mutant of NewItem: the id of an earlier line.
NewItemAgain(d) ==
  [id |-> created, order |-> d.order, product |-> d.what[1], unit |-> d.what[2],
   qty |-> d.qty, lineTotal |-> LineTotal(d.what[1], d.qty)]

NewItem(d) ==
  [id |-> created + 1, order |-> d.order, product |-> d.what[1], unit |-> d.what[2],
   qty |-> d.qty, lineTotal |-> LineTotal(d.what[1], d.qty)]

\* add_item merges into the quantity the session read; update_item replaces it.
Rewritten(d, i) ==
  LET q == IF d.op = "add" THEN i.qty + d.qty ELSE d.qty
  IN [i EXCEPT !.qty = q, !.lineTotal = LineTotal(i.product, q)]

\* Mutant of InMemory: the line stays beside its new version.
InMemoryTwice(d) ==
  CASE d.op = "remove" -> d.items \ Target(d)
    [] d.op = "add" /\ Target(d) = {} -> d.items \cup {NewItem(d)}
    [] OTHER -> d.items \cup {Rewritten(d, i) : i \in Target(d)}

\* order.items as the session holds it after the edit: a line found only by
\* get_item does not join it.
InMemory(d) ==
  CASE d.op = "remove" -> d.items \ Target(d)
    [] d.op = "add" /\ Target(d) = {} -> d.items \cup {NewItem(d)}
    [] OTHER -> (d.items \ Target(d)) \cup {Rewritten(d, i) : i \in Target(d) \cap d.items}

\* The lines the edit UPDATEs: rewritten ones that differ from what was read.
Updated(d) ==
  IF d.op = "remove" THEN {} ELSE {Rewritten(d, i) : i \in Target(d)} \ Target(d)

\* The commit: the line's changed columns and, if it changed, the order's total.
\* Nothing checks again that the order is open.  The UPDATE of a line that was
\* deleted meanwhile matches no row and fails the request (StaleDataError); a
\* DELETE that matches no row does not.
SaveEdit(t) ==
  LET d == desk[t]
      new == InMemory(d) \ (d.items \cup Updated(d))
      gone == d.items \ InMemory(d)
  IN /\ pc[t] = "edit"
     /\ created + Cardinality(new) <= MaxItems
     /\ IF \A i \in Updated(d) : \E j \in items : j.id = i.id
        THEN /\ pc' = [pc EXCEPT ![t] = "done"]
             /\ items' = {i \in items : \A j \in gone \cup Updated(d) : j.id # i.id}
                           \cup Updated(d) \cup new
             /\ created' = created + Cardinality(new)
             /\ orders' = IF TotalOf(InMemory(d)) = d.total THEN orders
                          ELSE [orders EXCEPT ![d.order].total = TotalOf(InMemory(d))]
        ELSE /\ pc' = [pc EXCEPT ![t] = "failed"]
             /\ UNCHANGED <<items, created, orders>>
     /\ desk' = Closed(t)
     /\ UNCHANGED <<payments, nextReceipt, seqHolder, recipeStatus>>
     /\ Untouched

-----------------------------------------------------------------------------
(* complete_sale *)

\* The order is open, has lines, and enough is tendered.
ReadForSale(t, o, extra) ==
  /\ Arrive(t, o,
       IF Open(o) /\ ItemsOf(o) # {} /\ extra >= 0 THEN "commit" ELSE "failed",
       [op |-> "sale", order |-> o, items |-> ItemsOf(o), total |-> orders[o].total,
        todo |-> ItemsOf(o), amount |-> orders[o].total + extra, number |-> 0,
        statuses |-> [p \in Products |-> "unread"],
        recipes |-> [p \in Products |-> "unread"]])
  /\ kind' = [kind EXCEPT ![t] = "sale"]
  /\ UNCHANGED <<catalogue, lines, at, rows, lock, stock>>

\* The identity map is weak: what no call under way refers to is forgotten, or is not.
Forgotten(d) ==
  [d EXCEPT !.recipes = [p \in Products |-> "unread"],
            !.statuses = [p \in Products |-> "unread"]]

StillHeld(d) == {d, Forgotten(d)}

\* The recipe of p and its products: what the session holds of them is not refreshed.
RecipeRead(d, p) == IF d.recipes[p] = "unread" THEN recipeStatus[p] ELSE d.recipes[p]

RecipeProducts(p) == {p} \cup {Recipe[p][n].product : n \in DOMAIN Recipe[p]}

StatusesRead(d, p) ==
  [q \in Products |->
    IF RecipeRead(d, p) # "none" /\ q \in RecipeProducts(p) /\ d.statuses[q] = "unread"
    THEN status[q] ELSE d.statuses[q]]

\* Mutant of Deductions: the movements of an order's lines share their keys.
DeductionsByProduct(d, i) ==
  LET p == IF RecipeRead(d, i.product) = "active" THEN Recipe[i.product][1].product
                                                  ELSE i.product
  IN <<[product |-> p, unit |-> i.unit, qty |-> i.qty, key |-> SaleKey(1, p)]>>

\* Mutant of Deductions: the quantity is that of the line as it is now, not as it was read.
DeductionsAfresh(d, i) ==
  LET g == Recipe[i.product][1]
      sold == (CHOOSE j \in items : j.id = i.id).qty
  IN <<[product |-> g.product, unit |-> g.unit, qty |-> (g.qty * sold) \div Yields[i.product],
        key |-> SaleKey(i.id, g.product)]>>

\* consume_for_sale_line: the ingredients when the product has an active recipe,
\* otherwise the product itself.
Deductions(d, i) ==
  IF RecipeRead(d, i.product) = "active"
  THEN [n \in DOMAIN Recipe[i.product] |->
         LET g == Recipe[i.product][n]
         IN [product |-> g.product, unit |-> g.unit,
             qty |-> (g.qty * i.qty * Factor[<<i.product, i.unit>>]) \div Yields[i.product],
             key |-> SaleKey(i.id, g.product)]]
  ELSE <<[product |-> i.product, unit |-> i.unit, qty |-> i.qty,
          key |-> SaleKey(i.id, i.product)]>>

\* The session after it has read the recipe of the line i.
AtItem(d, i) ==
  [d EXCEPT !.todo = @ \ {i},
            !.recipes = [@ EXCEPT ![i.product] = RecipeRead(d, i.product)],
            !.statuses = StatusesRead(d, i.product)]

\* The next line of the order.  The lines were read in no particular order.  What the
\* last one read may be gone; what this one reads is held while its recipe is followed.
NextItem(t) ==
  /\ pc[t] = "commit"
  /\ desk[t].op = "sale"
  /\ \E i \in desk[t].todo, d \in StillHeld(desk[t]) :
       /\ lines' = [lines EXCEPT ![t] = Deductions(d, i)]
       /\ \E e \in IF RecipeRead(d, i.product) = "active" THEN {AtItem(d, i)}
                                                         ELSE StillHeld(AtItem(d, i)) :
            desk' = [desk EXCEPT ![t] = e]
  /\ at' = [at EXCEPT ![t] = 1]
  /\ pc' = [pc EXCEPT ![t] = "lookup"]
  /\ UNCHANGED <<catalogue, kind, rows, lock, stock>>
  /\ UNCHANGED <<orders, items, created, payments, nextReceipt, seqHolder, recipeStatus>>

\* get_product during a sale: a recipe may have brought the product along.
ReadSoldProduct(t) ==
  /\ pc[t] = "product"
  /\ IF desk[t].op = "sale" /\ desk[t].statuses[Current(t).product] # "unread"
     THEN \/ CheckProduct(t, desk[t].statuses[Current(t).product])
          \/ Moved(t) /\ CheckProduct(t, "active")
     ELSE ReadProduct(t)

\* The movements of every line are flushed.
Deducted(t) == pc[t] = "commit" /\ desk[t].op = "sale" /\ desk[t].todo = {}

\* Mutant of TakeNumber: the number is read without the row's lock.
TakeSameNumber(t, n) ==
  /\ seqHolder' = t
  /\ desk' = [desk EXCEPT ![t].number = n]
  /\ UNCHANGED <<orders, items, created, payments, nextReceipt, recipeStatus>>

TakeNumber(t, n) ==
  /\ seqHolder = Free
  /\ seqHolder' = t
  /\ desk' = [desk EXCEPT ![t].number = n]
  /\ UNCHANGED <<orders, items, created, payments, nextReceipt, recipeStatus>>

\* allocate_receipt_number: UPDATE ... RETURNING waits for the row's lock, and
\* finds no row before the tenant's first sale is committed.
AllocateNumber(t) ==
  /\ Deducted(t)
  /\ desk[t].number = 0
  /\ IF nextReceipt # 0
     THEN TakeNumber(t, nextReceipt) /\ UNCHANGED vars
     ELSE /\ pc' = [pc EXCEPT ![t] = "insert"]
          /\ Untouched
          /\ UNCHANGED deskVars

\* The first sale inserts the row; a concurrent first sale waits for it on the
\* primary key and fails when it is committed.
InsertSequence(t) ==
  /\ pc[t] = "insert"
  /\ IF nextReceipt = 0
     THEN /\ TakeNumber(t, 1)
          /\ pc' = [pc EXCEPT ![t] = "commit"]
          /\ Untouched
     ELSE /\ Rollback(t, "failed")
          /\ desk' = Closed(t)
          /\ UNCHANGED <<orders, items, created, payments, nextReceipt, seqHolder, recipeStatus>>

\* The commit publishes the movements with the payment, the order's new status and
\* receipt number, whatever became of the order since it was read.
Settle(t, fate) ==
  LET d == desk[t]
  IN /\ Deducted(t)
     /\ d.number # 0
     /\ Publish(t, fate)
     /\ orders' = [orders EXCEPT ![d.order].status = "completed",
                                 ![d.order].receipt = d.number]
     /\ payments' = payments \cup
          {[txn |-> t, order |-> d.order, amount |-> d.amount, number |-> d.number,
            total |-> d.total, items |-> d.items]}
     /\ nextReceipt' = d.number + 1
     /\ seqHolder' = Free
     /\ desk' = Closed(t)
     /\ UNCHANGED <<items, created, recipeStatus>>

\* The process dies during a sale, or during an edit, which has written nothing.
CrashDesk(t) ==
  /\ pc[t] \in Running \cup {"check", "edit", "insert"}
  /\ Rollback(t, "unanswered")
  /\ seqHolder' = IF seqHolder = t THEN Free ELSE seqHolder
  /\ desk' = Closed(t)
  /\ UNCHANGED <<orders, items, created, payments, nextReceipt, recipeStatus>>

-----------------------------------------------------------------------------
\* The steps of a sale that StockLedger already describes.
Deduct(t) ==
  /\ \/ LookUp(t) \/ ReadSoldProduct(t) \/ ReadUnit(t) \/ Lock(t)
     \/ Refuse(t) \/ DuplicateKey(t) \/ Post(t) \/ DeadlockVictim(t)
  /\ desk' = IF pc'[t] = "failed" THEN Closed(t) ELSE desk
  /\ UNCHANGED <<orders, items, created, payments, nextReceipt, seqHolder, recipeStatus>>

\* A stock receipt, usage or adjustment runs to its commit.
StockRequest(t) ==
  /\ desk[t].op = "none"
  /\ \/ \E r \in Requests : Begin(t, r)
     \/ Commit(t)
  /\ UNCHANGED deskVars

\* Clients name lines that were created at some time.
DeskRequest(t) ==
  \E o \in Orders :
    \/ \E pu \in Products \X Units, q \in Quantities : ReadForEdit(t, "add", o, pu, q)
    \/ \E id \in 1 .. created, q \in Quantities : ReadForEdit(t, "update", o, id, q)
    \/ \E id \in 1 .. created : ReadForEdit(t, "remove", o, id, 0)
    \/ \E extra \in Extras : ReadForSale(t, o, extra)

DeskStep(t) ==
  \/ Deduct(t)
  \/ Check(t)
  \/ SaveEdit(t)
  \/ NextItem(t)
  \/ AllocateNumber(t)
  \/ InsertSequence(t)
  \/ Settle(t, "done")

DeskNext ==
  \/ Catalogue /\ UNCHANGED deskVars
  \/ \E o \in Orders : CreateOrder(o)
  \/ \E p \in Products, s \in {"active", "inactive"} : SwitchRecipe(p, s)
  \/ \E t \in Txns :
       \/ StockRequest(t)
       \/ DeskRequest(t)
       \/ DeskStep(t)
       \/ CrashDesk(t)
       \/ Settle(t, "unanswered")

DeskSpec == DeskInit /\ [][DeskNext]_allVars

-----------------------------------------------------------------------------
(* Properties *)

OrderItem == [id : 1 .. MaxItems, order : Orders, product : Products, unit : Units,
              qty : Nat, lineTotal : Nat]

PaymentRow == [txn : Txns, order : Orders, amount : Nat, number : Nat \ {0},
               total : Nat, items : SUBSET OrderItem]

\* Every variable of the point of sale has its type (pos/models.py); a line is
\* created once.
DeskTypeOK ==
  /\ orders \in [Orders -> [status : {"none", "open", "completed"}, total : Nat, receipt : Nat]]
  /\ items \subseteq OrderItem
  /\ \A i, j \in items : i.id = j.id => i = j
  /\ \A i \in items : i.id <= created
  /\ payments \subseteq PaymentRow
  /\ nextReceipt \in Nat
  /\ seqHolder \in Txns \cup {Free}
  /\ recipeStatus \in [Products -> {"none", "active", "inactive"}]

\* Receipt numbers are given in order, without gaps or repetitions, whatever sales
\* fail after taking one, crash, or insert the first row together
\* (allocate_receipt_number).
ReceiptNumbersInOrder ==
  /\ \A p, q \in payments : p.number = q.number => p = q
  /\ {p.number : p \in payments} = 1 .. nextReceipt - 1

Keyed(k) == \E m \in ledger : m.key = k

\* Nothing is sold without moving stock: every line a payment was taken for has the
\* movement of its product or those of all its ingredients, also when two sales of
\* one order overlap, recipes are switched and lines edited between them
\* (complete_sale, consume_for_sale_line).
PaidLinesMoved ==
  \A p \in payments : \A i \in p.items :
    \/ Keyed(SaleKey(i.id, i.product))
    \/ /\ Recipe[i.product] # <<>>
       /\ \A n \in DOMAIN Recipe[i.product] : Keyed(SaleKey(i.id, Recipe[i.product][n].product))

\* What is sold of the product of the line i, in its base unit.
Sold(i) == i.qty * Factor[<<i.product, i.unit>>]

\* delta takes n / d out of stock, to half of the last place.
Near(delta, n, d) ==
  LET off == delta * d + n
  IN delta % 4 = 0 /\ -2 * d <= off /\ off <= 2 * d

\* The movement m takes as much as the line i asks of its product, or of an ingredient.
MovesFor(m, i) ==
  \/ m.product = i.product /\ Near(m.delta, Sold(i), 1)
  \/ \E n \in DOMAIN Recipe[i.product] :
       LET g == Recipe[i.product][n]
       IN /\ m.product = g.product
          /\ Near(m.delta, g.qty * Sold(i) * Factor[<<g.product, g.unit>>], Yields[i.product])

\* What stock moves for a sale was paid, and as much as was paid: a movement is for a line
\* on the payment of its own transaction, in the quantity that payment was for, also when
\* the line is edited, sold by another request or its recipe switched meanwhile.  The
\* movements of a sale that fails at a later line, or dies, disappear with it.
NothingMovedUnpaid ==
  \A m \in ledger, i \in 1 .. MaxItems :
    m.key = SaleKey(i, m.product) =>
      \E p \in payments :
        p.txn = m.txn /\ \E j \in p.items : j.id = i /\ MovesFor(m, j)

-----------------------------------------------------------------------------
(* Properties of orders handled one request at a time *)

\* What a customer is asked for is the sum of the lines of the order.
TotalIsSumOfLines ==
  \A o \in Orders : orders[o].total = TotalOf(ItemsOf(o))

\* The movement of key k took n / d of p out of stock.
Took(k, p, n, d) == \E m \in ledger : m.key = k /\ m.product = p /\ Near(m.delta, n, d)

InFull(i) ==
  \/ Took(SaleKey(i.id, i.product), i.product, Sold(i), 1)
  \/ /\ Recipe[i.product] # <<>>
     /\ \A n \in DOMAIN Recipe[i.product] :
          LET g == Recipe[i.product][n]
          IN Took(SaleKey(i.id, g.product), g.product,
                  g.qty * Sold(i) * Factor[<<g.product, g.unit>>], Yields[i.product])

\* A completed order has one payment, of at least its total, the receipt number
\* taken with it, and all its lines deducted in full (complete_sale).
SettledInFull ==
  \A o \in Orders :
    orders[o].status = "completed" =>
      /\ \E p \in payments :
           /\ PaymentsOf(o) = {p}
           /\ p.amount >= orders[o].total
           /\ p.number = orders[o].receipt
      /\ \A i \in ItemsOf(o) : InFull(i)

\* A completed order is never touched again, and an open one keeps its lines when
\* it is completed (_require_open_order).
CompletedIsFinal ==
  [][\A o \in Orders :
       /\ orders[o].status = "completed" =>
            /\ orders'[o] = orders[o]
            /\ ItemsOf(o)' = ItemsOf(o)
            /\ PaymentsOf(o)' = PaymentsOf(o)
       /\ orders'[o].status = "completed" => ItemsOf(o)' = ItemsOf(o)]_allVars
=============================================================================
