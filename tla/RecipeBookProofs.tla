---------------------------- MODULE RecipeBookProofs ----------------------------
(***************************************************************************)
(* Theorems about RecipeBook: for any number of editors and sales, the     *)
(* tables stay one recipe, and a sale takes what a recipe has listed.      *)
(***************************************************************************)
EXTENDS RecipeBook, FiniteSetTheorems, TLAPS

\* The bodies of the requests under way are what the schemas let through.
BodiesOK ==
  /\ ids \in Nat
  /\ edit = [e \in Editors |-> edit[e]]
  /\ \A e \in Editors :
       LET asked == edit[e].asked
       IN /\ edit[e].op = "create" => asked.listed \subseteq Ingredients /\ asked.yields \in Quantities
          /\ edit[e].op = "update" => asked.status \in Statuses /\ asked.yields \in Quantities
          /\ edit[e].op = "add item" => asked.product \in Ingredients /\ asked.quantity \in Quantities
          /\ edit[e].op = "update item" => asked.quantity \in Quantities

TablesInv == BookIsARecipe /\ BodiesOK

SalesOK ==
  /\ sale \in [Sales -> [pc : {"idle", "read", "done"}, recipe : Row \cup {Missing},
                        takes : SUBSET [product : Ingredients, quantity : Quantities]]]
  /\ shown = [s \in Sales |-> shown[s]]

\* What a sale has read was there when it read it, the present book is among those it
\* might have seen, and a recipe that went away was missed at some moment.
Watched(s) ==
  /\ Book \in shown[s]
  /\ \E book \in shown[s] : book.recipe = sale[s].recipe
  /\ \/ recipe # Missing /\ sale[s].recipe # Missing /\ recipe.id = sale[s].recipe.id
     \/ \E book \in shown[s] : book.recipe = Missing
  /\ sale[s].recipe # Missing => sale[s].recipe.id \in 1..ids

SalesInv == SalesOK /\ \A s \in Sales : sale[s].pc = "read" => Watched(s)

\* SoldAsListed of one sale
AsListed(s) ==
  IF sale[s].takes = {}
  THEN \E book \in shown[s] : ~Active(book) \/ Listed(book) = {}
  ELSE /\ \E book \in shown[s] : Active(book)
       /\ \E book \in shown[s] : Listed(book) = sale[s].takes

BookInv == TablesInv /\ SalesInv /\ SoldAsListed

-----------------------------------------------------------------------------
(* The steps all editors share *)

LEMMA NoRecipeNoItems ==
  ASSUME BookIsARecipe
  PROVE  /\ recipe = Missing => items = {}
         /\ \A i \in items : recipe # Missing /\ i.recipe = recipe.id
BY DEF BookIsARecipe, Exists

\* A request that begins changes no row.
LEMMA BeginKeeps ==
  ASSUME TablesInv, NEW e \in Editors, NEW op, NEW asked, Begin(e, op, asked),
         op = "create" => asked.listed \subseteq Ingredients /\ asked.yields \in Quantities,
         op = "update" => asked.status \in Statuses /\ asked.yields \in Quantities,
         op = "add item" => asked.product \in Ingredients /\ asked.quantity \in Quantities,
         op = "update item" => asked.quantity \in Quantities
  PROVE  TablesInv' /\ UNCHANGED <<recipe, items, ids, sale, shown>>
<1>1. BookIsARecipe'
  BY DEF TablesInv, Begin, BookIsARecipe, Exists
<1>2. BodiesOK'
  BY DEF TablesInv, Begin, BodiesOK
<1> QED
  BY <1>1, <1>2 DEF TablesInv, Begin

\* A request that ends leaves the others as they were.
LEMMA AnswerKeeps ==
  ASSUME BodiesOK, NEW e \in Editors, NEW answer, Answer(e, answer), ids' \in Nat
  PROVE  BodiesOK'
BY DEF BodiesOK, Answer, Idle

LEMMA FailKeeps ==
  ASSUME TablesInv, NEW e \in Editors, Fail(e)
  PROVE  TablesInv' /\ UNCHANGED <<recipe, items, ids, sale, shown>>
<1>1. BookIsARecipe'
  BY DEF TablesInv, Fail, BookIsARecipe, Exists
<1>2. BodiesOK'
  BY AnswerKeeps DEF TablesInv, Fail, BodiesOK
<1> QED
  BY <1>1, <1>2 DEF TablesInv, Fail

-----------------------------------------------------------------------------
(* Every request keeps the tables *)

LEMMA CreateKeeps ==
  ASSUME TablesInv, NEW e \in Editors, Create(e), recipe = Missing, ~Fail(e)
  PROVE  TablesInv' /\ ids' >= ids /\ recipe' # Missing /\ recipe'.id > ids
<1> USE DEF TablesInv
<1> DEFINE asked == edit[e].asked
           new == ids + 1
           size == Cardinality(asked.listed)
<1>1. ids \in Nat /\ asked.listed \subseteq Ingredients /\ asked.yields \in Quantities
  BY DEF Create, BodiesOK
<1>2. size \in Nat
  <2>1. IsFiniteSet(asked.listed)
    BY <1>1, RecipesAssumption, FS_Subset DEF Ingredients
  <2> QED
    BY <2>1, FS_CardinalityType
<1>3. /\ recipe' = [id |-> new, status |-> "active", yields |-> asked.yields]
      /\ ids' = new + size
      /\ Commit(e)
  BY DEF Create
<1>4. PICK number \in Bijection(asked.listed, new + 1..new + size) :
        items' = items \cup
          {[id |-> number[p], recipe |-> new, product |-> p, quantity |-> 1] :
             p \in asked.listed}
  BY DEF Create
<1>5. /\ \A p \in asked.listed : number[p] \in new + 1..new + size
      /\ \A p, q \in asked.listed : number[p] = number[q] => p = q
  BY <1>4 DEF Bijection, Injection, Surjection, IsInjective
<1>6. ids' \in Nat /\ new \in Nat /\ new \in 1..ids' /\ ids' >= ids /\ new > ids
  BY <1>1, <1>2, <1>3
<1>7. recipe' \in [id : 1..ids', status : Statuses, yields : Quantities] /\ recipe' # Missing
  <2>1. recipe' \in [id : 1..ids', status : Statuses, yields : Quantities]
    BY <1>1, <1>3, <1>6 DEF Statuses
  <2>2. recipe' \in Row
    BY <1>1, <1>3, <1>6 DEF Statuses, Row
  <2> QED
    BY <2>1, <2>2, MissingAssumption
<1>8. items = {}
  BY NoRecipeNoItems
<1>9. items' \subseteq [id : 1..ids', recipe : 1..ids', product : Ingredients, quantity : Quantities]
  <2>1. \A p \in asked.listed : number[p] \in 1..ids'
    BY <1>1, <1>2, <1>3, <1>5
  <2> QED
    BY <1>1, <1>4, <1>6, <1>8, <2>1, RecipesAssumption
<1>10. \A i \in items' : i.recipe = recipe'.id
  BY <1>3, <1>4, <1>8
<1>11. \A i, j \in items' : i.product = j.product \/ i.id = j.id => i = j
  BY <1>4, <1>5, <1>8
<1>12. BookIsARecipe'
  BY <1>7, <1>9, <1>10, <1>11 DEF BookIsARecipe, Exists
<1>13. BodiesOK'
  BY <1>3, <1>6, AnswerKeeps DEF Commit
<1> QED
  BY <1>3, <1>6, <1>7, <1>12, <1>13

LEMMA UpdateKeeps ==
  ASSUME TablesInv, NEW e \in Editors, Update(e), Exists(edit[e].read.recipe.id), ~Fail(e)
  PROVE  TablesInv' /\ ids' = ids /\ recipe' # Missing /\ recipe'.id = recipe.id
<1> USE DEF TablesInv
<1> DEFINE read == edit[e].read.recipe
           asked == edit[e].asked
<1>1. /\ recipe \in [id : 1..ids, status : Statuses, yields : Quantities]
      /\ asked.status \in Statuses /\ asked.yields \in Quantities
      /\ ids \in Nat
  BY DEF Update, BodiesOK, BookIsARecipe, Exists
<1>2. /\ recipe' = [recipe EXCEPT
           !.status = Column(asked.status, read.status, recipe.status),
           !.yields = Column(asked.yields, read.yields, recipe.yields)]
      /\ UNCHANGED <<items, ids>> /\ Commit(e)
  BY DEF Update
<1>3. recipe' \in [id : 1..ids', status : Statuses, yields : Quantities]
      /\ recipe'.id = recipe.id
  BY <1>1, <1>2 DEF Column
<1>4. recipe' # Missing
  <2>1. recipe' \in Row
    BY <1>1, <1>2, <1>3 DEF Row
  <2> QED
    BY <2>1, MissingAssumption
<1>5. BookIsARecipe'
  BY <1>2, <1>3, <1>4 DEF BookIsARecipe, Exists
<1>6. BodiesOK'
  BY <1>1, <1>2, AnswerKeeps DEF Commit
<1> QED
  BY <1>2, <1>3, <1>4, <1>5, <1>6

LEMMA DeleteKeeps ==
  ASSUME TablesInv, NEW e \in Editors, Delete(e)
  PROVE  TablesInv' /\ ids' = ids /\ (recipe' = recipe \/ recipe' = Missing)
<1> USE DEF TablesInv
<1> DEFINE id == edit[e].read.recipe.id
<1>1. /\ recipe' = IF Exists(id) THEN Missing ELSE recipe
      /\ items' = {i \in items : i.recipe # id}
      /\ ids' = ids /\ Commit(e) /\ ids \in Nat
  BY DEF Delete, Cascade, BodiesOK
<1>2. CASE Exists(id)
  <2>1. items' = {}
    BY <1>1, <1>2, NoRecipeNoItems DEF Exists
  <2> QED
    BY <1>1, <1>2, <2>1, AnswerKeeps DEF Commit, BookIsARecipe
<1>3. CASE ~Exists(id)
  <2>1. recipe' = recipe /\ items' \subseteq items
    BY <1>1, <1>3
  <2>2. BookIsARecipe'
    BY <1>1, <2>1 DEF BookIsARecipe, Exists
  <2> QED
    BY <1>1, <2>1, <2>2, AnswerKeeps DEF Commit
<1> QED
  BY <1>2, <1>3, <1>1

LEMMA AddItemKeeps ==
  ASSUME TablesInv, NEW e \in Editors, AddItem(e), ~Fail(e)
  PROVE  TablesInv' /\ ids' >= ids /\ recipe' = recipe
<1> USE DEF TablesInv
<1> DEFINE id == edit[e].read.recipe.id
           asked == edit[e].asked
           new == [id |-> ids + 1, recipe |-> id, product |-> asked.product,
                   quantity |-> asked.quantity]
<1>1. /\ Exists(id) /\ Unique(id, asked.product)
      /\ ids' = ids + 1 /\ items' = items \cup {new} /\ recipe' = recipe /\ Commit(e)
  BY DEF AddItem
<1>2. ids \in Nat /\ asked.product \in Ingredients /\ asked.quantity \in Quantities
  BY DEF AddItem, BodiesOK
<1>3. /\ recipe \in [id : 1..ids', status : Statuses, yields : Quantities] \cup {Missing}
      /\ items \subseteq [id : 1..ids', recipe : 1..ids', product : Ingredients, quantity : Quantities]
  <2>1. 1..ids \subseteq 1..ids'
    BY <1>1, <1>2
  <2> QED
    BY <2>1 DEF BookIsARecipe
<1>4. new \in [id : 1..ids', recipe : 1..ids', product : Ingredients, quantity : Quantities]
  BY <1>1, <1>2, <1>3 DEF Exists
<1>5. \A i \in items : i.product # new.product /\ i.id # new.id
  <2>1. \A i \in items : i.recipe = id
    BY <1>1, NoRecipeNoItems DEF Exists
  <2>2. \A i \in items : i.id \in 1..ids
    BY DEF BookIsARecipe
  <2> QED
    BY <1>1, <1>2, <2>1, <2>2 DEF Unique
<1>6. \A i, j \in items' : i.product = j.product \/ i.id = j.id => i = j
  BY <1>1, <1>5 DEF BookIsARecipe
<1>7. BookIsARecipe'
  BY <1>1, <1>3, <1>4, <1>6 DEF BookIsARecipe, Exists
<1> QED
  BY <1>1, <1>2, <1>7, AnswerKeeps DEF Commit

LEMMA UpdateItemKeeps ==
  ASSUME TablesInv, NEW e \in Editors, UpdateItem(e), ~Fail(e)
  PROVE  TablesInv' /\ ids' = ids /\ recipe' = recipe
<1> USE DEF TablesInv
<1> DEFINE asked == edit[e].asked
           Set(i) == [i EXCEPT !.quantity = Column(asked.quantity, asked.item.quantity, i.quantity)]
           Item == [id : 1..ids, recipe : 1..ids, product : Ingredients, quantity : Quantities]
<1>1. /\ items' = {IF i.id = asked.item.id THEN Set(i) ELSE i : i \in items}
      /\ UNCHANGED <<recipe, ids>> /\ Commit(e)
  BY DEF UpdateItem
<1>2. ids \in Nat /\ asked.quantity \in Quantities
  BY DEF UpdateItem, BodiesOK
<1>3. \A i \in items : /\ Set(i) \in Item
                       /\ Set(i).id = i.id /\ Set(i).recipe = i.recipe
                       /\ Set(i).product = i.product
  BY <1>2 DEF BookIsARecipe, Column
<1>4. \A j \in items' : \E i \in items :
        /\ j = IF i.id = asked.item.id THEN Set(i) ELSE i
        /\ j \in Item /\ j.id = i.id /\ j.recipe = i.recipe /\ j.product = i.product
  BY <1>1, <1>3 DEF BookIsARecipe
<1> HIDE DEF Set
<1>5. items' \subseteq Item /\ \A i \in items' : Exists(i.recipe)
  BY <1>4 DEF BookIsARecipe
<1>6. \A i, j \in items' : i.product = j.product \/ i.id = j.id => i = j
  BY <1>4 DEF BookIsARecipe
<1>7. BookIsARecipe'
  BY <1>1, <1>5, <1>6 DEF BookIsARecipe, Exists
<1> QED
  BY <1>1, <1>2, <1>7, AnswerKeeps DEF Commit

LEMMA DeleteItemKeeps ==
  ASSUME TablesInv, NEW e \in Editors, DeleteItem(e)
  PROVE  TablesInv' /\ ids' = ids /\ recipe' = recipe
<1> USE DEF TablesInv
<1>1. /\ items' \subseteq items /\ UNCHANGED <<recipe, ids>> /\ Commit(e) /\ ids \in Nat
  BY DEF DeleteItem, BodiesOK
<1>2. BookIsARecipe'
  BY <1>1 DEF BookIsARecipe, Exists
<1> QED
  BY <1>1, <1>2, AnswerKeeps DEF Commit

-----------------------------------------------------------------------------
(* Sales *)

LEMMA PerSale == SoldAsListed <=> \A s \in Sales : sale[s].pc = "done" => AsListed(s)
BY DEF SoldAsListed, AsListed

\* A sale that nothing happened to has still taken what was listed.
LEMMA SaleUnchanged ==
  ASSUME NEW s \in Sales, sale'[s] = sale[s], shown'[s] = shown[s], AsListed(s)
  PROVE  AsListed(s)'
BY DEF AsListed, Active, Listed, Ingredient

\* A sale that has read the recipe sees one more book; the others see nothing.
LEMMA CommitKeepsSales ==
  ASSUME BookInv, NEW e \in Editors, Commit(e), ids \in Nat, ids' \in Nat, ids' >= ids,
         \/ recipe = Missing
         \/ recipe' = Missing
         \/ recipe' # Missing /\ recipe'.id = recipe.id
  PROVE  SalesInv' /\ SoldAsListed'
<1>1. /\ sale' = sale
      /\ shown' = [s \in Sales |-> shown'[s]]
      /\ \A s \in Sales :
           shown'[s] = IF sale[s].pc = "read" THEN shown[s] \cup {Book'} ELSE shown[s]
  BY DEF Commit
<1>2. SoldAsListed'
  <2>1. ASSUME NEW s \in Sales, sale'[s].pc = "done" PROVE AsListed(s)'
    <3>1. shown'[s] = shown[s] /\ AsListed(s)
      BY <1>1, <2>1, PerSale DEF BookInv
    <3> QED
      BY <1>1, <3>1, SaleUnchanged
  <2> QED
    BY <2>1 DEF SoldAsListed, AsListed
<1>3. ASSUME NEW s \in Sales, sale[s].pc = "read" PROVE Watched(s)'
  <2>1. shown'[s] = shown[s] \cup {Book'}
    BY <1>1, <1>3
  <2>2. Watched(s)
    BY <1>3 DEF BookInv, SalesInv
  <2>3. Book'.recipe = recipe' /\ Book.recipe = recipe
    BY DEF Book
  <2> QED
    BY <1>1, <2>1, <2>2, <2>3 DEF Watched
<1>4. SalesInv'
  BY <1>1, <1>3 DEF BookInv, SalesInv, SalesOK
<1> QED
  BY <1>2, <1>4

LEMMA ReadRecipeKeeps ==
  ASSUME BookInv, NEW s \in Sales, ReadRecipe(s)
  PROVE  BookInv'
<1> USE DEF BookInv, ReadRecipe
<1>1. TablesInv'
  BY DEF TablesInv, BookIsARecipe, BodiesOK, Exists
<1>2. /\ sale'[s] = [pc |-> "read", recipe |-> recipe, takes |-> {}]
      /\ shown'[s] = {Book} /\ Book' = Book /\ Book.recipe = recipe
      /\ \A r \in Sales \ {s} : sale'[r] = sale[r] /\ shown'[r] = shown[r]
  BY DEF Book, SalesInv, SalesOK
<1>3. recipe # Missing => recipe.id \in 1..ids
  BY DEF TablesInv, BookIsARecipe
<1>4. SalesOK'
  <2>1. recipe \in Row \cup {Missing}
    <3>1. CASE recipe # Missing
      <4>1. recipe \in [id : 1..ids, status : Statuses, yields : Quantities]
        BY <3>1 DEF TablesInv, BookIsARecipe
      <4> QED
        BY <4>1 DEF Row
    <3> QED
      BY <3>1
  <2> QED
    BY <2>1 DEF SalesInv, SalesOK
<1>5. ASSUME NEW r \in Sales, sale'[r].pc = "read" PROVE Watched(r)'
  <2>1. CASE r = s
    BY <1>2, <1>3, <2>1 DEF Watched
  <2>2. CASE r # s
    <3>1. Watched(r)
      BY <1>2, <1>5, <2>2 DEF SalesInv
    <3> QED
      BY <1>2, <2>2, <3>1 DEF Watched
  <2> QED
    BY <2>1, <2>2
<1>6. SoldAsListed'
  <2>1. ASSUME NEW r \in Sales, sale'[r].pc = "done" PROVE AsListed(r)'
    <3>1. r # s
      BY <1>2, <2>1
    <3>2. AsListed(r)
      BY <1>2, <2>1, <3>1, PerSale
    <3> QED
      BY <1>2, <3>1, <3>2, SaleUnchanged
  <2> QED
    BY <2>1 DEF SoldAsListed, AsListed
<1> QED
  BY <1>1, <1>4, <1>5, <1>6 DEF SalesInv

\* Whatever the recipe lists now is all of what the recipe that was read lists, unless
\* that one has gone; and then there was a moment without a recipe.
LEMMA ReadItemsKeeps ==
  ASSUME BookInv, NEW s \in Sales, ReadItems(s)
  PROVE  BookInv'
<1> USE DEF BookInv
<1> DEFINE row == sale[s].recipe
           listed == {i \in items : row # Missing /\ i.recipe = row.id}
           takes == IF TakesMeal(row, listed) THEN {} ELSE {Ingredient(i) : i \in listed}
<1>1. /\ sale[s].pc = "read"
      /\ sale' = [sale EXCEPT ![s].pc = "done", ![s].takes = takes]
      /\ UNCHANGED <<recipe, items, ids, edit, shown>>
  BY DEF ReadItems
<1>2. takes \in SUBSET [product : Ingredients, quantity : Quantities]
  BY DEF TablesInv, BookIsARecipe, Ingredient
<1>3. takes = {} <=> TakesMeal(row, listed) \/ listed = {}
  OBVIOUS
<1>4. takes # {} => takes = {Ingredient(i) : i \in listed}
  OBVIOUS
<1> HIDE DEF takes
<1>5. /\ SalesOK'
      /\ \A r \in Sales \ {s} : sale'[r] = sale[r]
      /\ sale'[s].pc = "done" /\ sale'[s].takes = takes
  BY <1>1, <1>2 DEF SalesInv, SalesOK
<1>6. TablesInv'
  BY <1>1 DEF TablesInv, BookIsARecipe, BodiesOK, Exists
<1>7. Watched(s) /\ Book.recipe = recipe /\ Book.items = items /\ Book' = Book
  BY <1>1 DEF SalesInv, Book
<1>8. SalesInv'
  <2>1. ASSUME NEW r \in Sales, sale'[r].pc = "read" PROVE Watched(r)'
    <3>1. r # s /\ Watched(r)
      BY <1>5, <2>1 DEF SalesInv
    <3> QED
      BY <1>1, <1>5, <1>7, <3>1 DEF Watched
  <2> QED
    BY <1>5, <2>1 DEF SalesInv
<1>9. takes = {} => \E book \in shown[s] : ~Active(book) \/ Listed(book) = {}
  <2>1. CASE row = Missing \/ row.status # "active"
    BY <2>1, <1>7 DEF Active, Watched
  <2>2. CASE row # Missing /\ listed = {}
    <3>1. CASE recipe # Missing /\ recipe.id = row.id
      <4>1. items = {}
        BY <2>2, <3>1, NoRecipeNoItems DEF TablesInv
      <4> QED
        BY <4>1, <1>7 DEF Listed, Watched
    <3>2. CASE \E book \in shown[s] : book.recipe = Missing
      BY <3>2 DEF Active
    <3> QED
      BY <1>7, <2>2, <3>1, <3>2 DEF Watched
  <2> QED
    BY <2>1, <2>2, <1>3 DEF TakesMeal
<1>10. takes # {} => /\ \E book \in shown[s] : Active(book)
                     /\ \E book \in shown[s] : Listed(book) = takes
  <2> SUFFICES ASSUME takes # {}
               PROVE  /\ \E book \in shown[s] : Active(book)
                      /\ Listed(Book) = takes
    BY <1>7 DEF Watched
  <2>1. /\ row # Missing /\ row.status = "active" /\ listed # {}
        /\ takes = {Ingredient(i) : i \in listed}
    BY <1>3, <1>4 DEF TakesMeal
  <2>2. listed = items
    <3>1. PICK i \in items : i.recipe = row.id
      BY <2>1
    <3>2. recipe.id = row.id
      BY <3>1, NoRecipeNoItems DEF TablesInv
    <3> QED
      BY <2>1, <3>2, NoRecipeNoItems DEF TablesInv
  <2> QED
    BY <1>7, <2>1, <2>2 DEF Active, Listed, Watched
<1>11. SoldAsListed'
  <2>1. ASSUME NEW r \in Sales, sale'[r].pc = "done" PROVE AsListed(r)'
    <3>1. CASE r = s
      <4>1. sale'[r].takes = takes /\ shown'[r] = shown[r]
        BY <1>1, <1>5, <3>1
      <4> QED
        BY <1>9, <1>10, <3>1, <4>1 DEF AsListed, Active, Listed, Ingredient
    <3>2. CASE r # s
      <4>1. AsListed(r)
        BY <1>5, <2>1, <3>2, PerSale
      <4> QED
        BY <1>1, <1>5, <3>2, <4>1, SaleUnchanged
    <3> QED
      BY <3>1, <3>2
  <2> QED
    BY <2>1 DEF SoldAsListed, AsListed
<1> QED
  BY <1>6, <1>8, <1>11

-----------------------------------------------------------------------------
LEMMA BookInvInit == RecipesInit => BookInv
<1> SUFFICES ASSUME RecipesInit PROVE BookInv
  OBVIOUS
<1>1. BookIsARecipe
  BY DEF RecipesInit, BookIsARecipe
<1>2. BodiesOK
  BY DEF RecipesInit, BodiesOK, Idle
<1>3. SalesInv /\ SoldAsListed
  BY DEF RecipesInit, SalesInv, SalesOK, SoldAsListed, NoSale
<1> QED
  BY <1>1, <1>2, <1>3 DEF BookInv, TablesInv

\* The six ways to begin a request, as one
LEMMA BeginnersKeep ==
  ASSUME TablesInv, NEW e \in Editors,
         \/ BeginCreate(e) \/ BeginUpdate(e) \/ BeginDelete(e)
         \/ BeginAddItem(e) \/ BeginUpdateItem(e) \/ BeginDeleteItem(e)
  PROVE  TablesInv' /\ UNCHANGED <<recipe, items, ids, sale, shown>>
<1>1. CASE BeginCreate(e)
  BY <1>1, BeginKeeps DEF BeginCreate
<1>2. CASE BeginUpdate(e)
  BY <1>2, BeginKeeps DEF BeginUpdate
<1>3. CASE BeginDelete(e)
  BY <1>3, BeginKeeps DEF BeginDelete
<1>4. CASE BeginAddItem(e)
  BY <1>4, BeginKeeps DEF BeginAddItem
<1>5. CASE BeginUpdateItem(e)
  BY <1>5, BeginKeeps DEF BeginUpdateItem
<1>6. CASE BeginDeleteItem(e)
  BY <1>6, BeginKeeps DEF BeginDeleteItem
<1> QED
  BY <1>1, <1>2, <1>3, <1>4, <1>5, <1>6

\* A step of an editor that changes no row
LEMMA RowsUnchanged ==
  ASSUME BookInv, TablesInv', UNCHANGED <<recipe, items, ids, sale, shown>>
  PROVE  BookInv'
<1>1. SalesInv'
  BY DEF BookInv, SalesInv, SalesOK, Watched, Book
<1>2. SoldAsListed'
  BY DEF BookInv, SoldAsListed, Active, Listed, Ingredient
<1> QED
  BY <1>1, <1>2 DEF BookInv

LEMMA EditorsKeep ==
  ASSUME BookInv, NEW e \in Editors,
         \/ Create(e) \/ Update(e) \/ Delete(e)
         \/ AddItem(e) \/ UpdateItem(e) \/ DeleteItem(e)
  PROVE  BookInv'
<1> USE DEF BookInv
<1>1. CASE Fail(e)
  BY <1>1, FailKeeps, RowsUnchanged
<1>2. CASE Commit(e) /\ ~Fail(e)
  <2>1. ids \in Nat
    BY DEF TablesInv, BodiesOK
  <2>2. /\ TablesInv' /\ ids' >= ids
        /\ \/ recipe = Missing
           \/ recipe' = Missing
           \/ recipe' # Missing /\ recipe'.id = recipe.id
    <3>1. CASE Create(e)
      BY <1>2, <3>1, CreateKeeps DEF Create
    <3>2. CASE Update(e)
      <4>1. Exists(edit[e].read.recipe.id)
        BY <1>2, <3>2 DEF Update
      <4>2. TablesInv' /\ ids' = ids /\ recipe' # Missing /\ recipe'.id = recipe.id
        BY <1>2, <3>2, <4>1, UpdateKeeps
      <4> QED
        BY <2>1, <4>2
    <3>3. CASE Delete(e)
      BY <2>1, <3>3, DeleteKeeps
    <3>4. CASE AddItem(e)
      BY <1>2, <3>4, AddItemKeeps
    <3>5. CASE UpdateItem(e)
      BY <1>2, <2>1, <3>5, UpdateItemKeeps
    <3>6. CASE DeleteItem(e)
      BY <2>1, <3>6, DeleteItemKeeps
    <3> QED
      BY <3>1, <3>2, <3>3, <3>4, <3>5, <3>6
  <2>3. ids' \in Nat
    BY <2>2 DEF TablesInv, BodiesOK
  <2> QED
    BY <1>2, <2>1, <2>2, <2>3, CommitKeepsSales
<1>3. Commit(e) \/ Fail(e)
  BY DEF Create, Update, Delete, AddItem, UpdateItem, DeleteItem
<1> QED
  BY <1>1, <1>2, <1>3

LEMMA BookInvAlways == RecipesSpec => []BookInv
<1>1. BookInv /\ [Next]_vars => BookInv'
  <2> SUFFICES ASSUME BookInv, [Next]_vars PROVE BookInv'
    OBVIOUS
  <2>1. ASSUME NEW e \in Editors,
               \/ BeginCreate(e) \/ BeginUpdate(e) \/ BeginDelete(e)
               \/ BeginAddItem(e) \/ BeginUpdateItem(e) \/ BeginDeleteItem(e)
        PROVE  BookInv'
    BY <2>1, BeginnersKeep, RowsUnchanged DEF BookInv
  <2>2. ASSUME NEW e \in Editors,
               \/ Create(e) \/ Update(e) \/ Delete(e)
               \/ AddItem(e) \/ UpdateItem(e) \/ DeleteItem(e)
        PROVE  BookInv'
    BY <2>2, EditorsKeep
  <2>3. ASSUME NEW s \in Sales, ReadRecipe(s) \/ ReadItems(s) PROVE BookInv'
    BY <2>3, ReadRecipeKeeps, ReadItemsKeeps
  <2>4. CASE UNCHANGED vars
    <3>1. TablesInv'
      BY <2>4 DEF vars, BookInv, TablesInv, BookIsARecipe, BodiesOK, Exists
    <3> QED
      BY <2>4, <3>1, RowsUnchanged DEF vars
  <2> QED
    BY <2>1, <2>2, <2>3, <2>4 DEF Next
<1> QED
  BY <1>1, BookInvInit, PTL DEF RecipesSpec

\* The tables stay one recipe with distinct ingredients: ON DELETE CASCADE, the foreign
\* key and the unique constraints are enough, whoever edits at once.
THEOREM TablesStayARecipe == RecipesSpec => []BookIsARecipe
<1>1. BookInv => BookIsARecipe
  BY DEF BookInv, TablesInv
<1> QED
  BY <1>1, BookInvAlways, PTL

\* However many recipes come and go between its two statements, a sale takes what one of
\* them listed, or the meal itself if there was none to follow.
THEOREM SalesFollowARecipe == RecipesSpec => []SoldAsListed
<1>1. BookInv => SoldAsListed
  BY DEF BookInv
<1> QED
  BY <1>1, BookInvAlways, PTL

-----------------------------------------------------------------------------
(* Answers *)

\* The book that a request has read allowed what it asks.
ReadOK(op, read, asked) ==
  /\ op = "create" => read.recipe = Missing
  /\ op = "update" => read.recipe # Missing
  /\ op = "add item" =>
       /\ read.recipe # Missing
       /\ asked \in [product : Ingredients, quantity : Quantities]
       /\ \A i \in read.items : ~(i.recipe = read.recipe.id /\ i.product = asked.product)
  /\ op \in {"update item", "delete item"} => asked.item \in read.items

ReadsOK == \A e \in Editors : ReadOK(edit[e].op, edit[e].read, edit[e].asked)

Others(e) == \A f \in Editors \ {e} : edit'[f] = edit[f]

LEMMA BeginReads ==
  ASSUME ReadsOK, BodiesOK, NEW e \in Editors, NEW op, NEW asked, Begin(e, op, asked),
         ReadOK(op, Book, asked)
  PROVE  ReadsOK'
<1>1. edit' = [edit EXCEPT ![e] = [op |-> op, read |-> Book, asked |-> asked, answer |-> "none"]]
  BY DEF Begin
<1>2. /\ edit'[e].op = op /\ edit'[e].read = Book /\ edit'[e].asked = asked
      /\ \A f \in Editors \ {e} : edit'[f] = edit[f]
  BY <1>1 DEF BodiesOK
<1>3. ASSUME NEW f \in Editors
      PROVE  ReadOK(edit'[f].op, edit'[f].read, edit'[f].asked)
  <2>1. CASE f = e
    BY <1>2, <2>1
  <2>2. CASE f # e
    BY <1>2, <2>2 DEF ReadsOK
  <2> QED
    BY <2>1, <2>2
<1> QED
  BY <1>3 DEF ReadsOK, ReadOK

LEMMA ReadsOKAlways == RecipesSpec => []ReadsOK
<1>1. RecipesInit => ReadsOK
  <2> SUFFICES ASSUME RecipesInit, NEW e \in Editors
               PROVE  ReadOK(edit[e].op, edit[e].read, edit[e].asked)
    BY DEF ReadsOK
  <2>1. edit[e].op = "none"
    BY DEF RecipesInit, Idle
  <2> QED
    BY <2>1 DEF ReadOK
<1>2. BookInv /\ ReadsOK /\ [Next]_vars => ReadsOK'
  <2> SUFFICES ASSUME BookInv, ReadsOK, [Next]_vars PROVE ReadsOK'
    OBVIOUS
  <2>1. BodiesOK /\ edit = [e \in Editors |-> edit[e]] /\ Book.recipe = recipe /\ Book.items = items
    BY DEF BookInv, TablesInv, BodiesOK, Book
  <2>2. ASSUME NEW e \in Editors, BeginCreate(e) PROVE ReadsOK'
    BY <2>1, <2>2, BeginReads DEF BeginCreate, ReadOK
  <2>3. ASSUME NEW e \in Editors, BeginUpdate(e) \/ BeginDelete(e) PROVE ReadsOK'
    BY <2>1, <2>3, BeginReads DEF BeginUpdate, BeginDelete, ReadOK
  <2>4. ASSUME NEW e \in Editors, BeginAddItem(e) PROVE ReadsOK'
    <3>1. PICK p \in Ingredients, q \in Quantities :
            /\ recipe # Missing /\ Unique(recipe.id, p)
            /\ Begin(e, "add item", [product |-> p, quantity |-> q])
      BY <2>4 DEF BeginAddItem
    <3>2. ReadOK("add item", Book, [product |-> p, quantity |-> q])
      BY <2>1, <3>1 DEF ReadOK, Unique
    <3> QED
      BY <2>1, <3>1, <3>2, BeginReads
  <2>5. ASSUME NEW e \in Editors, BeginUpdateItem(e) \/ BeginDeleteItem(e) PROVE ReadsOK'
    <3>1. CASE BeginUpdateItem(e)
      <4>1. PICK i \in items, q \in Quantities : Begin(e, "update item", [item |-> i, quantity |-> q])
        BY <3>1 DEF BeginUpdateItem
      <4>2. ReadOK("update item", Book, [item |-> i, quantity |-> q])
        BY <2>1 DEF ReadOK
      <4> QED
        BY <2>1, <4>1, <4>2, BeginReads
    <3>2. CASE BeginDeleteItem(e)
      <4>1. PICK i \in items : Begin(e, "delete item", [item |-> i])
        BY <3>2 DEF BeginDeleteItem
      <4>2. ReadOK("delete item", Book, [item |-> i])
        BY <2>1 DEF ReadOK
      <4> QED
        BY <2>1, <4>1, <4>2, BeginReads
    <3> QED
      BY <2>5, <3>1, <3>2
  <2>6. ASSUME NEW e \in Editors,
               \/ Create(e) \/ Update(e) \/ Delete(e)
               \/ AddItem(e) \/ UpdateItem(e) \/ DeleteItem(e)
        PROVE  ReadsOK'
    <3>1. PICK answer : edit' = [edit EXCEPT ![e] = [Idle EXCEPT !.answer = answer]]
      BY <2>6 DEF Create, Update, Delete, AddItem, UpdateItem, DeleteItem, Commit, Fail, Answer
    <3>2. edit'[e].op = "none" /\ Others(e)
      BY <2>1, <3>1 DEF Idle, Others
    <3>3. ASSUME NEW f \in Editors
          PROVE  ReadOK(edit'[f].op, edit'[f].read, edit'[f].asked)
      <4>1. CASE f = e
        BY <3>2, <4>1 DEF ReadOK
      <4>2. CASE f # e
        BY <3>2, <4>2 DEF ReadsOK, Others
      <4> QED
        BY <4>1, <4>2
    <3> QED
      BY <3>3 DEF ReadsOK, ReadOK
  <2>7. CASE \/ UNCHANGED vars
             \/ \E s \in Sales : ReadRecipe(s) \/ ReadItems(s)
    <3>1. edit' = edit
      BY <2>7 DEF vars, ReadRecipe, ReadItems
    <3> QED
      BY <3>1 DEF ReadsOK, ReadOK
  <2> QED
    BY <2>2, <2>3, <2>4, <2>5, <2>6, <2>7 DEF Next
<1> QED
  BY <1>1, <1>2, BookInvAlways, PTL DEF RecipesSpec

\* A request that fails has read a book that is no longer there.
LEMMA FailuresTrue ==
  ASSUME BookInv, ReadsOK, NEW e \in Editors, Book = edit[e].read,
         \/ Create(e) \/ Update(e) \/ Delete(e)
         \/ AddItem(e) \/ UpdateItem(e) \/ DeleteItem(e)
  PROVE  Commit(e)
<1> DEFINE read == edit[e].read
           asked == edit[e].asked
<1>1. read.recipe = recipe /\ read.items = items
  BY DEF Book
<1>2. CASE Create(e)
  BY <1>1, <1>2 DEF Create, ReadsOK, ReadOK
<1>3. CASE Update(e)
  BY <1>1, <1>3 DEF Update, ReadsOK, ReadOK, Exists
<1>4. CASE AddItem(e)
  BY <1>1, <1>4 DEF AddItem, ReadsOK, ReadOK, Exists, Unique
<1>5. CASE UpdateItem(e)
  BY <1>1, <1>5 DEF UpdateItem, ReadsOK, ReadOK
<1>6. CASE Delete(e) \/ DeleteItem(e)
  BY <1>6 DEF Delete, DeleteItem
<1> QED
  BY <1>2, <1>3, <1>4, <1>5, <1>6

\* After a success the book is as the request wanted it.
LEMMA SuccessesTrue ==
  ASSUME BookInv, ReadsOK, NEW e \in Editors, ~Fail(e),
         \/ Create(e) \/ Update(e) \/ Delete(e)
         \/ AddItem(e) \/ UpdateItem(e) \/ DeleteItem(e)
  PROVE  /\ Holds(edit[e], Book, Book')
         /\ edit[e].op \in {"update item", "delete item"} =>
              items \ Current(Book, edit[e].asked) = items' \ Current(Book', edit[e].asked)
<1> USE DEF BookInv, TablesInv
<1> DEFINE read == edit[e].read.recipe
           asked == edit[e].asked
<1>1. /\ Book.recipe = recipe /\ Book.items = items
      /\ Book'.recipe = recipe' /\ Book'.items = items'
  BY DEF Book
<1>2. CASE Create(e)
  <2>1. /\ recipe = Missing /\ edit[e].op = "create"
        /\ recipe' # Missing
    BY <1>2, CreateKeeps DEF Create
  <2>2. PICK number :
          items' = {[id |-> number[p], recipe |-> ids + 1, product |-> p, quantity |-> 1] :
                      p \in asked.listed}
    BY <1>2, <2>1, NoRecipeNoItems DEF Create
  <2>3. Listed(Book') = {[product |-> p, quantity |-> 1] : p \in asked.listed}
    <3>1. Listed(Book') = {[product |-> i.product, quantity |-> i.quantity] : i \in items'}
      BY <1>1 DEF Listed, Ingredient
    <3>2. ASSUME NEW i \in items'
          PROVE  \E p \in asked.listed :
                   [product |-> i.product, quantity |-> i.quantity] = [product |-> p, quantity |-> 1]
      BY <2>2
    <3>3. ASSUME NEW p \in asked.listed
          PROVE  \E i \in items' :
                   [product |-> i.product, quantity |-> i.quantity] = [product |-> p, quantity |-> 1]
      <4>1. [id |-> number[p], recipe |-> ids + 1, product |-> p, quantity |-> 1] \in items'
        BY <2>2
      <4> QED
        BY <4>1
    <3> DEFINE asItem(i) == [product |-> i.product, quantity |-> i.quantity]
               wanted(p) == [product |-> p, quantity |-> 1]
    <3>4. /\ \A i \in items' : \E p \in asked.listed : asItem(i) = wanted(p)
          /\ \A p \in asked.listed : \E i \in items' : asItem(i) = wanted(p)
      BY <3>2, <3>3
    <3> HIDE DEF asItem, wanted
    <3>5. {asItem(i) : i \in items'} = {wanted(p) : p \in asked.listed}
      BY <3>4
    <3> QED
      BY <3>1, <3>5 DEF asItem, wanted
  <2> QED
    BY <1>1, <2>1, <2>3 DEF Holds
<1>3. CASE Update(e)
  <2>1. /\ edit[e].op = "update" /\ Exists(read.id)
        /\ recipe' = [recipe EXCEPT
             !.status = Column(asked.status, read.status, @),
             !.yields = Column(asked.yields, read.yields, @)]
    BY <1>3 DEF Update
  <2>2. recipe \in [id : 1..ids, status : Statuses, yields : Quantities]
    BY <2>1 DEF BookIsARecipe, Exists
  <2>3. /\ Kept(asked.status, read.status, recipe.status, recipe'.status)
        /\ Kept(asked.yields, read.yields, recipe.yields, recipe'.yields)
    BY <2>1, <2>2 DEF Column, Kept
  <2> QED
    BY <1>1, <2>1, <2>3 DEF Holds
<1>4. CASE Delete(e)
  <2>1. edit[e].op = "delete" /\ (recipe' = Missing \/ recipe'.id # read.id)
    BY <1>4 DEF Delete, Exists
  <2> QED
    BY <1>1, <2>1 DEF Holds
<1>5. CASE AddItem(e)
  <2>1. /\ edit[e].op = "add item" /\ asked \in [product : Ingredients, quantity : Quantities]
        /\ [id |-> ids', recipe |-> read.id, product |-> asked.product,
            quantity |-> asked.quantity] \in items'
    BY <1>5 DEF AddItem, ReadsOK, ReadOK
  <2>2. asked = [product |-> asked.product, quantity |-> asked.quantity]
    BY <2>1
  <2>3. asked \in Listed(Book')
    <3>1. Listed(Book') = {[product |-> i.product, quantity |-> i.quantity] : i \in items'}
      BY <1>1 DEF Listed, Ingredient
    <3>2. PICK i \in items' : i.product = asked.product /\ i.quantity = asked.quantity
      BY <2>1
    <3>3. asked = [product |-> i.product, quantity |-> i.quantity]
      BY <2>2, <3>2
    <3> QED
      BY <3>1, <3>3, Zenon
  <2> QED
    BY <1>1, <2>1, <2>3 DEF Holds
<1>6. CASE UpdateItem(e)
  <2> DEFINE Set(i) == [i EXCEPT !.quantity = Column(asked.quantity, asked.item.quantity, @)]
  <2>1. /\ edit[e].op = "update item"
        /\ items' = {IF i.id = asked.item.id THEN Set(i) ELSE i : i \in items}
    BY <1>6 DEF UpdateItem
  <2>2. \A i \in items :
          /\ Set(i).id = i.id
          /\ Set(i).quantity = Column(asked.quantity, asked.item.quantity, i.quantity)
    BY DEF BookIsARecipe
  <2> HIDE DEF Set
  <2>3. items \ Current(Book, asked) = items' \ Current(Book', asked)
    <3>1. items \ Current(Book, asked) = {i \in items : i.id # asked.item.id}
      BY <1>1 DEF Current
    <3>2. items' \ Current(Book', asked) = {i \in items' : i.id # asked.item.id}
      BY <1>1 DEF Current
    <3>3. {i \in items : i.id # asked.item.id} = {i \in items' : i.id # asked.item.id}
      <4>1. ASSUME NEW i \in items, i.id # asked.item.id PROVE i \in items'
        BY <2>1, <4>1
      <4>2. ASSUME NEW j \in items', j.id # asked.item.id PROVE j \in items
        <5>1. PICK i \in items : j = IF i.id = asked.item.id THEN Set(i) ELSE i
          BY <2>1
        <5> QED
          BY <2>2, <4>2, <5>1
      <4> QED
        BY <4>1, <4>2
    <3> QED
      BY <3>1, <3>2, <3>3
  <2>4. ASSUME NEW i \in Current(Book, asked), NEW j \in Current(Book', asked)
        PROVE  Kept(asked.quantity, asked.item.quantity, i.quantity, j.quantity)
    <3>1. i \in items /\ i.id = asked.item.id /\ j \in items' /\ j.id = asked.item.id
      BY <1>1, <2>4 DEF Current
    <3>2. PICK k \in items : j = IF k.id = asked.item.id THEN Set(k) ELSE k
      BY <2>1, <3>1
    <3>3. k = i /\ j = Set(i)
      BY <2>2, <3>1, <3>2 DEF BookIsARecipe
    <3> QED
      BY <2>2, <3>1, <3>3 DEF Kept, Column
  <2> QED
    BY <2>1, <2>3, <2>4 DEF Holds
<1>7. CASE DeleteItem(e)
  <2>1. edit[e].op = "delete item" /\ items' = {i \in items : i.id # asked.item.id}
    BY <1>7 DEF DeleteItem
  <2>2. Current(Book', asked) = {}
        /\ items \ Current(Book, asked) = items' \ Current(Book', asked)
    BY <1>1, <2>1 DEF Current
  <2> QED
    BY <2>1, <2>2 DEF Holds
<1> QED
  BY <1>2, <1>3, <1>4, <1>5, <1>6, <1>7

\* For any number of editors: a success has done what was asked and nothing else, and a
\* failure is due to another editor.
THEOREM AnswersAlwaysTrue == RecipesSpec => AnswersTrue
<1> DEFINE True(e) ==
      edit[e].op # "none" /\ edit'[e].op = "none" =>
        IF edit'[e].answer = "done"
        THEN /\ Holds(edit[e], Book, Book')
             /\ edit[e].op \in {"update item", "delete item"} =>
                  items \ Current(Book, edit[e].asked) = items' \ Current(Book', edit[e].asked)
        ELSE Book # edit[e].read
<1>1. BookInv /\ ReadsOK /\ [Next]_vars => [\A e \in Editors : True(e)]_vars
  <2> SUFFICES ASSUME BookInv, ReadsOK, Next, NEW e \in Editors,
                      edit[e].op # "none", edit'[e].op = "none"
               PROVE  IF edit'[e].answer = "done"
                      THEN /\ Holds(edit[e], Book, Book')
                           /\ edit[e].op \in {"update item", "delete item"} =>
                                items \ Current(Book, edit[e].asked)
                                  = items' \ Current(Book', edit[e].asked)
                      ELSE Book # edit[e].read
    OBVIOUS
  <2>1. edit = [f \in Editors |-> edit[f]]
    BY DEF BookInv, TablesInv, BodiesOK
  <2>2. \/ Create(e) \/ Update(e) \/ Delete(e)
        \/ AddItem(e) \/ UpdateItem(e) \/ DeleteItem(e)
    <3>1. ASSUME NEW f \in Editors, f # e,
                 \/ Create(f) \/ Update(f) \/ Delete(f)
                 \/ AddItem(f) \/ UpdateItem(f) \/ DeleteItem(f)
          PROVE  FALSE
      <4>1. \E answer : edit' = [edit EXCEPT ![f] = [Idle EXCEPT !.answer = answer]]
        BY <3>1 DEF Create, Update, Delete, AddItem, UpdateItem, DeleteItem, Commit, Fail, Answer
      <4> QED
        BY <2>1, <3>1, <4>1
    <3>2. ASSUME NEW f \in Editors,
                 \/ BeginCreate(f) \/ BeginUpdate(f) \/ BeginDelete(f)
                 \/ BeginAddItem(f) \/ BeginUpdateItem(f) \/ BeginDeleteItem(f)
          PROVE  FALSE
      <4>1. /\ edit[f].op = "none"
            /\ \E request : edit' = [edit EXCEPT ![f] = request]
        BY <3>2 DEF BeginCreate, BeginUpdate, BeginDelete, BeginAddItem, BeginUpdateItem,
                    BeginDeleteItem, Begin
      <4> QED
        BY <2>1, <4>1
    <3>3. ASSUME NEW s \in Sales, ReadRecipe(s) \/ ReadItems(s) PROVE FALSE
      BY <3>3 DEF ReadRecipe, ReadItems
    <3> QED
      BY <3>1, <3>2, <3>3 DEF Next
  <2>3. CASE Fail(e)
    <3>1. edit'[e].answer = "failed"
      BY <2>1, <2>3 DEF Fail, Answer, Idle
    <3>2. Book # edit[e].read
      <4>1. ~Commit(e)
        BY <2>1, <3>1 DEF Commit, Answer, Idle
      <4> QED
        BY <2>2, <4>1, FailuresTrue
    <3> QED
      BY <3>1, <3>2
  <2>4. CASE ~Fail(e)
    <3>1. Commit(e)
      BY <2>2, <2>4 DEF Create, Update, Delete, AddItem, UpdateItem, DeleteItem
    <3>2. edit'[e].answer = "done"
      BY <2>1, <3>1 DEF Commit, Answer, Idle
    <3> QED
      BY <2>2, <2>4, <3>2, SuccessesTrue
  <2> QED
    BY <2>3, <2>4
<1> QED
  BY <1>1, BookInvAlways, ReadsOKAlways, PTL DEF RecipesSpec, AnswersTrue
=============================================================================
