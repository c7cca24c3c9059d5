-------------------------------- MODULE RecipeBook -------------------------------
(***************************************************************************)
(* The recipe of one meal (modules/recipes): a row of recipes and the rows *)
(* of recipe_items.  Editors create, change and delete it, each in a       *)
(* transaction that reads the rows and writes later from what it read,     *)
(* held back by nothing but the constraints of the tables.  Meanwhile      *)
(* sales read it, the row and its items in two statements, to learn what   *)
(* to take from the stock (consume_for_sale_line).                         *)
(*                                                                         *)
(* A read of the editors is one step: whatever it saw, the constraints and *)
(* the row counts decide again when it writes.  The meals of other recipes *)
(* share no row with this one.                                             *)
(***************************************************************************)
EXTENDS Integers, FiniteSets, Functions

CONSTANTS
  Editors, Sales,
  Products,   \* the meal and its ingredients
  Meal,
  Quantities, \* of an ingredient, and yields of the recipe
  Missing,    \* no row, or no body
  LastRequest \* bound: requests of the editors

ASSUME RecipesAssumption ==
  /\ Meal \in Products /\ IsFiniteSet(Products)
  /\ Quantities \subseteq Nat \ {0} /\ 1 \in Quantities
  /\ LastRequest \in Nat

VARIABLES
  recipe, \* the row of the meal, Missing without one
  items,  \* the rows of recipe_items
  ids,    \* identifiers given so far
  begun,  \* requests begun so far, for the bound
  edit,   \* what each editor is doing, what it has read, how it was answered
  sale,   \* what each sale has read and takes
  shown   \* history: the recipes there were since each sale first read

vars == <<recipe, items, ids, begun, edit, sale, shown>>

Book == [recipe |-> recipe, items |-> items]

-----------------------------------------------------------------------------
(* The tables *)

Statuses == {"active", "inactive"}

Row == [id : Nat, status : Statuses, yields : Quantities]

ASSUME MissingAssumption == Missing \notin Row

\* Mutant of Cascade: the session deletes the items it has read.
CascadeRead(id, read) == items \ read

\* ON DELETE CASCADE: with a recipe go its items, those nobody has read included.
Cascade(id, read) == {i \in items : i.recipe # id}

\* uq_recipe_items_recipe_ingredient
Unique(id, product) == \A i \in items : ~(i.recipe = id /\ i.product = product)

Exists(id) == recipe # Missing /\ recipe.id = id

-----------------------------------------------------------------------------
(* Editors.  asked is the body of the request; read is the book it read. *)

Idle == [op |-> "none", read |-> [recipe |-> Missing, items |-> {}], asked |-> Missing, answer |-> "none"]

Begin(e, op, asked) ==
  /\ edit[e].op = "none"
  /\ begun < LastRequest
  /\ begun' = begun + 1
  /\ edit' = [edit EXCEPT ![e] = [op |-> op, read |-> Book, asked |-> asked, answer |-> "none"]]
  /\ UNCHANGED <<recipe, items, ids, sale, shown>>

\* _build_item and _validate_ingredient_unit: the meal is no ingredient of itself.
\* That the ingredient and its unit are in use is left out: it may change at any time.
Ingredients == Products \ {Meal}

\* create_recipe finds none; its items name each ingredient once.
BeginCreate(e) ==
  /\ recipe = Missing
  /\ \E listed \in SUBSET Ingredients, yields \in Quantities :
       Begin(e, "create", [listed |-> listed, yields |-> yields])

BeginUpdate(e) ==
  /\ recipe # Missing
  /\ \E status \in Statuses, yields \in Quantities :
       Begin(e, "update", [status |-> status, yields |-> yields])

BeginDelete(e) == recipe # Missing /\ Begin(e, "delete", Missing)

BeginAddItem(e) ==
  /\ recipe # Missing
  /\ \E p \in Ingredients, q \in Quantities :
       /\ Unique(recipe.id, p)
       /\ Begin(e, "add item", [product |-> p, quantity |-> q])

BeginUpdateItem(e) ==
  \E i \in items, q \in Quantities : Begin(e, "update item", [item |-> i, quantity |-> q])

BeginDeleteItem(e) == \E i \in items : Begin(e, "delete item", [item |-> i])

\* The end of a request: what it has written is committed, or rolled back.  Left out: the
\* rows are read once more for the answer, and if they have gone by then a request that
\* was done is answered with an error.
Answer(e, answer) == edit' = [edit EXCEPT ![e] = [Idle EXCEPT !.answer = answer]]

Commit(e) ==
  /\ Answer(e, "done")
  /\ shown' = [s \in Sales |-> IF sale[s].pc = "read" THEN shown[s] \cup {Book'} ELSE shown[s]]
  /\ UNCHANGED <<sale, begun>>

Fail(e) == Answer(e, "failed") /\ UNCHANGED <<recipe, items, ids, begun, sale, shown>>

\* uq_recipes_tenant_product lets one of two creations through.
Create(e) ==
  LET asked == edit[e].asked
      new == ids + 1
      numbers == new + 1..new + Cardinality(asked.listed)
  IN /\ edit[e].op = "create"
     /\ \/ /\ recipe = Missing
           /\ recipe' = [id |-> new, status |-> "active", yields |-> asked.yields]
           /\ \E number \in Bijection(asked.listed, numbers) :
                items' = items \cup
                  {[id |-> number[p], recipe |-> new, product |-> p, quantity |-> 1] :
                     p \in asked.listed}
           /\ ids' = new + Cardinality(asked.listed)
           /\ Commit(e)
        \/ recipe # Missing /\ Fail(e)

\* Mutant of Column: every column of the request is written.
ColumnWritten(asked, read, now) == asked

\* A column that is set to what was read is not written.
Column(asked, read, now) == IF asked = read THEN now ELSE asked

\* An UPDATE that finds no row is a StaleDataError.  Without a column to write there is
\* no UPDATE, but then the row is missed when the answer is read.
Update(e) ==
  LET read == edit[e].read.recipe
      asked == edit[e].asked
  IN /\ edit[e].op = "update"
     /\ \/ /\ Exists(read.id)
           /\ recipe' = [recipe EXCEPT
                !.status = Column(asked.status, read.status, @),
                !.yields = Column(asked.yields, read.yields, @)]
           /\ UNCHANGED <<items, ids>>
           /\ Commit(e)
        \/ ~Exists(read.id) /\ Fail(e)

\* A DELETE that finds no row is only logged.
Delete(e) ==
  LET id == edit[e].read.recipe.id
  IN /\ edit[e].op = "delete"
     /\ recipe' = IF Exists(id) THEN Missing ELSE recipe
     /\ items' = Cascade(id, edit[e].read.items)
     /\ UNCHANGED ids
     /\ Commit(e)

\* The foreign key wants the recipe, the unique constraint no such ingredient.
AddItem(e) ==
  LET id == edit[e].read.recipe.id
      asked == edit[e].asked
      fits == Exists(id) /\ Unique(id, asked.product)
  IN /\ edit[e].op = "add item"
     /\ \/ /\ fits
           /\ ids' = ids + 1
           /\ items' = items \cup
                {[id |-> ids', recipe |-> id, product |-> asked.product, quantity |-> asked.quantity]}
           /\ UNCHANGED recipe
           /\ Commit(e)
        \/ ~fits /\ Fail(e)

UpdateItem(e) ==
  LET asked == edit[e].asked
      there == \E i \in items : i.id = asked.item.id
  IN /\ edit[e].op = "update item"
     /\ \/ /\ there
           /\ items' = {IF i.id = asked.item.id
                        THEN [i EXCEPT !.quantity = Column(asked.quantity, asked.item.quantity, @)]
                        ELSE i : i \in items}
           /\ UNCHANGED <<recipe, ids>>
           /\ Commit(e)
        \/ ~there /\ Fail(e)

DeleteItem(e) ==
  /\ edit[e].op = "delete item"
  /\ items' = {i \in items : i.id # edit[e].asked.item.id}
  /\ UNCHANGED <<recipe, ids>>
  /\ Commit(e)

-----------------------------------------------------------------------------
(* Sales *)

NoSale == [pc |-> "idle", recipe |-> Missing, takes |-> {}]

\* get_recipe_by_product: the row of recipes
ReadRecipe(s) ==
  /\ sale[s].pc = "idle"
  /\ sale' = [sale EXCEPT ![s] = [pc |-> "read", recipe |-> recipe, takes |-> {}]]
  /\ shown' = [shown EXCEPT ![s] = {Book}]
  /\ UNCHANGED <<recipe, items, ids, begun, edit>>

Ingredient(i) == [product |-> i.product, quantity |-> i.quantity]

\* Mutant of TakesMeal: a recipe that is switched off is still followed.
TakesMealUnlessListed(row, listed) == row = Missing \/ listed = {}

\* There is no recipe, it is switched off, or it lists nothing.
TakesMeal(row, listed) == row = Missing \/ row.status # "active" \/ listed = {}

\* The items of the recipe that was read, in a second statement; then the rest of
\* consume_for_sale_line, and the fallback of complete_sale.
ReadItems(s) ==
  LET row == sale[s].recipe
      listed == {i \in items : row # Missing /\ i.recipe = row.id}
  IN /\ sale[s].pc = "read"
     /\ sale' = [sale EXCEPT ![s].pc = "done",
          ![s].takes = IF TakesMeal(row, listed) THEN {} ELSE {Ingredient(i) : i \in listed}]
     /\ UNCHANGED <<recipe, items, ids, begun, edit, shown>>

-----------------------------------------------------------------------------
RecipesInit ==
  /\ recipe = Missing
  /\ items = {}
  /\ ids = 0
  /\ begun = 0
  /\ edit = [e \in Editors |-> Idle]
  /\ sale = [s \in Sales |-> NoSale]
  /\ shown = [s \in Sales |-> {}]

Next ==
  \/ \E e \in Editors :
       \/ BeginCreate(e) \/ BeginUpdate(e) \/ BeginDelete(e)
       \/ BeginAddItem(e) \/ BeginUpdateItem(e) \/ BeginDeleteItem(e)
       \/ Create(e) \/ Update(e) \/ Delete(e)
       \/ AddItem(e) \/ UpdateItem(e) \/ DeleteItem(e)
  \/ \E s \in Sales : ReadRecipe(s) \/ ReadItems(s)

RecipesSpec == RecipesInit /\ [][Next]_vars

-----------------------------------------------------------------------------
(* Properties *)

\* The rows have their types, and the tables stay a recipe: no item outlives its
\* recipe, however late it was added, and no ingredient is listed twice.
BookIsARecipe ==
  /\ recipe \in [id : 1..ids, status : Statuses, yields : Quantities] \cup {Missing}
  /\ items \subseteq [id : 1..ids, recipe : 1..ids, product : Ingredients, quantity : Quantities]
  /\ \A i \in items : Exists(i.recipe)
  /\ \A i, j \in items : i.product = j.product \/ i.id = j.id => i = j

Listed(book) == {Ingredient(i) : i \in book.items}

Active(book) == book.recipe # Missing /\ book.recipe.status = "active"

\* What a sale takes is what the recipe said: the ingredients are all those the recipe
\* listed at one moment of the sale, and the recipe was active at one (another one,
\* maybe: the statements see different moments).  The meal itself is taken only if at
\* some moment of the sale there was no recipe to follow.
SoldAsListed ==
  \A s \in Sales : sale[s].pc = "done" =>
    IF sale[s].takes = {}
    THEN \E book \in shown[s] : ~Active(book) \/ Listed(book) = {}
    ELSE /\ \E book \in shown[s] : Active(book)
         /\ \E book \in shown[s] : Listed(book) = sale[s].takes

\* The item a request is about, as it is in a book
Current(book, asked) == {i \in book.items : i.id = asked.item.id}

\* A column after a request that may have wanted to change it
Kept(asked, read, before, after) == after = IF asked = read THEN before ELSE asked

\* What must be true of the book when a request is answered with success.
Holds(request, before, book) ==
  LET read == request.read.recipe
      asked == request.asked
  IN CASE request.op = "create" ->
            /\ book.recipe # Missing
            /\ Listed(book) = {[product |-> p, quantity |-> 1] : p \in asked.listed}
       [] request.op = "update" ->
            /\ Kept(asked.status, read.status, before.recipe.status, book.recipe.status)
            /\ Kept(asked.yields, read.yields, before.recipe.yields, book.recipe.yields)
       [] request.op = "delete" -> book.recipe = Missing \/ book.recipe.id # read.id
       [] request.op = "add item" -> asked \in Listed(book)
       [] request.op = "update item" ->
            \A i \in Current(before, asked), j \in Current(book, asked) :
              Kept(asked.quantity, asked.item.quantity, i.quantity, j.quantity)
       [] request.op = "delete item" -> Current(book, asked) = {}

\* An answer tells the truth: after a success the recipe is as was asked, a column the
\* request did not want to change keeps what others made of it, no other item is touched,
\* and a request fails only if another editor has changed the recipe since it was read.
AnswersTrue ==
  [][\A e \in Editors :
       LET request == edit[e]
       IN request.op # "none" /\ edit'[e].op = "none" =>
            IF edit'[e].answer = "done"
            THEN /\ Holds(request, Book, Book')
                 /\ request.op \in {"update item", "delete item"} =>
                      items \ Current(Book, request.asked) = items' \ Current(Book', request.asked)
            ELSE Book # request.read]_vars
=============================================================================
