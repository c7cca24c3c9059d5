# Verification of the hospitality business management backend

The program is a multi-tenant FastAPI service (`src/app`) over PostgreSQL: an append-only
inventory ledger, recipes, a point of sale, staff and sessions, expenses, reports, and a
hierarchy of tenants behind row-level security. This directory models its core in TLA+,
checks the models with TLC on small instances, and proves with TLAPS, for every size, the safety
properties of the ledger, the point of sale, the recipes, staff, sessions, the tree of tenants,
the migrations and the rate limiter, the refinements of `Ledger` and `SlidingWindow`, and that the
figures of the reports agree and the pages of a list show it. Of the properties that hold, one is
left to TLC alone: that every request ends.

## 1. The system

One process runs many coroutines. A request gets one `AsyncSession` and so one database
transaction (`core/db.py`), shared by the authentication dependencies and the handler. There
is no lock in the process: what keeps requests apart is PostgreSQL at READ COMMITTED, that
is, row locks, unique indexes and the deadlock detector. Three facts about the session shape
every model:

* each SQL statement is a step of its own: it sees what was committed when it started, and
  what its own transaction wrote; between two statements other requests may commit;
* the session keeps the objects it has loaded as long as something refers to them: a second
  `SELECT` of a row does not refresh them, so a handler decides on what it read *first*, but
  what nothing refers to any more may be read anew;
* a flush `UPDATE`s only the columns the handler changed; an exception or a lost connection
  rolls everything back.

| Component | State | Operations | Interacts with | Hard behaviour | Correct when |
|---|---|---|---|---|---|
| Inventory ledger (`modules/inventory`) | `products`, `product_units`, `stock_movements`, `stock_levels` | create/update a product, add a unit, receipt, usage, adjustment, `_append_movement` | called by the point of sale with `commit=False` | concurrent movements of one product, retries by idempotency key, rounding to six decimals, deadlock of sales, crash before/after commit | level = sum of the movements, no overdraft, a key booked once, a request all or nothing, every request ends |
| Point of sale (`modules/pos`) | `orders`, `order_items`, `payments`, `pos_receipt_sequences` | create an order, add/update/remove a line, complete, reprint | ledger (deductions), recipes (what to deduct) | check of the order's status without a lock, stale totals, receipt numbers under concurrency, a sale failing half-way | nothing sold without moving stock and the reverse, receipt numbers without gaps, a completed order is final |
| Recipes (`modules/recipes`) | `recipes`, `recipe_items` | create, edit, delete, add/change/remove an ingredient, switch on/off, `consume_for_sale_line` | read by completions; products and units of the ledger | editors who write from what they read, a recipe edited while a sale reads it or switched between two completions of one order | the tables are a recipe, answers are true, a sold meal deducts its ingredients or itself, never a part |
| Staff and roles (`auth/staff_service.py`, `roles.py`, `deps.py`) | `users.status`, `memberships` | add, change role, remove, activate/deactivate | `deps.py` gives access by the membership; accounts are shared by tenants | check-then-act on the number of owners | the tenant keeps an owner |
| Refresh sessions (`auth/service.py`) | `refresh_sessions` | register, login, switch, refresh with rotation, logout, prune | account and membership (staff) | two renewals at once, lost answer and retry, reuse detection racing an issue | one live session per sign-in; a reused token ends it |
| Tenant hierarchy, RLS, entitlements (`modules/tenant`, migrations 0010-0012) | `tenants`, `tenant_closure`, `tenant_entitlements`, the GUC of a transaction | register, create a sub-tenant, inherit membership, `require_module` | every query | closure maintained by a trigger, backfilled by a query | a tenant sees its subtree and nothing else; an owner may do everything |
| Migrations (`alembic`) | tables, policies, permissions, grants, rows they insert | upgrade, downgrade, `upgrade head` at every start | the closure and entitlements of tenants that exist | a schema reached by other ways than from nothing, data already there | each runs at every revision, a downgrade undoes its upgrade, every table of tenants is guarded |
| HTTP layer (`routers`, `deps.py`) | none | which permission and module an operation asks for | migrations, entitlements | one key written in three places | nothing asks for what nobody is given |
| Rate limiter (`core/rate_limit.py`) | hits per client in memory or in Redis | allow/deny | login, register, report exports | equal clock readings, late and crossing calls, denied hits withdrawn late or never | no more than the limit per window; who was quiet is let through |
| Expenses (`modules/expenses`) | categories, expenses | create, update, list, summarize | entitlements, reports | a category deactivated while it is used, an expense changed from an old read | sums per category add up |
| Reports, dashboard, pagination | none | aggregates of several statements, pages | sales and expenses | each statement sees its own moment | figures of one period agree; pages show the list |
| Tokens, exports, receipt text, settings | none | signing, formatting | - | - | - |

## 2. The modules

| Module | Models |
|---|---|
| `Ledger` | abstract specification of the inventory: movements are booked in indivisible steps, a key once, a level is the sum of its movements |
| `StockLedger` | `InventoryService` and the tables behind it, one action per SQL statement, as an implementation of `Ledger` |
| `MCStockLedger`, `StockLedgerProofs` | its instances, and proofs about it |
| `PointOfSale` (extends `StockLedger`) | `PosService`, the receipt sequence, `consume_for_sale_line`, recipes switched on and off |
| `MCPointOfSale`, `PointOfSaleProofs` | its instances, and proofs about it |
| `RecipeBook` | `RecipeService`: the recipe of one meal, its editors, and a sale that reads it in two statements |
| `MCRecipeBook`, `RecipeBookProofs` | its instance, and proofs about it |
| `Staff` | `StaffService`, `get_tenant_context`, `require_permission` and `assert_assignable_role` |
| `MCStaff` | its instances |
| `Sessions` (extends `Staff`) | `AuthService`: login, refresh, logout, prune |
| `MCSessions`, `AccountsProofs` | its instances, and proofs about `Staff` and `Sessions` |
| `Migrations` | the seventeen migrations, applied and undone |
| `Tenants` (extends `Migrations`) | the rows of tenants: tree, closure, entitlements, memberships; `register`, `create_sub_tenant`, the policies on `tenants` |
| `Access` (extends `Tenants`) | the operations of the routers and what they ask for |
| `MCTenants`, `AccessProofs` | the instance of all three, and proofs about them |
| `SlidingWindow` | abstract specification of a rate limiter |
| `RateLimiter` | `core/rate_limit.py`, both backends, as an implementation of `SlidingWindow` |
| `MCRateLimiter`, `RateLimiterProofs` | its instance, and proofs about it |
| `Books` | completed sales, `ExpenseService`, and a reader of `ReportsService`, `DashboardService` and the pages of `list_expenses` |
| `MCBooks`, `BooksProofs` | its instance, and proofs about it |
| `SumProofs` | lemmas about sums over finite sets, which the proofs about the ledger, the point of sale and the books use |

**StockLedger.** `Txns` are requests, each in its session. `pc[t]` is the statement about to be
executed: `LookUp` (the idempotency key), `CheckProduct`/`ReadProduct`, `ReadUnit`, `Lock`
(`SELECT ... FOR UPDATE`, or the insert of the level), then `Post` (new level, movement, flush)
or `Refuse` ("Insufficient stock") or `DuplicateKey` (the unique index), and `NextLine` for a
sale, `Commit` otherwise. `level`, `ledger` are committed; `draft`, `staged` are what the
transaction holding the row has written. `booked` and `bookedDraft` are history: the sum of the
movements, kept as a number so that a step changes it by a number (`BookedIsTheSum` proves that it
is the sum over the rows). A product or a level that an earlier line of a sale used is, at a
later line, either still in memory (the level as computed) or read again (the level as its column
rounded it): `ReadProduct` and `Lock` have both. `Crash`,
`CrashAfterCommit` and `DeadlockVictim` end a transaction from outside. Quantities are integers
that count *quarters* of the last place of `Numeric(24, 6)`: columns hold multiples of four, and
`Stored` rounds half away from zero as PostgreSQL does. The quarters tell exact, below half,
half and above half apart.

**PointOfSale.** `desk[t]` is what the session of request `t` has loaded: the order, its lines,
the recipes. `Arrive` and `ReadForEdit`/`ReadForSale` load, `Sellable`, `Target`, `Check` decide
on what was loaded, `SaveEdit` writes only the changed columns of the rows that still exist, and
a completion runs the actions of `StockLedger` line by line (`NextItem`, `Deductions`), where what
earlier lines read of recipes and products is held or `Forgotten` (`StillHeld`), takes a number
(`TakeNumber`, `AllocateNumber`, `InsertSequence`) and commits in `Settle`. Idempotency keys of
a sale name the line and the product, as the strings in the code do. What goes into one meal of a
recipe that yields several is a quotient, which the session computes with and the columns round;
yields and quantities are chosen so that it is a number of quarters. Prices are constant, money is not rounded.

**Staff.** Accounts and the memberships of one tenant. A request (`Send`) reads the actor's
account (`ReadActor`), the membership that gives access (`ReadAccess`), the member it is about
(`ReadMember`, or `ReadUser`/`ReadExisting` when adding), the number of owners (`CountOwners`)
and writes once (`Save...`). `call[t].known` is the identity map: the actor's own membership
stays as it was read for access. Unique constraints are checked where they bite, at the write.
`Inherited` is the role from the nearest ancestor tenant; `Elsewhere` is another tenant's
administrator changing a shared account.

**RecipeBook.** `recipe` and `items` are the rows, `edit[e]` the request of an editor with what it
has read. `Begin...` is the read, `Create`, `Update`, `AddItem`, ... the flush and the commit: a
unique or a foreign key fails the request there (`Fail`), an `UPDATE` or `DELETE` that finds no
row is SQLAlchemy's `StaleDataError`, and `Column` writes only what differs from what was read.
`Cascade` is `ON DELETE CASCADE`, which also removes items the session never saw. A sale reads
the header (`ReadRecipe`) and then its items (`ReadItems`); `shown[s]` is history, the recipes
there were since its first statement. An identifier is never used again.

**Sessions.** `refresh_sessions` with, as history, why a row was revoked (`revoked_at` has no
reason), which sign-in it descends from (`chain`), what a token was exchanged for
(`successors`) and the sign-ins of which an old token came back (`caught`). `Rotate` and
`RevokeNext` wait for the transaction that has updated the row, and re-evaluate
`revoked_at IS NULL` afterwards, as PostgreSQL does. `Issue(v, FALSE)` is an answer that is lost.

**Migrations, Tenants, Access.** `schema` is what the migrations have made of the database:
tables with the tables they refer to, the guarded ones, permission keys and grants.
`Applies`/`Undoes` say when PostgreSQL lets the statements of one migration pass, `Up0001` to
`Down0017` what each does. `Tenants` adds the rows a migration can meet. The closure is the
table: `TriggerRows` is the trigger of 0010, `Backfill` its query (a root with each of its
descendants). `backfilled` is history, the tenants whose closure came from that query.
`Lineage`, `Visible` and `Listed` are the walk up the tree, the policy on `tenants` and the
recursive query under that policy. `Access` writes down what each operation of each router
asks for and puts it beside the grants and the entitlements.

**RateLimiter.** One key. In memory a request is asked and answered in one step of the event
loop. With Redis a process reads its clock (`ReadClock`), executes the pipeline (`Execute`) and,
if denied, withdraws its hit with a second command (`Withdraw`); it may be slow or die (`Die`)
between any two. `exact` is history: it ends with the first call that arrives after one with a
later or an equal reading of its clock, or more than a second late, or with a restart of the
memory backend. Until then `SlidingWindow` is promised, afterwards nothing is.

**Books.** Two tills complete orders, clerks record and change expenses, and one reader either
takes two figures of the same period from two statements (`First`, `Second`) or walks through
the pages (`Count`, `ReadPage`). A completion reads, stamps and commits in three steps, so that
it may be stamped before midnight and committed after it, and two completions of one order
both pay. `reader` keeps, as history, what was committed while it read. `Listed` is `ORDER BY`:
the row at a place is the one that as many rows precede.

## 3. What the runs check

All runs set `CHECK_DEADLOCK FALSE`: every instance has finitely many requests, sessions,
tokens or ticks and stops when they are used up. Circular waits are a property of their own.

| Run | Instance | Shows |
|---|---|---|
| `single` | 3 requests out of six kinds of single movement, 2 products, 2 units (one not for stock), 4 keys | `TypeOK`, `NoOverdraft`, `NeverUnderstated`, `KeyBookedOnce` with keys retried, one key used for two products, quantities that round, a product created, deactivated or given a unit at any moment, crashes |
| `sales` | 2 requests out of two sales of two lines in opposite orders and two receipts, on a stock of two each, weak fairness of the requests' steps | `BooksBalance`, `AllOrNothing`, `CircularWaitNeedsTwoSales`; `RefinesLedger`: the statement-level system implements `Ledger`; `EveryRequestEnds` in spite of waits |
| `desk` | 3 orders (1 yet to be created), 3 lines and one more, 2 requests, one per order at a time, and a receipt | `DeskTypeOK`, `TotalIsSumOfLines`, `SettledInFull`, `CompletedIsFinal` with failing sales, tendered amounts too small, recipes switched, and a recipe that yields four, so that a meal's share of an ingredient rounds to nothing |
| `overlap` | 1 order, 3 requests that overlap freely | `ReceiptNumbersInOrder`, `PaidLinesMoved`, `NothingMovedUnpaid` hold even then: what moves is, in lines and quantities, what its own payment was for, when the order is sold twice, edited while it is sold, or a recipe is switched |
| `recipes` | 2 editors with 4 requests, a meal of up to 2 ingredients, quantities 1 and 2, a sale | `BookIsARecipe`, `SoldAsListed`, `AnswersTrue` with every pair of requests at once and a sale across them |
| `staff` | 3 people, 4 memberships, requests one after the other, one account shared with another tenant | `StaffTypeOK`, `AnOwnerRemains`, `OwnersKeepThemselves` |
| `lastowner` (violation) | 2 owners, 2 requests at once | `AnOwnerRemains` fails, see findings |
| `signin` | 1 user, 3 sessions, 2 requests at a time, but one at a time per sign-in | `SessionsTypeOK`, `RotatedForOne`, `OneLivePerSignIn`, `ReuseEndsSignIn` |
| `renewal` (violation) | the same with requests of one sign-in at once | `ExchangedOnce` fails, see findings |
| `tenants` | up to 4 tenants in every shape of a forest, 2 people, 2 memberships, all 17 migrations up and down at any moment | `ClosureExact`, `SubtreeVisible`, `MigrationsRunOnData`, `DowngradeIsInverse`, `TenantRowsGuarded`, `NoEscalation`, `OwnersMayDoEverything`, `SummariesShowReadable`, `TenantsTypeOK` |
| `limiter` | both backends, 2 requests per window of 3 seconds, 8 seconds, 2 processes | `LimiterTypeOK`, `RefinesWindow`: it implements the sliding window; `QuietIsAdmitted`: whoever waits for a window is let in |
| `books` | 2 orders of two products, 2 tills, 1 category, 2 clerks, 5 requests, 2 days, pages of one row | `FiguresAgree` for seven pairs of figures of three modules; `PagesCoverList` |

**Why these bounds.** A race in this code needs two requests between the read and the write of
a third row or key; three requests give a second, a retry and a crashed one. Two products make
a circular wait possible, three would only lengthen it. Three sessions are a token, its
successor and a second sign-in of the same user, the least in which the reuse of one sign-in
meets the renewal of the other. `sales` and the desk runs start from a stocked state,
reached by two receipts, because receipts before every sale would only multiply the states.
Four requests of editors (`recipes`) build a recipe and then change it twice at once, or delete
it and create it anew under a sale. Four tenants (`tenants`) are a chain of depth three, in
which a tenant of the backfill has descendants of both kinds, or two trees. Eight
seconds (`limiter`) let a window pass twice, with Max + 1 hits in each. Two tills can complete
one order twice; two days are the least that a sale or an expense can move between; pages of one
row shift with every insert (`books`).
`desk` and `signin` assume that the requests on one order, or of one sign-in, come one after the
other (`OneAtATime`, `OneByOne`): most of what they check is false otherwise, as `renewal` shows
for sign-ins. What needs overlap to go wrong is therefore not tried in `desk`, `staff` and `signin`:
two completions of one order, or an edit saved after a completion, are in `overlap`; two
administrators at once in `lastowner` and in the theorem `MembershipsAreUnique`; two refreshes
with one token in `renewal`. What then fails is under findings. `signin` runs without administrators (`Workers = {}`);
losing the account and losing the membership stop a renewal in the same way, and the account is
taken away there. `tenants` assumes the database role of the application (`AppRoleExists`),
see "Seen" under findings.

**Mutants.** For every property of a passing run PROJECT.json names a plausible slip in the code
(no lock, a rollback that keeps a row, a truncating column, a missing unique index, a rotation
committed by itself, ...), written beside the definition as "Mutant of ...", which makes TLC
find the property violated.

**Fairness.** Only `sales` needs it: weak fairness of the steps of a request. Once a request
is sent, its coroutine is driven to an answer; a row lock or an index entry is released when its
holder ends; a circular wait is broken by PostgreSQL's detector, so a waiting request is always
enabled again. Nothing is assumed about clients, crashes or administrators.

## 4. What is proved

Every theorem is about all values of the constants that satisfy the named assumptions of the
component's module, which are what the request schemas and the tables let through. Some have a
premise of their own, named in the theorem; what is false without it is said in each case.

**The inventory** (`StockLedgerProofs`; any requests, products, units, keys, sessions).

* `TypeCorrect`: `Spec => []TypeOK`.
* `LevelsInductive`: `Spec => []LevelInv`. `NoOverdraft` is not inductive: the level that
  `Post` checks must still be the one it writes. `LevelInv` adds `Isolation` (the row lock ties
  `draft` to one running transaction from `Lock` to its end, and an unlocked level equals its
  draft), `LinesAsked` (a transaction's lines come from `Requests`), `Storable` (levels are
  multiples of the last place) and `Drift` (until the line that moves it, a held level is the
  committed one; stored, it will not be below its ledger).
* From it `NeverOverdrawn` (`NoOverdraft`), `DriftIsUpward` (`NeverUnderstated`; its premise is
  that no request moves a product twice) and `BooksAlwaysBalance` (`BooksBalance`; premise
  `Representable`: quantities are storable as entered. Otherwise levels drift, see Findings).
* `RowsAlwaysInOrder`: `Spec => []RowsInOrder`: staged and committed rows come from the requests
  of their transactions, keys held by running transactions and by the ledger are apart, and every
  line a transaction has passed is covered by a movement. From it `KeysBookedOnce`
  (`KeyBookedOnce`) and `RequestsAreAtomic` (`AllOrNothing`; its premise `KeysNameLines` is that
  clients use a key for one thing).
* `OnlySalesDeadlock` (`CircularWaitNeedsTwoSales`), with `HeldRows`: who has staged a movement
  holds the row of its product, and who holds a row before the lock of the present line took it
  for an earlier one. Keys that name lines are never waited for, so a circle is one of rows, and
  everyone in it has passed a line: only sales have two.
* `BookedIsTheSum`: the history variables are the sums of the rows; and from it
  `InventoryImplementsLedger` (`RefinesLedger`, premise `Representable`), by step simulation: a
  commit is a `Book` of the rows it publishes, any other step leaves the abstract state alone.

Rounding enters the proofs through a few facts about `Stored` only: it yields storable numbers,
leaves storable ones alone, keeps what is not negative so, and the rounded sum of a storable
level and a delta is no less than the level plus the rounded delta.

**The point of sale** (`PointOfSaleProofs`; any orders, recipes, sales and edits).

* `DeskInductive`, and from it `DeskTypeCorrect` (`DeskTypeOK`): every session has in memory what
  its next statement needs, and the id of a line is never given again.
* `ReceiptsInOrder` (`ReceiptNumbersInOrder`), whatever overlaps, fails or dies: between taking a
  number and the commit a sale holds the sequence row, and numbers up to the committed one are
  on payments, each once.
* `PaidHasMoved` (`PaidLinesMoved`): a line that a sale has dealt with is in the ledger or among
  its own staged rows, under one of its two keys, product or meal; recipes may be switched meanwhile.
* `MovedIsPaid` (`NothingMovedUnpaid`), also of requests that overlap; premise `ClientKeys`: no
  client makes up a key of a sale (the code does not forbid it). `RightOf` says of each session that
  the rows it has staged, and the lines it is about to post, are in product and quantity what the
  lines in its memory ask for, and `EnteredInv` that the quantities in memory, like those in the
  tables, are sums of what was entered, so that the quotients of recipes come out even.
* With `OneAtATime`, that the requests on one order come one after the other: `TotalsAreSums`
  (`TotalIsSumOfLines`: while a request is at work, what it has read of its order is still so),
  `CompletedStays` (`CompletedIsFinal`), and with `ClientKeys` also `CompletedIsSettled`
  (`SettledInFull`: besides `RightOf`, a payment is for an order as it was completed). Overlapping requests break these;
  section 5 says how.

**Staff** (`AccountsProofs`; any people, founders, memberships, requests).

* `MembershipsAreUnique` (`StaffTypeOK`), whatever overlaps: where two administrators add one
  person at once and both find nobody, the constraints of the tables (`Unique`) refuse the second.
  The run `staff` checks it for requests one after the other.
* `LastOwnerStays` (`AnOwnerRemains`) and `OwnersStayThemselves` (`OwnersKeepThemselves`), with
  `OneAtATime` (the run `lastowner` shows that it is needed). `TurnInv` says what a request may
  rely on in its turn: nothing else has changed the memberships since it read them, so that the
  actor still has access, and whoever is about to oust an owner has counted two.

**Sessions** (`AccountsProofs`; any users, requests in parallel, sign-ins and tokens).

* `SignInInductive`, and from it `SessionsTypeCorrect` (`SessionsTypeOK`): types, what a request
  knows of its row, which rows there are and who holds them rest on one another.
* With `OneByOne` (a client has one request under way for one sign-in; `renewal` shows that it is
  needed): `ChainsInductive`, from which `OneSessionLives` (`OneLivePerSignIn`), `ReuseIsFinal`
  (`ReuseEndsSignIn`) and `RotatedOnceForOne` (`RotatedForOne`). The row that a
  renewal brings is the only one of its sign-in that can be live, and its own to revoke unless a
  reuse elsewhere was faster (`ExchangesInv`); a row has the successors that its revocation says
  (`SuccessorsInv`); and nothing live of a sign-in escapes the request that ends it (`ReuseInv`).

**The rate limiter** (`RateLimiterProofs`; any processes, limit, window and clock).

* `CountIsKept`: `LimiterSpec => []LimiterInv`. That no window holds more than `Max` requests
  says nothing of the hits the limiter counts, so it is not inductive. `LimiterInv` says how the
  two are related: in memory the deque *is* the window before the last call (`Deque`); in Redis
  every request let through that still counts is in the sorted set, no hit is later than the
  last call, and a denied hit about to be withdrawn is not that of a request let through
  (`SortedSet`). `Numbered` keeps the elements of the history apart, `Timely` orders the two clocks.
* `WindowIsKeptTo`: `RefinesWindow`, by step simulation: an admission that leaves the count exact
  is an `Admit` of `SlidingWindow`, because the hits kept contain its window and the new hit is
  not among them, so that the count is larger than the window's.
* `QuietAlwaysAdmitted` (`QuietIsAdmitted`): after a window without calls the hits are empty but
  for the new one, in spite of hits withdrawn late; and `LimiterTypeCorrect`.

**Recipes** (`RecipeBookProofs`; any editors, sales, products, quantities).

* `TablesStayARecipe` (`BookIsARecipe`), with `BodiesOK`: the bodies of the requests under way are
  what the schemas let through, so that a late write keeps the types of the columns.
* `SalesFollowARecipe` (`SoldAsListed`), with `Watched`: while a sale is between its two
  statements, the recipe it has read and the present one are in its history, and if the recipe
  it has read is gone there was a moment without one; for an identifier is never used again.
* `AnswersAlwaysTrue` (`AnswersTrue`), from the first.

The assumptions are `RecipesAssumption` (finitely many products, positive quantities) and
`MissingAssumption` (no row is the value that stands for its absence).

**The books** (`BooksProofs`; any orders, lines, expenses, tills, clerks, days and lengths of a page).

* `FiguresAlwaysAgree` (`FiguresAgree`). `FiguresOfOneMoment`: two statements that run at one
  moment return the same, since the periods and the categories are parts of what they group
  (`TotalParts`), a table of lines has one sum by products and by orders (`TotalSwap`), and an
  order that is completed has a payment, of which `PaidOnce` leaves one. `BooksInductive` carries
  this from the first statement to the second: what was read is still the figure of its days
  unless something was committed, and a sale that commits only adds (`SalesGrow`, `TotalPart`).
* `PagesAlwaysCover` (`PagesCoverList`). A row's `Place` is one after the rows that are later, by
  day and number; in a finite set every row has a place of its own and every place is taken
  (`Places`), and no row moves ahead when another is added (`PlacesGrow`). `PagesInductive`
  carries that the wanted rows with places up to the offset were shown, and that while none is
  added the walk *is* the list; a change that keeps the day keeps every place. What was counted
  stays a lower bound of the rows there are, so that a page with more behind it is full.

**The tenants** (`AccessProofs`; any tenants, people, shapes of the forest, and any number of
migrations up and down between requests).

* `TenantsInductive`: `TenantsSpec => []TenantsInv`. `ClosureExact` is not inductive: it says what
  the closure is by `Lineage`, a recursive function, and nothing about what that function is.
  `TenantsInv` adds a `Forest`: there is exactly one function that walks up the parents as
  `Lineage` does, and its walk from a tenant starts there and ends, only there, at a root. This
  replaces an induction over the depth: a new tenant is a leaf, so that the walk of the larger
  forest is the old one with one walk more (`ForestGrows`), and the walks of the others are kept.
  With it `Lineage` is known in the states before and after a step, and the pairs of the trigger
  are those of the parent's lineage with the new tenant in front.
* From it `TenantsTypeCorrect` (`TenantsTypeOK`), `ClosureIsTheTree` (`ClosureExact`) and
  `SubtreesAreSeen` (`SubtreeVisible`: who has `a` in the lineage is who the recursive query under
  the policies finds).
* `DowngradesReverse` (`DowngradeIsInverse`) and `MigrationsNeverFail` (`MigrationsRunOnData`;
  premise `AppRoleExists`, see Findings). `TableSince`, `GuardSince` and `KeySince` name the
  migration that brings a table, guards it, or adds a key, and five lemmas check them against each
  of the seventeen migrations. With that, what is there at a revision is described by comparing
  numbers (`Describes`), an upgrade leads from one description to the next (`UpgradeDescribed`) and
  a downgrade back to the very schema (`DowngradeReverses`).
* `RowsAreGuarded` (`TenantRowsGuarded`), `NobodyEscalates` (`NoEscalation`), `OwnersAndManagers`
  (`OwnersMayDoEverything`, for tenants at any depth, where the role is inherited) and
  `SummariesAreReadable` (`SummariesShowReadable`), from the description and, for the modules,
  from `RowsInv`: at every revision every tenant has exactly the modules handed out so far.

`TenantsAssumption` says that no tenant is the value that stands for the lack of one.

**Sums.** `MapThenSumSet` folds over a set by recursion, in an order that `CHOOSE` fixes, and the
induction theorems of the library take an operator that the provers cannot instantiate. `SumProofs`
gets induction over the subsets of a finite set from the well-foundedness of the strict subset
order, as a *set* of subsets without a smallest one outside it (`SubsetInduction`), and from it:
a sum exists, is a number, may take any member first, adds up over disjoint sets, over the parts of
a set, member by member, and by rows as by columns.

**Model-checked only.** `EveryRequestEnds`: temporal reasoning under fairness is beyond the
provers. `ExchangedOnce`, and `AnOwnerRemains` with requests at once, are false (Findings).

## 5. Findings

* *The last owner can be lost* (`lastowner`): "Cannot remove or demote the last owner"
  (`staff_service.py:189`) holds for requests one after the other only.
* *A token can be exchanged twice* (`renewal`): "Re-using the ORIGINAL refresh token ... is now
  rejected" (`tests/test_refresh_revocation.py:28`) is not so for two requests at once, since the
  row count of the rotation (`auth/service.py:102`) is not looked at. For the same reason a
  renewal under way survives the revocation of the user's sessions by another sign-in's reuse,
  which is why `RotatedForOne` allows a successor to a session revoked for reuse.

Seen while modelling, and stated as the exceptions of properties that do hold:

* Levels and movements are rounded apart: "derived" levels (`inventory/models.py:4`, `:154`) are
  not always the sum of the ledger, because `service.py:343` and `:355` hand two unrounded numbers to
  two rounding columns. `NeverUnderstated` is what is left: the level can only be too high,
  unless one request moves a product twice.
* Two overlapping completions of one order both take a payment and a receipt number; stock moves
  once (the keys), but the second number replaces the first, so that a reprint
  (`tests/test_pos_receipts.py:122-123`) shows another one. The order moves to the second's day,
  and `sales_by_payment_method` counts its total once per payment (`reports/repository.py:200`);
  `FiguresAgree` is about orders paid once. If a recipe is switched between the two, their keys
  differ and stock moves twice, each time as much as was paid.
* Edits of one order that overlap merge into an old quantity or leave a total that is not the sum of
  the lines (`pos/service.py:184`, `:352-356`), and one that was read before a completion and is saved
  after it changes the completed order (`:182`). Payment and movements keep to the lines as the
  completion read them; the order no longer does.
* An owner whose account is inactive is counted (`staff_service.py:183-189`), so the one owner who
  can sign in may be removed. `AnOwnerRemains` counts as the code does.
* The closure of tenants that exist before migration 0010 pairs them with their root only
  (`0010:37`), though `tenant/models.py:34` calls it "ancestor/descendant pairs". A sub-tenant
  from before has not even the pair with itself, so its own sessions see no row of `tenants`.
  `ClosureExact` and `SubtreeVisible` speak of `Recorded` tenants, the others.
* Migrations 0016 and 0017 grant to the application's database role without looking whether it
  exists (`0016:61`, `0017:175-176`), unlike 0004 to 0012; without the role `upgrade head` stops
  there. `MigrationsRunOnData` is checked with the role.
* A sale may follow the header of the recipe of one moment and the items of another:
  `SoldAsListed` names two moments.
* `has_more` compares a page with a count taken before it: an expense added in between hides the
  last row from a walk. `PagesCoverList` excepts this case (`squeezed`).

## 6. Not modelled, and caveats

* The text of receipts and exports, signing of tokens, hashing, routing and validation.
* Columns, indexes and `GRANT`s of the migrations beyond the role they name, and the policies on
  the tables of the modules beyond the fact that there is one: all are the same equality of
  tenants.
* Yields that are not whole numbers, and quotients that are no number of quarters: a sum of
  several of them in the session's memory may round differently.
* An ingredient's status and unit, which `_build_item` checks in other tables.
* `CrashDesk` stands also for errors a model with one sequence row cannot tell apart, such as
  the deadlock of a first insert of the receipt row with an update of the same order, and
  `DieSigningIn` for the deadlock of two revocations that take rows in different orders.
* The second transaction of `register`, which issues a session: a crash before it leaves an
  account that can sign in.
* An order and its lines are read in one step, where `get_order` has two statements; this matters
  only to requests that overlap on an order, and only to the total such a sale is paid by.
* `Books` has one currency, and no movements of stock; a total of `Books` is that of `desk`'s
  `TotalIsSumOfLines`, so it assumes orders whose edits did not overlap.
* A step of the clock backwards in `RateLimiter`: a process that reads an old clock is a late
  one.
* Nothing in the code ever changes an entitlement or a tenant's status after creation.

## 7. Plan

1. Renaming of categories (a unique name) and movements of stock in `Books`.
2. `Tenants` statement by statement: `register` and `create_sub_tenant` are single steps, which
   is why nothing there is said of two of them at once.

`Access` composes what the routers ask with `Tenants` and `Migrations`; `PointOfSale` composes
sales with `StockLedger`, `Sessions` sign-ins with `Staff`. `RecipeBook`, `RateLimiter` and
`Books` stand alone.
