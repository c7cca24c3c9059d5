------------------------------ MODULE StockLedger ------------------------------
(***************************************************************************)
(* The inventory ledger of app/modules/inventory: the catalogue rows a     *)
(* movement is checked against, the append-only table stock_movements, the *)
(* derived table stock_levels, and the database transactions that post     *)
(* movements to them (InventoryService._append_movement).                  *)
(*                                                                         *)
(* A transaction is one request.  A receipt, a usage or an adjustment      *)
(* posts one line and commits; the completion of a sale posts a sequence   *)
(* of lines and commits them together (commit=False).  Every SQL statement *)
(* is a step of its own, because the sessions run at READ COMMITTED: a     *)
(* statement sees what is committed when it starts, and what its own       *)
(* transaction wrote.                                                      *)
(*                                                                         *)
(* Quantities are integers that count QUARTERS of the last place of        *)
(* Numeric(24, 6), which columns round to: they hold multiples of four,    *)
(* and the quarters stand for what may be left over of a quantity as it is *)
(* entered or computed: nothing, less than half, half, or more.            *)
(***************************************************************************)
EXTENDS Integers, Sequences, FiniteSets, FiniteSetsExt

CONSTANTS
  Txns,       \* requests, each in a session and a transaction of its own
  Products,   \* products of one tenant
  Units,      \* units of measure
  BaseUnit,   \* the unit every product is created with
  Factor,     \* to_base_factor of a product's unit, set once and never updated
  StockUnits, \* the <<product, unit>> pairs created with is_stock
  Keys,       \* idempotency keys
  NoKey,      \* the absent idempotency key
  Free,       \* no transaction holds the row
  Requests    \* the requests clients may send

Kinds == {"receipt", "usage", "adjustment", "sale"}

Line == [product : Products, unit : Units, qty : Int, key : Keys \cup {NoKey}]

Request == [kind : Kinds, lines : Seq(Line)]

\* The schemas: StockMovementCreateRequest.quantity is > 0, an adjustment is
\* signed, one movement per request except for a sale; a product's base unit
\* has factor 1 and every role.
ASSUME ConstantsAssumption ==
  /\ Free \notin Txns
  /\ NoKey \notin Keys
  /\ BaseUnit \in Units
  /\ Factor \in [Products \X Units -> Nat \ {0}]
  /\ \A p \in Products : Factor[<<p, BaseUnit>>] = 1
  /\ StockUnits \subseteq Products \X Units
  /\ \A p \in Products : <<p, BaseUnit>> \in StockUnits

ASSUME RequestsAssumption ==
  /\ Requests \subseteq Request
  /\ \A r \in Requests :
       /\ r.lines # <<>>
       /\ IF r.kind = "sale" THEN \A i \in DOMAIN r.lines : r.lines[i].key \in Keys
                            ELSE Len(r.lines) = 1
       /\ r.kind # "adjustment" => \A i \in DOMAIN r.lines : r.lines[i].qty > 0

\* A client uses an idempotency key for one thing.  The code does not require
\* it (a reused key returns the first movement whatever the second request
\* says), so it is a premise of AllOrNothing only.
KeysNameLines ==
  \A r, s \in Requests :
    \A i \in DOMAIN r.lines, j \in DOMAIN s.lines :
      r.lines[i].key = s.lines[j].key /\ r.lines[i].key # NoKey =>
        /\ r.lines[i] = s.lines[j]
        /\ r.kind = s.kind

VARIABLES
  status,       \* products.status, "absent" before the product is created
  units,        \* product_units: the units configured for each product
  pc,           \* the statement each transaction is about to execute
  kind,         \* the kind of movement each transaction posts
  lines,        \* the lines it has to post
  at,           \* the line it is at
  ledger,       \* stock_movements: the committed rows
  staged,       \* stock_movements: the rows each open transaction has inserted
  lock,         \* the transaction that holds each stock_levels row, if any
  level,        \* stock_levels.quantity_base, as committed
  draft,        \* the same, as the transaction that holds the row sees it
  booked,       \* history: SUM(quantity_delta_base) over the committed rows
  bookedDraft   \* history: the same, as the transaction that holds the row sees it

catalogue == <<status, units>>
control == <<pc, kind, lines, at>>
rows == <<ledger, staged>>
stock == <<level, draft, booked, bookedDraft>>
vars == <<catalogue, control, rows, lock, stock>>

Running == {"lookup", "product", "unit", "lock", "post", "commit"}
Ended == {"done", "failed", "unanswered"}

-----------------------------------------------------------------------------
(* Operators *)

\* Mutant of Stored: the column truncates.
StoredTruncated(x) == IF x >= 0 THEN 4 * (x \div 4) ELSE -(4 * ((-x) \div 4))

\* What the database stores of a quantity: Numeric(24, 6) rounds half away
\* from zero.
Stored(x) == IF x >= 0 THEN 4 * ((x + 2) \div 4) ELSE -(4 * ((2 - x) \div 4))

\* record_receipt, record_usage, record_adjustment and record_sale_deduction
\* differ in the sign they give the entered quantity.
Signed(k, q) == IF k \in {"usage", "sale"} THEN -q ELSE q

Current(t) == lines[t][at[t]]

\* delta_base, before the database rounds it
Delta(t) ==
  Signed(kind[t], Current(t).qty) * Factor[<<Current(t).product, Current(t).unit>>]

\* new_qty: of the level as it was read (Lock), or as an earlier line of the session
\* computed it, which is not rounded yet.
NewQuantity(t) == draft[Current(t).product] + Delta(t)

Movement(t) ==
  [txn |-> t, line |-> at[t], product |-> Current(t).product,
   delta |-> Stored(Delta(t)), key |-> Current(t).key]

HasKey(k, S) == k # NoKey /\ \E m \in S : m.key = k

\* Mutants of HoldsKey: no unique index; inserts that wait for each other.
HoldsNoKey(u, t) == FALSE
HoldsTable(u, t) == u # t /\ staged[u] # {}

\* u has inserted, and not yet committed, a row with the key t is about to
\* insert: the unique index makes t wait for u.
HoldsKey(u, t) == u # t /\ HasKey(Current(t).key, staged[u])

\* t waits for u to end: for a stock_levels row, or for the unique index on
\* (tenant_id, idempotency_key).
WaitsFor(t, u) ==
  \/ pc[t] = "lock" /\ lock[Current(t).product] = u /\ u # t
  \/ pc[t] = "post" /\ NewQuantity(t) >= 0 /\ HoldsKey(u, t)

\* A transaction waits for at most one other, so a set in which everyone waits
\* for a member and is waited for by a member is made of cycles.
InCycle(t) ==
  \E S \in SUBSET Txns :
    /\ t \in S
    /\ \A u \in S : \E v \in S : WaitsFor(u, v)
    /\ \A v \in S : \E u \in S : WaitsFor(u, v)

-----------------------------------------------------------------------------
Init ==
  /\ status = [p \in Products |-> "absent"]
  /\ units = [p \in Products |-> {}]
  /\ pc = [t \in Txns |-> "idle"]
  /\ kind = [t \in Txns |-> "receipt"]
  /\ lines = [t \in Txns |-> <<>>]
  /\ at = [t \in Txns |-> 1]
  /\ ledger = {}
  /\ staged = [t \in Txns |-> {}]
  /\ lock = [p \in Products |-> Free]
  /\ level = [p \in Products |-> 0]
  /\ draft = [p \in Products |-> 0]
  /\ booked = [p \in Products |-> 0]
  /\ bookedDraft = [p \in Products |-> 0]

-----------------------------------------------------------------------------
(* The catalogue *)

\* create_product: the product, its base unit and its stock level at zero are
\* committed together.
CreateProduct(p) ==
  /\ status[p] = "absent"
  /\ status' = [status EXCEPT ![p] = "active"]
  /\ units' = [units EXCEPT ![p] = {BaseUnit}]
  /\ UNCHANGED <<control, rows, lock, stock>>

\* add_product_unit
AddProductUnit(p, u) ==
  /\ status[p] # "absent"
  /\ u \notin units[p]
  /\ units' = [units EXCEPT ![p] = @ \cup {u}]
  /\ UNCHANGED <<status, control, rows, lock, stock>>

\* update_product with a status
UpdateStatus(p, s) ==
  /\ status[p] # "absent"
  /\ status[p] # s
  /\ status' = [status EXCEPT ![p] = s]
  /\ UNCHANGED <<units, control, rows, lock, stock>>

-----------------------------------------------------------------------------
(* Transactions: how they end *)

\* Mutants of Rollback: the level computed so far, the rows inserted so far, or the
\* row locks are kept.
RollbackKeepingLevel(t, fate) ==
  /\ pc' = [pc EXCEPT ![t] = fate]
  /\ staged' = [staged EXCEPT ![t] = {}]
  /\ lock' = [p \in Products |-> IF lock[p] = t THEN Free ELSE lock[p]]
  /\ bookedDraft' =
       [p \in Products |-> IF lock[p] = t THEN booked[p] ELSE bookedDraft[p]]
  /\ UNCHANGED <<catalogue, kind, lines, at, ledger, level, draft, booked>>

RollbackKeepingRows(t, fate) ==
  /\ pc' = [pc EXCEPT ![t] = fate]
  /\ ledger' = ledger \cup staged[t]
  /\ staged' = [staged EXCEPT ![t] = {}]
  /\ lock' = [p \in Products |-> IF lock[p] = t THEN Free ELSE lock[p]]
  /\ draft' = [p \in Products |-> IF lock[p] = t THEN level[p] ELSE draft[p]]
  /\ bookedDraft' =
       [p \in Products |-> IF lock[p] = t THEN booked[p] ELSE bookedDraft[p]]
  /\ UNCHANGED <<catalogue, kind, lines, at, level, booked>>

RollbackKeepingLocks(t, fate) ==
  /\ pc' = [pc EXCEPT ![t] = fate]
  /\ staged' = [staged EXCEPT ![t] = {}]
  /\ UNCHANGED <<catalogue, kind, lines, at, ledger, lock, stock>>

\* Whatever t wrote is undone and its row locks are released.
Rollback(t, fate) ==
  /\ pc' = [pc EXCEPT ![t] = fate]
  /\ staged' = [staged EXCEPT ![t] = {}]
  /\ lock' = [p \in Products |-> IF lock[p] = t THEN Free ELSE lock[p]]
  /\ draft' = [p \in Products |-> IF lock[p] = t THEN level[p] ELSE draft[p]]
  /\ bookedDraft' =
       [p \in Products |-> IF lock[p] = t THEN booked[p] ELSE bookedDraft[p]]
  /\ UNCHANGED <<catalogue, kind, lines, at, ledger, level, booked>>

\* The staged rows and levels become visible together, rounded.
Publish(t, fate) ==
  /\ pc[t] = "commit"
  /\ pc' = [pc EXCEPT ![t] = fate]
  /\ ledger' = ledger \cup staged[t]
  /\ staged' = [staged EXCEPT ![t] = {}]
  /\ lock' = [p \in Products |-> IF lock[p] = t THEN Free ELSE lock[p]]
  /\ level' = [p \in Products |-> IF lock[p] = t THEN Stored(draft[p]) ELSE level[p]]
  /\ draft' = [p \in Products |-> IF lock[p] = t THEN Stored(draft[p]) ELSE draft[p]]
  /\ booked' =
       [p \in Products |-> IF lock[p] = t THEN bookedDraft[p] ELSE booked[p]]
  /\ UNCHANGED <<catalogue, kind, lines, at, bookedDraft>>

\* session.commit(), and the client is answered.
Commit(t) == Publish(t, "done")

\* The process or its connection dies and the client hears nothing: the database
\* rolls the transaction back, or has just committed it.
Crash(t) == pc[t] \in Running /\ Rollback(t, "unanswered")
CrashAfterCommit(t) == Publish(t, "unanswered")

\* The deadlock detector cancels a member of a cycle: the error is not handled.
DeadlockVictim(t) ==
  /\ pc[t] \in {"lock", "post"}
  /\ InCycle(t)
  /\ Rollback(t, "failed")

-----------------------------------------------------------------------------
(* Transactions: _append_movement, one statement at a time *)

\* Mutant of Begin: the first line is line 0.
BeginAtZero(t, r) ==
  /\ pc[t] = "idle"
  /\ pc' = [pc EXCEPT ![t] = "lookup"]
  /\ kind' = [kind EXCEPT ![t] = r.kind]
  /\ lines' = [lines EXCEPT ![t] = r.lines]
  /\ at' = [at EXCEPT ![t] = 0]
  /\ UNCHANGED <<catalogue, rows, lock, stock>>

\* The request arrives.  record_adjustment refuses a zero quantity first.
Begin(t, r) ==
  /\ pc[t] = "idle"
  /\ pc' = [pc EXCEPT ![t] = IF r.lines[1].qty = 0 THEN "failed" ELSE "lookup"]
  /\ kind' = [kind EXCEPT ![t] = r.kind]
  /\ lines' = [lines EXCEPT ![t] = r.lines]
  /\ at' = [at EXCEPT ![t] = 1]
  /\ UNCHANGED <<catalogue, rows, lock, stock>>

\* The line is dealt with: the next one, or the commit.
NextLine(t) ==
  /\ at' = [at EXCEPT ![t] = @ + 1]
  /\ pc' = [pc EXCEPT ![t] = IF at[t] < Len(lines[t]) THEN "lookup" ELSE "commit"]

\* get_movement_by_idempotency: a key that is already in the ledger makes the
\* line a replay, and nothing is posted for it.
LookUp(t) ==
  /\ pc[t] = "lookup"
  /\ IF HasKey(Current(t).key, ledger \cup staged[t])
     THEN NextLine(t)
     ELSE pc' = [pc EXCEPT ![t] = "product"] /\ at' = at
  /\ UNCHANGED <<catalogue, kind, lines, rows, lock, stock>>

\* get_product: an unlocked read of the product's status.
CheckProduct(t, read) ==
  /\ pc[t] = "product"
  /\ IF read = "active"
     THEN /\ pc' = [pc EXCEPT ![t] = "unit"]
          /\ UNCHANGED <<catalogue, kind, lines, at, rows, lock, stock>>
     ELSE Rollback(t, "failed")

\* An earlier line of t moved the same product.
Moved(t) == \E m \in staged[t] : m.product = Current(t).product

\* The identity map is weak: a product read for an earlier line, which was active, is
\* read again or still in memory as it was.
ReadProduct(t) ==
  /\ pc[t] = "product"
  /\ \/ CheckProduct(t, status[Current(t).product])
     \/ Moved(t) /\ CheckProduct(t, "active")

\* get_product_unit: the unit must be configured, and stocked for a sale.
ReadUnit(t) ==
  /\ pc[t] = "unit"
  /\ LET p == Current(t).product
         u == Current(t).unit
     IN IF u \in units[p] /\ (kind[t] = "sale" => <<p, u>> \in StockUnits)
        THEN /\ pc' = [pc EXCEPT ![t] = "lock"]
             /\ UNCHANGED <<catalogue, kind, lines, at, rows, lock, stock>>
        ELSE Rollback(t, "failed")

\* Mutant of Lock: a SELECT without FOR UPDATE.
LockNothing(t) ==
  /\ pc[t] = "lock"
  /\ pc' = [pc EXCEPT ![t] = "post"]
  /\ UNCHANGED <<catalogue, kind, lines, at, rows, lock, stock>>

\* lock_stock_level: SELECT ... FOR UPDATE waits for the transaction that
\* holds the row.  A level an earlier line wrote is read back, rounded by its column,
\* unless the row is still in memory, as it was computed.
Lock(t) ==
  LET p == Current(t).product
  IN /\ pc[t] = "lock"
     /\ lock[p] \in {Free, t}
     /\ lock' = [lock EXCEPT ![p] = t]
     /\ pc' = [pc EXCEPT ![t] = "post"]
     /\ \E q \in {draft[p], Stored(draft[p])} : draft' = [draft EXCEPT ![p] = q]
     /\ UNCHANGED <<catalogue, kind, lines, at, rows, level, booked, bookedDraft>>

\* Mutant of Refuse: the error is swallowed and the line skipped.
RefuseLine(t) ==
  /\ pc[t] = "post"
  /\ NewQuantity(t) < 0
  /\ NextLine(t)
  /\ UNCHANGED <<catalogue, kind, lines, rows, lock, stock>>

\* "Insufficient stock for this movement"
Refuse(t) ==
  /\ pc[t] = "post"
  /\ NewQuantity(t) < 0
  /\ Rollback(t, "failed")

\* The key was committed by another transaction after LookUp: IntegrityError.
DuplicateKey(t) ==
  /\ pc[t] = "post"
  /\ NewQuantity(t) >= 0
  /\ HasKey(Current(t).key, ledger)
  /\ Rollback(t, "failed")

\* Mutant of Post: the stock is not checked.
PostUnchecked(t) ==
  /\ pc[t] = "post"
  /\ staged' = [staged EXCEPT ![t] = @ \cup {Movement(t)}]
  /\ draft' = [draft EXCEPT ![Current(t).product] = NewQuantity(t)]
  /\ bookedDraft' = [bookedDraft EXCEPT ![Current(t).product] = @ + Stored(Delta(t))]
  /\ NextLine(t)
  /\ UNCHANGED <<catalogue, kind, lines, ledger, lock, level, booked>>

\* flush: the movement is inserted and the level updated.
Post(t) ==
  /\ pc[t] = "post"
  /\ NewQuantity(t) >= 0
  /\ ~HasKey(Current(t).key, ledger)
  /\ \A u \in Txns : ~HoldsKey(u, t)
  /\ staged' = [staged EXCEPT ![t] = @ \cup {Movement(t)}]
  /\ draft' = [draft EXCEPT ![Current(t).product] = NewQuantity(t)]
  /\ bookedDraft' = [bookedDraft EXCEPT ![Current(t).product] = @ + Stored(Delta(t))]
  /\ NextLine(t)
  /\ UNCHANGED <<catalogue, kind, lines, ledger, lock, level, booked>>

-----------------------------------------------------------------------------
Catalogue ==
  \E p \in Products :
    \/ CreateProduct(p)
    \/ \E u \in Units : AddProductUnit(p, u)
    \/ \E s \in {"active", "inactive"} : UpdateStatus(p, s)

Step(t) ==
  \/ LookUp(t)
  \/ ReadProduct(t)
  \/ ReadUnit(t)
  \/ Lock(t)
  \/ Refuse(t)
  \/ DuplicateKey(t)
  \/ Post(t)
  \/ Commit(t)
  \/ DeadlockVictim(t)

Next ==
  \/ Catalogue
  \/ \E t \in Txns :
       \/ \E r \in Requests : Begin(t, r)
       \/ Step(t)
       \/ Crash(t)
       \/ CrashAfterCommit(t)

Spec == Init /\ [][Next]_vars

\* A request that was sent runs to its end.
Fairness == \A t \in Txns : WF_vars(Step(t))

FairSpec == Spec /\ Fairness

-----------------------------------------------------------------------------
(* Properties *)

Row == [txn : Txns, line : Nat, product : Products, delta : Int,
        key : Keys \cup {NoKey}]

\* Every variable has its type (models.py).
TypeOK ==
  /\ status \in [Products -> {"absent", "active", "inactive"}]
  /\ units \in [Products -> SUBSET Units]
  /\ pc \in [Txns -> Running \cup Ended \cup {"idle"}]
  /\ kind \in [Txns -> Kinds]
  /\ lines \in [Txns -> Seq(Line)]
  /\ at \in [Txns -> Nat \ {0}]
  /\ \A t \in Txns :
       pc[t] \in Running \ {"commit"} => at[t] \in DOMAIN lines[t]
  /\ ledger \subseteq Row
  /\ staged \in [Txns -> SUBSET Row]
  /\ lock \in [Products -> Txns \cup {Free}]
  /\ level \in [Products -> Int]
  /\ draft \in [Products -> Int]
  /\ booked \in [Products -> Int]
  /\ bookedDraft \in [Products -> Int]

\* stock_levels is derived from the ledger: a level is what the product's movements add
\* up to (by the history variable), whatever the interleaving of requests, and so is the
\* one the transaction holding the row is computing.  Where quantities are rounded it
\* may be more.
BooksBalance ==
  \A p \in Products : level[p] = booked[p] /\ draft[p] = bookedDraft[p]

\* No request moves one product twice (an order without common ingredients).
OncePerProduct ==
  \A r \in Requests : \A i, j \in DOMAIN r.lines :
    r.lines[i].product = r.lines[j].product => i = j

\* Rounding level and movement apart can only part them upwards: as long as no
\* request moves a product twice, the level is never below what the committed
\* movements add up to.
NeverUnderstated == OncePerProduct => \A p \in Products : level[p] >= booked[p]

\* The check "Insufficient stock for this movement" is made on a quantity no
\* other request can change before it is written.
NoOverdraft == \A p \in Products : level[p] >= 0 /\ draft[p] >= 0

\* A request that is retried or sent twice with its idempotency key moves stock
\* once, also while the first attempt is still running.
KeyBookedOnce ==
  \A m, n \in ledger : m.key = n.key /\ m.key # NoKey => m = n

\* Line i of t has its movement in S: its own, or the one its key replays.
Covered(t, i, S) ==
  \E m \in S :
    /\ m.product = lines[t][i].product
    /\ m.delta = Stored(Signed(kind[t], lines[t][i].qty)
                         * Factor[<<lines[t][i].product, lines[t][i].unit>>])
    /\ m.key = lines[t][i].key
    /\ m.key = NoKey => m.txn = t /\ m.line = i

\* A request that was answered has every line in the ledger, and one that
\* failed or still runs has none of its own there.
AllOrNothing ==
  KeysNameLines => \A t \in Txns :
    /\ pc[t] = "done" => \A i \in DOMAIN lines[t] : Covered(t, i, ledger)
    /\ pc[t] \in Running \cup {"failed"} => \A m \in ledger : m.txn # t

\* Receipts, usages and adjustments never deadlock, not even on one product or
\* one key: a circular wait takes two sales of several lines, as long as clients
\* do not take the keys of sales for other movements.
CircularWaitNeedsTwoSales ==
  KeysNameLines => \A t \in Txns :
    InCycle(t) =>
      \E u, v \in Txns :
        /\ u # v
        /\ \A w \in {u, v} : pc[w] \in Running /\ Len(lines[w]) > 1

\* All of this is one promise to the callers of the inventory: whatever the
\* transactions do, the committed rows and levels change as Ledger says.
Abstract == INSTANCE Ledger
RefinesLedger == Abstract!Spec

\* Every request that was sent is answered or dies, although requests wait for
\* each other's rows and keys.
EveryRequestEnds ==
  \A t \in Txns : pc[t] = "lookup" ~> pc[t] \in Ended

-----------------------------------------------------------------------------
(* The inductive invariant *)

\* Quantities are storable as they are entered.
Representable ==
  \A r \in Requests : \A i \in DOMAIN r.lines : r.lines[i].qty % 4 = 0

\* What a transaction does is what a request asked.
LinesAsked ==
  \A t \in Txns :
    pc[t] # "idle" => \E r \in Requests : kind[t] = r.kind /\ lines[t] = r.lines

\* The row lock keeps a level to one running transaction, from the read of the
\* level to the end of the transaction.
Isolation ==
  /\ \A p \in Products :
       IF lock[p] = Free THEN draft[p] = level[p] /\ bookedDraft[p] = booked[p]
                         ELSE pc[lock[p]] \in Running
  /\ \A t \in Txns : pc[t] = "post" => lock[Current(t).product] = t

\* Levels are storable numbers.
Storable == \A p \in Products : level[p] % 4 = 0

\* t has not reached a line that moves p.
NotYet(t, p) == \A i \in DOMAIN lines[t] : i < at[t] => lines[t][i].product # p

\* A level that is being computed, once stored, will not be below its ledger; until
\* the line that moves it, it is the committed one.
Drift ==
  OncePerProduct =>
    /\ \A p \in Products : Stored(draft[p]) >= bookedDraft[p]
    /\ \A t \in Txns, p \in Products :
         lock[p] = t /\ NotYet(t, p) => draft[p] = level[p]

LevelInv ==
  /\ TypeOK /\ LinesAsked /\ Isolation /\ Storable /\ NoOverdraft
  /\ NeverUnderstated /\ Drift

\* A staged key is in no other row, committed or staged, and between its LookUp
\* and its Post a transaction has not staged the key itself.
KeysApart ==
  /\ KeyBookedOnce
  /\ \A t, u \in Txns : \A m \in staged[t] :
       m.key # NoKey => \A n \in staged[u] \cup ledger : m.key = n.key => m = n
  /\ \A t \in Txns :
       pc[t] \in {"product", "unit", "lock", "post"} =>
         ~HasKey(Current(t).key, staged[t])

\* A row comes from a line of a request, and belongs to the transaction that
\* staged it or, once committed, to one that has ended well.
RowsAsked ==
  /\ \A t \in Txns : \A m \in staged[t] : m.txn = t
  /\ \A m \in ledger : pc[m.txn] \in {"done", "unanswered"}
  /\ \A m \in ledger \cup UNION {staged[t] : t \in Txns} :
       \E r \in Requests : \E i \in DOMAIN r.lines :
         /\ m.product = r.lines[i].product
         /\ m.delta = Stored(Signed(r.kind, r.lines[i].qty)
                              * Factor[<<r.lines[i].product, r.lines[i].unit>>])
         /\ m.key = r.lines[i].key

\* The lines a transaction has passed have their movements.
Progress ==
  \A t \in Txns :
    /\ pc[t] = "commit" => at[t] > Len(lines[t])
    /\ pc[t] \in Running =>
         \A i \in DOMAIN lines[t] : i < at[t] => Covered(t, i, ledger \cup staged[t])

RowInv == KeysApart /\ RowsAsked /\ (KeysNameLines => Progress) /\ AllOrNothing
=============================================================================
