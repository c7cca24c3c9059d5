---------------------------------- MODULE Books ----------------------------------
(***************************************************************************)
(* The money of a tenant as its books show it: sales that are completed    *)
(* (modules/pos) and expenses that are recorded (modules/expenses), and a  *)
(* reader who compares two figures of the reports and the dashboard, or    *)
(* walks through the list of expenses page by page.  Every statement sees  *)
(* what is committed when it runs, and many run between two of them.       *)
(* There is one currency.                                                  *)
(***************************************************************************)
EXTENDS Integers, FiniteSets, FiniteSetsExt, Sequences, SequencesExt

CONSTANTS
  Orders,     \* orders that are open to begin with
  Products,
  LineTotal,  \* line_total_minor of each order and product, 0 without such a line
  Tills, Clerks,
  Categories,
  Amounts,    \* amount_minor of expenses
  Limit,      \* limit of the pages
  LastDay,    \* bound: days
  LastRequest \* bound: sales and requests about expenses

ASSUME BooksAssumption ==
  /\ IsFiniteSet(Orders) /\ IsFiniteSet(Products) /\ IsFiniteSet(Categories)
  /\ LineTotal \in [Orders -> [Products -> Nat]] /\ Amounts \subseteq Nat
  /\ Limit \in Nat \ {0} /\ LastDay \in Nat \ {0} /\ LastRequest \in Nat

VARIABLES
  today,
  completed,  \* completed_at of the completed orders, as a day
  payments,   \* how many completed payments each order has
  till,       \* the sale each till is completing
  categories, \* the status of each category, "none" before it is created
  expenses,   \* the rows of expenses; their numbers are in the order of created_at
  begun,      \* sales and requests about expenses so far, and the number of the last
  clerk,      \* the request of each clerk and what it has read
  reader      \* what the reader has read so far, and what has happened meanwhile

saleVars == <<completed, payments, till>>
expenseVars == <<categories, expenses, clerk>>
vars == <<today, begun, saleVars, expenseVars, reader>>

Days == 1..LastDay

Begin == begun < LastRequest /\ begun' = begun + 1

-----------------------------------------------------------------------------
(* What the statements of reports/repository.py and dashboard/repository.py *)
(* return.  Dates are inclusive.                                            *)

\* func.sum, of no rows 0: the sum of the values f has on S
SumOver(f, S) == MapThenSumSet(LAMBDA x : f[x], S)

OrderTotal(o) == SumOver(LineTotal[o], Products)
Totals(orders) == SumOver([o \in orders |-> OrderTotal(o)], orders)
Spent(rows) == SumOver([e \in rows |-> e.amount], rows)

\* Mutant of SoldBetween: the last day ends where it begins.
SoldBeforeLast(from, to) == {o \in DOMAIN completed : from <= completed[o] /\ completed[o] < to}

\* _completed_order_filters
SoldBetween(from, to) == {o \in DOMAIN completed : from <= completed[o] /\ completed[o] <= to}

SummarizeSales(from, to) == Totals(SoldBetween(from, to))

\* date_trunc: a bucket is a period of some days.
Buckets(from, to, size) ==
  {<<b, {o \in SoldBetween(from, to) : (completed[o] - 1) \div size = b}>> : b \in 0..LastDay}

SumOfPeriods(from, to, size) ==
  SumOver([b \in Buckets(from, to, size) |-> Totals(b[2])], Buckets(from, to, size))

\* The lines of the orders by product, when the limit is no less than the products sold
SumOfProducts(from, to) ==
  LET sold == SoldBetween(from, to)
  IN SumOver([p \in Products |-> SumOver([o \in sold |-> LineTotal[o][p]], sold)], Products)

\* The total of the order for every payment of it
SumOfMethods(from, to) ==
  LET sold == SoldBetween(from, to)
  IN SumOver([o \in sold |-> payments[o] * OrderTotal(o)], sold)

SummarizeExpenses(from, to) == Spent({e \in expenses : from <= e.day /\ e.day <= to})

SumOfCategories(from, to) ==
  SumOver([c \in Categories |->
             Spent({e \in expenses : e.category = c /\ from <= e.day /\ e.day <= to})],
          Categories)

\* The expenses module and the dashboard have statements of their own.
ExpenseSummary(from, to) == Spent({e \in expenses : e.day \in from..to})
DashboardSales(day) == Totals({o \in DOMAIN completed : completed[o] = day})
DashboardExpenses(day) == Spent({e \in expenses : e.day = day})

\* list_expenses: the latest first
Later(e, f) == e.day > f.day \/ (e.day = f.day /\ e.number > f.number)
Listed ==
  [n \in 1 .. Cardinality(expenses) |->
    CHOOSE e \in expenses : Cardinality({f \in expenses : Later(f, e)}) = n - 1]

-----------------------------------------------------------------------------
(* Sales *)

NoSale == [pc |-> "idle"]

\* complete_sale reads the order; nothing keeps another till from reading it too.
ReadOrder(t) ==
  /\ till[t] = NoSale
  /\ Begin
  /\ \E o \in Orders \ DOMAIN completed : till' = [till EXCEPT ![t] = [pc |-> "read", order |-> o]]
  /\ UNCHANGED <<today, completed, payments, expenseVars, reader>>

\* completed_at, by the clock of the application
Stamp(t) ==
  /\ till[t].pc = "read"
  /\ till' = [till EXCEPT ![t] = [pc |-> "stamped", order |-> @.order, day |-> today]]
  /\ UNCHANGED <<today, begun, completed, payments, expenseVars, reader>>

\* The commit shows the order and its payment at once.  The second of two completions
\* replaces completed_at and adds a payment.
Complete(t) ==
  LET o == till[t].order
  IN /\ till[t].pc = "stamped"
     /\ completed' = [p \in DOMAIN completed \cup {o} |-> IF p = o THEN till[t].day ELSE completed[p]]
     /\ payments' = [payments EXCEPT ![o] = @ + 1]
     /\ till' = [till EXCEPT ![t] = NoSale]
     /\ reader' = [reader EXCEPT !.sold = TRUE]
     /\ UNCHANGED <<today, begun, expenseVars>>

\* For want of stock, or the process dies.
GiveUp(t) ==
  /\ till[t] # NoSale
  /\ till' = [till EXCEPT ![t] = NoSale]
  /\ UNCHANGED <<today, begun, completed, payments, expenseVars, reader>>

Midnight ==
  /\ today < LastDay
  /\ today' = today + 1
  /\ UNCHANGED <<begun, saleVars, expenseVars, reader>>

-----------------------------------------------------------------------------
(* Expenses *)

NoRequest == [op |-> "none"]

\* create_category; the name is its own
CreateCategory(c) ==
  /\ categories[c] = "none"
  /\ Begin
  /\ categories' = [categories EXCEPT ![c] = "active"]
  /\ UNCHANGED <<today, saleVars, expenses, clerk, reader>>

\* update_category with a status
SwitchCategory(c, status) ==
  /\ categories[c] \notin {"none", status}
  /\ Begin
  /\ categories' = [categories EXCEPT ![c] = status]
  /\ UNCHANGED <<today, saleVars, expenses, clerk, reader>>

Active == {c \in Categories : categories[c] = "active"}

\* create_expense finds the category active.  created_at is when its transaction began.
BeginExpense(w) ==
  /\ clerk[w] = NoRequest
  /\ Begin
  /\ \E c \in Active, a \in Amounts, d \in Days :
       clerk' = [clerk EXCEPT ![w] =
         [op |-> "create", asked |-> [number |-> begun', category |-> c, amount |-> a, day |-> d]]]
  /\ UNCHANGED <<today, saleVars, categories, expenses, reader>>

\* update_expense has read the row; a category that is not asked for is not looked at.
BeginChange(w) ==
  /\ clerk[w] = NoRequest
  /\ Begin
  /\ \E e \in expenses, a \in Amounts, d \in Days : \E c \in Active \cup {e.category} :
       LET asked == [number |-> e.number, category |-> c, amount |-> a, day |-> d]
       IN asked # e /\ clerk' = [clerk EXCEPT ![w] = [op |-> "change", read |-> e, asked |-> asked]]
  /\ UNCHANGED <<today, saleVars, categories, expenses, reader>>

Record(w) ==
  /\ clerk[w].op = "create"
  /\ expenses' = expenses \cup {clerk[w].asked}
  /\ clerk' = [clerk EXCEPT ![w] = NoRequest]
  /\ reader' = [reader EXCEPT !.spent = TRUE, !.added = TRUE, !.squeezed = @ \/ reader.pc = "counted"]
  /\ UNCHANGED <<today, begun, saleVars, categories>>

Column(asked, read, now) == IF asked = read THEN now ELSE asked

\* The columns that are to change are written over what is in the row by then.
Change(w) ==
  LET asked == clerk[w].asked
      read == clerk[w].read
      now == CHOOSE e \in expenses : e.number = asked.number
      row == [f \in DOMAIN now |-> Column(asked[f], read[f], now[f])]
  IN /\ clerk[w].op = "change"
     /\ expenses' = (expenses \ {now}) \cup {row}
     /\ clerk' = [clerk EXCEPT ![w] = NoRequest]
     /\ reader' = [reader EXCEPT !.spent = TRUE, !.moved = @ \/ row.day # now.day]
     /\ UNCHANGED <<today, begun, saleVars, categories>>

-----------------------------------------------------------------------------
(* The reader *)

NotReading ==
  [pc |-> "idle", kind |-> "none", from |-> 0, to |-> 0, figure |-> 0, second |-> 0,
   wanted |-> {}, total |-> 0, offset |-> 0, shown |-> <<>>,
   sold |-> FALSE, spent |-> FALSE, added |-> FALSE, moved |-> FALSE, squeezed |-> FALSE]

First(kind, from, to) ==
  CASE kind \in {"periods", "methods", "products"} -> SummarizeSales(from, to)
    [] kind \in {"expenses", "categories"} -> SummarizeExpenses(from, to)
    [] kind = "day sales" -> DashboardSales(from)
    [] kind = "day expenses" -> DashboardExpenses(from)

\* What sales_summary, or another request of the reader, says of the same days.
Second(kind, from, to, size) ==
  CASE kind = "periods" -> SumOfPeriods(from, to, size)
    [] kind = "methods" -> SumOfMethods(from, to)
    [] kind = "products" -> SumOfProducts(from, to)
    [] kind = "expenses" -> ExpenseSummary(from, to)
    [] kind = "categories" -> SumOfCategories(from, to)
    [] kind = "day sales" -> SummarizeSales(from, to)
    [] kind = "day expenses" -> SummarizeExpenses(from, to)

SalesFigures == {"periods", "methods", "products", "day sales"}
Figures == SalesFigures \cup {"expenses", "categories", "day expenses"}

\* _validate_date_range lets from be to.
ReadFirst ==
  /\ reader.pc = "idle"
  /\ \E kind \in Figures, from, to \in Days :
       /\ from <= to /\ (kind \in {"day sales", "day expenses"} => from = to)
       /\ reader' = [NotReading EXCEPT !.pc = "read", !.kind = kind, !.from = from, !.to = to,
                                       !.figure = First(kind, from, to)]
  /\ UNCHANGED <<today, begun, saleVars, expenseVars>>

ReadSecond ==
  /\ reader.pc = "read"
  /\ \E size \in Days :
       reader' = [reader EXCEPT !.pc = "done",
                                !.second = Second(reader.kind, reader.from, reader.to, size)]
  /\ UNCHANGED <<today, begun, saleVars, expenseVars>>

BeginWalk ==
  /\ reader.pc = "idle"
  /\ reader' = [NotReading EXCEPT !.pc = "walking", !.wanted = {e.number : e \in expenses}]
  /\ UNCHANGED <<today, begun, saleVars, expenseVars>>

\* list_expenses counts the rows, and then reads a page of them.
Count ==
  /\ reader.pc = "walking"
  /\ reader' = [reader EXCEPT !.pc = "counted", !.total = Cardinality(expenses), !.squeezed = FALSE]
  /\ UNCHANGED <<today, begun, saleVars, expenseVars>>

\* Mutant of HasMore: a full page is taken for the last one when one row is left.
HasMoreButOne(offset, length, total) == offset + length + 1 < total

HasMore(offset, length, total) == offset + length < total

\* The walk goes on at the next offset while there is more.
ReadPage ==
  LET last == Min({reader.offset + Limit, Len(Listed)})
      page == [n \in 1..last - reader.offset |-> Listed[reader.offset + n].number]
  IN /\ reader.pc = "counted"
     /\ reader' = [reader EXCEPT
          !.pc = IF HasMore(reader.offset, Len(page), reader.total) THEN "walking" ELSE "done",
          !.offset = @ + Limit,
          !.shown = @ \o page]
     /\ UNCHANGED <<today, begun, saleVars, expenseVars>>

-----------------------------------------------------------------------------
BooksInit ==
  /\ today = 1
  /\ completed = <<>>
  /\ payments = [o \in Orders |-> 0]
  /\ till = [t \in Tills |-> NoSale]
  /\ categories = [c \in Categories |-> "none"]
  /\ expenses = {}
  /\ begun = 0
  /\ clerk = [w \in Clerks |-> NoRequest]
  /\ reader = NotReading

Next ==
  \/ Midnight
  \/ \E t \in Tills : ReadOrder(t) \/ Stamp(t) \/ Complete(t) \/ GiveUp(t)
  \/ \E c \in Categories :
       CreateCategory(c) \/ \E status \in {"active", "inactive"} : SwitchCategory(c, status)
  \/ \E w \in Clerks : BeginExpense(w) \/ BeginChange(w) \/ Record(w) \/ Change(w)
  \/ ReadFirst \/ ReadSecond
  \/ BeginWalk \/ Count \/ ReadPage

BooksSpec == BooksInit /\ [][Next]_vars

-----------------------------------------------------------------------------
(* Properties *)

PaidOnce == \A o \in Orders : payments[o] <= 1

\* Two figures of the same days agree, whichever of the statements of three modules they
\* come from, unless something was committed between them; and then, of sales, the later
\* one is no smaller.  An order that was completed twice at once is the exception: it
\* may move to another day, and is counted for each of its payments.
FiguresAgree ==
  reader.pc = "done" /\ reader.kind \in Figures =>
    IF reader.kind \in SalesFigures
    THEN PaidOnce => /\ reader.figure <= reader.second
                     /\ ~reader.sold => reader.figure = reader.second
    ELSE ~reader.spent => reader.figure = reader.second

\* A walk through the pages shows every expense there was when it began, unless one was
\* dated anew during the walk or was added between the last count and its page; and
\* shows none twice, unless one was added.
PagesCoverList ==
  reader.pc = "done" /\ reader.kind = "none" /\ ~reader.moved =>
    /\ reader.squeezed \/ reader.wanted \subseteq ToSet(reader.shown)
    /\ reader.added \/ IsInjective(reader.shown)
=============================================================================
