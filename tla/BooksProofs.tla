------------------------------- MODULE BooksProofs -------------------------------
(***************************************************************************)
(* Theorems about Books, for any orders, tills, clerks, categories, days   *)
(* and lengths of a page: two figures of the same days agree, whichever of *)
(* the statements of the reports, the dashboard and the expenses they come *)
(* from; and a walk through the pages shows the list.                      *)
(***************************************************************************)
EXTENDS Books, SumProofs

Expense == [number : Nat, category : Categories, amount : Nat, day : Days]

\* An expense as it was recorded or changed: the columns have their types.
ExpenseFits(e) ==
  /\ DOMAIN e = {"number", "category", "amount", "day"}
  /\ e.category \in Categories /\ e.amount \in Nat /\ e.day \in Days

SalesFit ==
  /\ DOMAIN completed \subseteq Orders
  /\ \A o \in DOMAIN completed : completed[o] \in Days
  /\ payments \in [Orders -> Nat]
  /\ \A o \in Orders : o \in DOMAIN completed <=> payments[o] > 0
  /\ \A t \in Tills :
       /\ till[t].pc # "idle" => till[t].order \in Orders
       /\ till[t].pc = "stamped" => till[t].day \in Days

ExpensesFit ==
  /\ IsFiniteSet(expenses)
  /\ \A e \in expenses : ExpenseFits(e)
  /\ \A w \in Clerks :
       /\ clerk[w].op \in {"create", "change"} => ExpenseFits(clerk[w].asked)
       /\ clerk[w].op = "change" => \E e \in expenses : e.number = clerk[w].asked.number

Fields == {"pc", "kind", "from", "to", "figure", "second", "wanted", "total", "offset", "shown",
           "sold", "spent", "added", "moved", "squeezed"}

ClerksHere == clerk = [w \in Clerks |-> clerk[w]]

ReaderFits ==
  /\ DOMAIN reader = Fields
  /\ reader.pc \in {"idle", "read", "done", "walking", "counted"}
  /\ reader.pc \in {"idle", "walking", "counted"} => reader.kind = "none"
  /\ reader.pc = "read" => reader.kind \in Figures
  /\ reader.kind \in Figures => reader.from \in Days /\ reader.to \in Days /\ reader.figure \in Int
  /\ reader.kind \in {"day sales", "day expenses"} => reader.from = reader.to

\* A figure that was read is still that of the days, unless something was committed since;
\* and sales only grow.
StillHolds(kind, from, to) ==
  IF kind \in SalesFigures
  THEN PaidOnce => /\ reader.figure <= First(kind, from, to)
                   /\ ~reader.sold => reader.figure = First(kind, from, to)
  ELSE ~reader.spent => reader.figure = First(kind, from, to)

FigureHolds ==
  reader.pc = "read" =>
    \A kind \in Figures, from, to \in Days :
      reader.kind = kind /\ reader.from = from /\ reader.to = to => StillHolds(kind, from, to)

BooksInv ==
  /\ today \in Days
  /\ till = [t \in Tills |-> till[t]]
  /\ ClerksHere
  /\ SalesFit /\ ExpensesFit /\ ReaderFits /\ FigureHolds /\ FiguresAgree

-----------------------------------------------------------------------------
(* What the statements return *)

\* What an order comes to, and what an expense cost.
Prices == [o \in Orders |-> OrderTotal(o)]
Costs(rows) == [e \in rows |-> e.amount]

LEMMA SumIsTotal == \A f, S : SumOver(f, S) = Total(f, S)
  BY DEF SumOver, MapThenSumSet, MapThenFoldSet, Total, Adds, Pick

\* An order comes to the sum of its lines.
LEMMA OrderTotalIs ==
  ASSUME NEW o \in Orders
  PROVE  /\ Prices[o] = OrderTotal(o)
         /\ OrderTotal(o) = Total(LineTotal[o], Products)
         /\ OrderTotal(o) \in Nat
  <1>1. OrderTotal(o) = Total(LineTotal[o], Products)
    BY SumIsTotal DEF OrderTotal
  <1>2. IsFiniteSet(Products) /\ \A p \in Products : LineTotal[o][p] \in Nat
    BY BooksAssumption
  <1>3. Total(LineTotal[o], Products) \in Nat
    BY <1>2, TotalNat
  <1>4. QED
    BY <1>1, <1>3 DEF Prices

\* Orders come to the sum of what each comes to.
LEMMA TotalsAre ==
  ASSUME NEW S \in SUBSET Orders
  PROVE  /\ IsFiniteSet(S) /\ \A o \in S : Prices[o] \in Nat
         /\ Totals(S) = Total(Prices, S)
         /\ Totals(S) \in Nat
  <1>1. IsFiniteSet(S)
    BY BooksAssumption, FS_Subset
  <1>2. \A o \in S : Prices[o] \in Nat /\ [p \in S |-> OrderTotal(p)][o] = Prices[o]
    BY OrderTotalIs
  <1>3. Totals(S) = Total([o \in S |-> OrderTotal(o)], S)
    BY SumIsTotal DEF Totals
  <1>4. Total([o \in S |-> OrderTotal(o)], S) = Total(Prices, S)
    <2> DEFINE f == [o \in S |-> OrderTotal(o)]
    <2>1. \A o \in S : f[o] = Prices[o]
      BY <1>2
    <2> HIDE DEF f
    <2>2. Total(f, S) = Total(Prices, S)
      BY <1>1, <2>1, TotalSame
    <2>3. QED
      BY <2>2 DEF f
  <1>5. Total(Prices, S) \in Nat
    BY <1>1, <1>2, TotalNat
  <1>6. QED
    BY <1>1, <1>2, <1>3, <1>4, <1>5

\* Expenses come to the sum of their amounts.
LEMMA SpentIs ==
  ASSUME ExpensesFit, NEW R \in SUBSET expenses
  PROVE  /\ IsFiniteSet(R) /\ \A e \in R : Costs(expenses)[e] \in Nat
         /\ Spent(R) = Total(Costs(expenses), R)
         /\ Spent(R) \in Nat
  <1>1. IsFiniteSet(R)
    BY FS_Subset DEF ExpensesFit
  <1>2. \A e \in R : Costs(expenses)[e] \in Nat /\ Costs(R)[e] = Costs(expenses)[e]
    BY DEF ExpensesFit, ExpenseFits, Costs
  <1>3. Spent(R) = Total(Costs(R), R)
    BY SumIsTotal DEF Spent, Costs
  <1>4. Total(Costs(R), R) = Total(Costs(expenses), R)
    BY <1>1, <1>2, TotalSame
  <1>5. Total(Costs(expenses), R) \in Nat
    BY <1>1, <1>2, TotalNat
  <1>6. QED
    BY <1>1, <1>2, <1>3, <1>4, <1>5

\* Every sale is in one period: what the periods come to is what the sales come to.
LEMMA PeriodsAddUp ==
  ASSUME SalesFit, NEW from \in Days, NEW to \in Days, NEW size \in Days
  PROVE  SumOfPeriods(from, to, size) = SummarizeSales(from, to)
  <1> DEFINE sold == SoldBetween(from, to)
             period(b) == {o \in sold : (completed[o] - 1) \div size = b}
             J == Buckets(from, to, size)
             F == [b \in J |-> b[2]]
             g == [b \in J |-> Totals(b[2])]
  <1>1. sold \in SUBSET Orders
    BY DEF SoldBetween, SalesFit
  <1>2. J = {<<b, period(b)>> : b \in 0 .. LastDay}
    BY DEF Buckets
  <1>3. IsFiniteSet(J)
    <2>1. IsFiniteSet(0 .. LastDay)
      BY BooksAssumption, FS_Interval
    <2> DEFINE h == [b \in 0 .. LastDay |-> <<b, period(b)>>]
    <2>2. h \in Surjection(0 .. LastDay, J)
      BY <1>2 DEF Surjection
    <2>3. QED
      BY <2>1, <2>2, FS_Surjection
  <1>4. \A o \in sold : (completed[o] - 1) \div size \in 0 .. LastDay
    <2>1. \A n, s \in Nat : s > 0 => n \div s \in 0 .. n
      OBVIOUS
    <2>2. TAKE o \in sold
    <2>3. completed[o] \in Days
      BY DEF SoldBetween, SalesFit
    <2>4. QED
      BY <2>1, <2>3, BooksAssumption DEF Days
  <1> HIDE DEF J
  <1>5. /\ \A x \in J : \E b \in 0 .. LastDay : x = <<b, period(b)>> /\ F[x] = period(b)
        /\ \A b \in 0 .. LastDay : <<b, period(b)>> \in J /\ F[<<b, period(b)>>] = period(b)
    BY <1>2
  <1>6. sold = UNION {F[b] : b \in J}
    <2> HIDE DEF F
    <2>1. ASSUME NEW o \in sold
          PROVE  o \in UNION {F[b] : b \in J}
      <3> DEFINE b == (completed[o] - 1) \div size
      <3>1. b \in 0 .. LastDay /\ o \in period(b)
        BY <1>4
      <3> HIDE DEF b
      <3>2. QED
        BY <1>5, <3>1
    <2>2. ASSUME NEW x \in J
          PROVE  F[x] \subseteq sold
      BY <1>5
    <2>3. QED
      BY <2>1, <2>2
  <1>7. \A a, b \in J : a # b => F[a] \cap F[b] = {}
    <2> HIDE DEF F
    <2>1. SUFFICES ASSUME NEW x \in J, NEW y \in J, NEW o \in F[x], o \in F[y]
                   PROVE  x = y
      OBVIOUS
    <2>2. PICK a \in 0 .. LastDay : x = <<a, period(a)>> /\ F[x] = period(a)
      BY <1>5
    <2>3. PICK b \in 0 .. LastDay : y = <<b, period(b)>> /\ F[y] = period(b)
      BY <1>5
    <2>4. a = b
      BY <2>1, <2>2, <2>3
    <2>5. QED
      BY <2>2, <2>3, <2>4
  <1>8. \A b \in J : g[b] = Total(Prices, F[b])
    <2>1. TAKE b \in J
    <2>2. b[2] \in SUBSET Orders
      BY <1>1, <1>2
    <2>3. QED
      BY <2>2, TotalsAre
  <1>9. Numbers(Prices, sold) /\ IsFiniteSet(sold)
    BY <1>1, TotalsAre DEF Numbers
  <1> HIDE DEF sold, F, g
  <1>10. Total(Prices, sold) = Total(g, J)
    BY <1>3, <1>6, <1>7, <1>8, <1>9, TotalParts
  <1>11. SumOfPeriods(from, to, size) = Total(g, J)
    BY SumIsTotal DEF SumOfPeriods, g, J
  <1>12. SummarizeSales(from, to) = Total(Prices, sold)
    BY <1>1, TotalsAre DEF SummarizeSales, sold
  <1>13. QED
    BY <1>10, <1>11, <1>12

\* The lines of the sales come to the same by product and by order.
LEMMA ProductsAddUp ==
  ASSUME SalesFit, NEW from \in Days, NEW to \in Days
  PROVE  SumOfProducts(from, to) = SummarizeSales(from, to)
  <1> DEFINE sold == SoldBetween(from, to)
             v == [p \in Products |-> [o \in sold |-> LineTotal[o][p]]]
             c == [p \in Products |-> SumOver(v[p], sold)]
  <1>1. sold \in SUBSET Orders
    BY DEF SoldBetween, SalesFit
  <1>2. IsFiniteSet(sold) /\ IsFiniteSet(Products)
    BY <1>1, TotalsAre, BooksAssumption
  <1>3. \A o \in sold : Numbers(LineTotal[o], Products)
    BY <1>1, BooksAssumption DEF Numbers
  <1>4. \A o \in sold : Prices[o] = Total(LineTotal[o], Products)
    BY <1>1, OrderTotalIs
  <1>5. \A p \in Products : c[p] = Total(v[p], sold) /\ \A o \in sold : v[p][o] = LineTotal[o][p]
    BY SumIsTotal
  <1>6. SumOfProducts(from, to) = Total(c, Products)
    <2>1. c = [p \in Products |-> SumOver([o \in sold |-> LineTotal[o][p]], sold)]
      OBVIOUS
    <2>2. SumOfProducts(from, to) =
            SumOver([p \in Products |-> SumOver([o \in sold |-> LineTotal[o][p]], sold)], Products)
      BY DEF SumOfProducts
    <2>3. SumOfProducts(from, to) = SumOver(c, Products)
      BY <2>1, <2>2
    <2> HIDE DEF c
    <2>4. QED
      BY <2>3, SumIsTotal
  <1>7. SummarizeSales(from, to) = Total(Prices, sold)
    BY <1>1, TotalsAre DEF SummarizeSales
  <1> HIDE DEF sold, v, c
  <1>8. Total(Prices, sold) = Total(c, Products)
    <2>1. ByRows(LineTotal, Prices, sold, Products)
      BY <1>3, <1>4 DEF ByRows
    <2>2. ByColumns(LineTotal, v, c, sold, Products)
      BY <1>5 DEF ByColumns
    <2>3. QED
      BY <1>2, <2>1, <2>2, TotalSwap
  <1>9. QED
    BY <1>6, <1>7, <1>8

\* Orders that are paid once come to the same by order and by payment.
LEMMA MethodsAddUp ==
  ASSUME SalesFit, PaidOnce, NEW from \in Days, NEW to \in Days
  PROVE  SumOfMethods(from, to) = SummarizeSales(from, to)
  <1> DEFINE sold == SoldBetween(from, to)
             f == [o \in sold |-> payments[o] * OrderTotal(o)]
  <1>1. sold \in SUBSET Orders /\ sold \subseteq DOMAIN completed
    BY DEF SoldBetween, SalesFit
  <1>2. \A o \in sold : f[o] = Prices[o]
    <2>1. TAKE o \in sold
    <2>2. payments[o] = 1
      BY <1>1 DEF SalesFit, PaidOnce
    <2>3. OrderTotal(o) \in Nat /\ Prices[o] = OrderTotal(o)
      BY <1>1, OrderTotalIs
    <2>4. QED
      BY <2>2, <2>3
  <1>3. SumOfMethods(from, to) = Total(f, sold)
    BY SumIsTotal DEF SumOfMethods
  <1>4. SummarizeSales(from, to) = Total(Prices, sold) /\ IsFiniteSet(sold)
    BY <1>1, TotalsAre DEF SummarizeSales
  <1> HIDE DEF sold, f
  <1>5. Total(f, sold) = Total(Prices, sold)
    BY <1>2, <1>4, TotalSame
  <1>6. QED
    BY <1>3, <1>4, <1>5

\* Every expense is in one category: what the categories come to is what is spent.
LEMMA CategoriesAddUp ==
  ASSUME ExpensesFit, NEW from \in Days, NEW to \in Days
  PROVE  SumOfCategories(from, to) = SummarizeExpenses(from, to)
  <1> DEFINE rows == {e \in expenses : from <= e.day /\ e.day <= to}
             F == [c \in Categories |->
                     {e \in expenses : e.category = c /\ from <= e.day /\ e.day <= to}]
             g == [c \in Categories |-> Spent(F[c])]
             w == Costs(expenses)
  <1>1. rows \in SUBSET expenses /\ \A c \in Categories : F[c] \in SUBSET expenses
    OBVIOUS
  <1>2. rows = UNION {F[c] : c \in Categories}
    BY DEF ExpensesFit, ExpenseFits
  <1>3. \A c, d \in Categories : c # d => F[c] \cap F[d] = {}
    OBVIOUS
  <1>4. SumOfCategories(from, to) = Total(g, Categories)
    <2>1. g = [c \in Categories |->
                 Spent({e \in expenses : e.category = c /\ from <= e.day /\ e.day <= to})]
      OBVIOUS
    <2> HIDE DEF g
    <2>2. QED
      BY <2>1, SumIsTotal DEF SumOfCategories
  <1> HIDE DEF rows, F
  <1>5. \A c \in Categories : g[c] = Total(w, F[c])
    BY <1>1, SpentIs
  <1>6. Numbers(w, rows) /\ IsFiniteSet(rows)
    BY <1>1, SpentIs DEF Numbers
  <1> HIDE DEF g, w
  <1>7. Total(w, rows) = Total(g, Categories)
    BY <1>2, <1>3, <1>5, <1>6, TotalParts, BooksAssumption
  <1>8. SummarizeExpenses(from, to) = Total(w, rows)
    BY <1>1, SpentIs DEF SummarizeExpenses, rows, w
  <1>9. QED
    BY <1>4, <1>7, <1>8

LEMMA Squeezed == \A m, n \in Int : (m <= n /\ n <= m) <=> n = m
  OBVIOUS

LEMMA DaysAreIntegers == Days \subseteq Int
  BY BooksAssumption DEF Days

LEMMA ExpenseDays ==
  ASSUME ExpensesFit
  PROVE  \A e \in expenses : e.day \in Int
  BY DaysAreIntegers DEF ExpensesFit, ExpenseFits

\* The sales of a day, and the expenses of one day or of several, are the same rows
\* however the statement asks for them.
LEMMA SameRows ==
  ASSUME SalesFit, ExpensesFit, NEW from \in Days, NEW to \in Days
  PROVE  /\ SummarizeSales(from, from) = DashboardSales(from)
         /\ SummarizeExpenses(from, to) = ExpenseSummary(from, to)
         /\ SummarizeExpenses(from, from) = DashboardExpenses(from)
  <1>0. from \in Int /\ to \in Int
    BY DaysAreIntegers
  <1>1. \A o \in DOMAIN completed : completed[o] \in Int
    BY DaysAreIntegers DEF SalesFit
  <1>2. {o \in DOMAIN completed : from <= completed[o] /\ completed[o] <= from}
          = {o \in DOMAIN completed : completed[o] = from}
    BY <1>0, <1>1, Squeezed
  <1>3. {e \in expenses : from <= e.day /\ e.day <= to} = {e \in expenses : e.day \in from .. to}
    BY <1>0, ExpenseDays
  <1>4. {e \in expenses : from <= e.day /\ e.day <= from} = {e \in expenses : e.day = from}
    BY <1>0, ExpenseDays, Squeezed
  <1>5. QED
    BY <1>2, <1>3, <1>4 DEF SummarizeSales, SoldBetween, DashboardSales, SummarizeExpenses,
                            ExpenseSummary, DashboardExpenses

\* Days and orders for which two statements have to agree
Comparable(kind, from, to) ==
  /\ kind \in {"day sales", "day expenses"} => from = to
  /\ kind \in SalesFigures => PaidOnce

\* Whatever is committed, two statements about the same days that run at one moment return
\* the same, if the orders are paid once.
LEMMA FiguresOfOneMoment ==
  ASSUME SalesFit, ExpensesFit,
         NEW kind \in Figures, NEW from \in Days, NEW to \in Days, NEW size \in Days,
         Comparable(kind, from, to)
  PROVE  Second(kind, from, to, size) = First(kind, from, to)
  <1> USE DEF Comparable
  <1>1. CASE kind = "periods"
    BY <1>1, PeriodsAddUp DEF First, Second
  <1>2. CASE kind = "methods"
    BY <1>2, MethodsAddUp DEF First, Second, SalesFigures
  <1>3. CASE kind = "products"
    BY <1>3, ProductsAddUp DEF First, Second
  <1>4. CASE kind = "day sales"
    BY <1>4, SameRows DEF First, Second
  <1>5. CASE kind = "expenses"
    BY <1>5, SameRows DEF First, Second
  <1>6. CASE kind = "categories"
    BY <1>6, CategoriesAddUp DEF First, Second
  <1>7. CASE kind = "day expenses"
    BY <1>7, SameRows DEF First, Second
  <1>8. QED
    BY <1>1, <1>2, <1>3, <1>4, <1>5, <1>6, <1>7 DEF Figures, SalesFigures

\* A figure is a number.
LEMMA FirstIsNumber ==
  ASSUME SalesFit, ExpensesFit, NEW kind \in Figures, NEW from \in Days, NEW to \in Days
  PROVE  First(kind, from, to) \in Int
  <1>1. SummarizeSales(from, to) \in Int /\ DashboardSales(from) \in Int
    <2>1. /\ SoldBetween(from, to) \in SUBSET Orders
          /\ {o \in DOMAIN completed : completed[o] = from} \in SUBSET Orders
      BY DEF SoldBetween, SalesFit
    <2>2. QED
      BY <2>1, TotalsAre DEF SummarizeSales, DashboardSales
  <1>2. SummarizeExpenses(from, to) \in Int /\ DashboardExpenses(from) \in Int
    <2>1. /\ {e \in expenses : from <= e.day /\ e.day <= to} \in SUBSET expenses
          /\ {e \in expenses : e.day = from} \in SUBSET expenses
      OBVIOUS
    <2>2. QED
      BY <2>1, SpentIs DEF SummarizeExpenses, DashboardExpenses
  <1>3. QED
    BY <1>1, <1>2 DEF First, Figures, SalesFigures

\* More sales come to no less.
LEMMA MoreSales ==
  ASSUME NEW B \in SUBSET Orders, NEW A \in SUBSET B
  PROVE  Totals(A) <= Totals(B)
  <1>1. A \in SUBSET Orders
    OBVIOUS
  <1>2. IsFiniteSet(B) /\ \A o \in B : Prices[o] \in Nat
    BY TotalsAre
  <1>3. Totals(A) = Total(Prices, A) /\ Totals(B) = Total(Prices, B)
    BY <1>1, TotalsAre
  <1>4. Total(Prices, A) <= Total(Prices, B)
    BY <1>2, TotalPart
  <1>5. QED
    BY <1>3, <1>4

-----------------------------------------------------------------------------
(* Steps *)

\* What is committed is all that the figures depend on.
LEMMA FirstKept ==
  ASSUME completed' = completed, expenses' = expenses, NEW kind, NEW from, NEW to
  PROVE  First(kind, from, to)' = First(kind, from, to)
  BY DEF First, SummarizeSales, SoldBetween, SummarizeExpenses, DashboardSales, DashboardExpenses

\* A sale that is paid once was not among the completed ones, and the figures of the sales
\* grow by it.
LEMMA SalesGrow ==
  ASSUME SalesFit, NEW t \in Tills, Complete(t), PaidOnce',
         NEW kind \in SalesFigures, NEW from \in Days, NEW to \in Days
  PROVE  /\ PaidOnce
         /\ First(kind, from, to) <= First(kind, from, to)'
         /\ First(kind, from, to)' \in Int
  <1> DEFINE o == till[t].order
             before(f, l) == {p \in DOMAIN completed : f <= completed[p] /\ completed[p] <= l}
             after(f, l) == {p \in DOMAIN completed' : f <= completed'[p] /\ completed'[p] <= l}
             day == {p \in DOMAIN completed : completed[p] = from}
             dayAfter == {p \in DOMAIN completed' : completed'[p] = from}
  <1>1. o \in Orders /\ payments' = [payments EXCEPT ![o] = @ + 1]
    BY DEF Complete, SalesFit
  <1>2. payments \in [Orders -> Nat]
    BY DEF SalesFit
  <1>3. \A p \in Orders : payments[p] <= payments'[p]
    BY <1>1, <1>2
  <1>4. PaidOnce
    <2>1. \A p \in Orders : payments'[p] <= 1 /\ payments'[p] \in Nat
      BY <1>1, <1>2 DEF PaidOnce
    <2>2. QED
      BY <1>2, <1>3, <2>1 DEF PaidOnce
  <1>5. payments[o] = 0
    <2>1. payments'[o] = payments[o] + 1 /\ payments'[o] <= 1
      BY <1>1, <1>2 DEF PaidOnce
    <2>2. QED
      BY <1>1, <1>2, <2>1
  <1>6. o \notin DOMAIN completed
    BY <1>1, <1>5 DEF SalesFit
  <1>7. completed' = [p \in DOMAIN completed \cup {o} |-> IF p = o THEN till[t].day ELSE completed[p]]
    BY DEF Complete
  <1>8. /\ DOMAIN completed' \subseteq Orders
        /\ \A p \in DOMAIN completed : p \in DOMAIN completed' /\ completed'[p] = completed[p]
    BY <1>1, <1>6, <1>7 DEF SalesFit
  <1>9. /\ after(from, to) \in SUBSET Orders /\ before(from, to) \in SUBSET after(from, to)
        /\ dayAfter \in SUBSET Orders /\ day \in SUBSET dayAfter
    BY <1>8
  <1>10. /\ Totals(before(from, to)) <= Totals(after(from, to)) /\ Totals(day) <= Totals(dayAfter)
         /\ Totals(after(from, to)) \in Int /\ Totals(dayAfter) \in Int
    <2> HIDE DEF before, after, day, dayAfter
    <2>1. Totals(before(from, to)) <= Totals(after(from, to))
      BY <1>9, MoreSales
    <2>2. Totals(day) <= Totals(dayAfter)
      BY <1>9, MoreSales
    <2>3. Totals(after(from, to)) \in Int /\ Totals(dayAfter) \in Int
      BY <1>9, TotalsAre
    <2>4. QED
      BY <2>1, <2>2, <2>3
  <1>11. /\ SummarizeSales(from, to) = Totals(before(from, to))
         /\ SummarizeSales(from, to)' = Totals(after(from, to))
         /\ DashboardSales(from) = Totals(day)
         /\ DashboardSales(from)' = Totals(dayAfter)
    BY DEF SummarizeSales, SoldBetween, DashboardSales
  <1>12. /\ kind = "day sales" => /\ First(kind, from, to) = DashboardSales(from)
                                  /\ First(kind, from, to)' = DashboardSales(from)'
         /\ kind # "day sales" => /\ First(kind, from, to) = SummarizeSales(from, to)
                                  /\ First(kind, from, to)' = SummarizeSales(from, to)'
    BY DEF First, SalesFigures
  <1>13. QED
    BY <1>4, <1>10, <1>11, <1>12

LEMMA InvInit ==
  ASSUME BooksInit
  PROVE  BooksInv
  <1>1. today \in Days
    BY BooksAssumption DEF BooksInit, Days
  <1>2. SalesFit
    <2>1. DOMAIN completed = {}
      BY DEF BooksInit
    <2>2. QED
      BY <2>1 DEF BooksInit, SalesFit, NoSale
  <1>3. ExpensesFit
    BY FS_EmptySet DEF BooksInit, ExpensesFit, NoRequest
  <1>4. /\ DOMAIN reader = Fields /\ reader.pc = "idle" /\ reader.kind = "none"
    BY DEF BooksInit, NotReading, Fields
  <1>5. "none" \notin Figures
    BY DEF Figures, SalesFigures
  <1>6. ReaderFits /\ FigureHolds /\ FiguresAgree
    BY <1>4, <1>5 DEF ReaderFits, FigureHolds, FiguresAgree
  <1>7. till = [t \in Tills |-> till[t]] /\ clerk = [w \in Clerks |-> clerk[w]]
    BY DEF BooksInit
  <1>8. QED
    BY <1>1, <1>2, <1>3, <1>6, <1>7 DEF BooksInv, ClerksHere

\* The steps, by what they commit or the reader reads.
Quiet == UNCHANGED <<completed, payments, expenses, reader>>
Commits == (\E t \in Tills : Complete(t)) \/ (\E w \in Clerks : Record(w) \/ Change(w))
Reads == ReadFirst \/ ReadSecond \/ BeginWalk \/ Count \/ ReadPage

LEMMA Steps ==
  ASSUME [Next]_vars
  PROVE  Quiet \/ Commits \/ (Reads /\ UNCHANGED <<completed, payments, expenses>>)
  <1>1. CASE UNCHANGED vars
    BY <1>1 DEF vars, saleVars, expenseVars, Quiet
  <1>2. CASE Midnight
    BY <1>2 DEF Midnight, saleVars, expenseVars, Quiet
  <1>3. CASE \E t \in Tills : ReadOrder(t) \/ Stamp(t) \/ GiveUp(t)
    BY <1>3 DEF ReadOrder, Stamp, GiveUp, saleVars, expenseVars, Quiet
  <1>4. CASE \E c \in Categories :
               CreateCategory(c) \/ \E status \in {"active", "inactive"} : SwitchCategory(c, status)
    BY <1>4 DEF CreateCategory, SwitchCategory, saleVars, expenseVars, Quiet
  <1>5. CASE \E w \in Clerks : BeginExpense(w) \/ BeginChange(w)
    BY <1>5 DEF BeginExpense, BeginChange, saleVars, expenseVars, Quiet
  <1>6. CASE Reads
    BY <1>6 DEF Reads, ReadFirst, ReadSecond, BeginWalk, Count, ReadPage, saleVars, expenseVars
  <1>7. QED
    BY <1>1, <1>2, <1>3, <1>4, <1>5, <1>6 DEF Next, Commits, Reads

LEMMA SalesStep ==
  ASSUME SalesFit, today \in Days, till = [t \in Tills |-> till[t]], [Next]_vars
  PROVE  SalesFit' /\ (till = [t \in Tills |-> till[t]])'
  <1>1. CASE UNCHANGED saleVars
    BY <1>1 DEF saleVars, SalesFit
  <1>2. ASSUME NEW t \in Tills, ReadOrder(t)
        PROVE  SalesFit' /\ (till = [u \in Tills |-> till[u]])'
    BY <1>2 DEF ReadOrder, SalesFit
  <1>3. ASSUME NEW t \in Tills, Stamp(t)
        PROVE  SalesFit' /\ (till = [u \in Tills |-> till[u]])'
    BY <1>3 DEF Stamp, SalesFit
  <1>4. ASSUME NEW t \in Tills, GiveUp(t)
        PROVE  SalesFit' /\ (till = [u \in Tills |-> till[u]])'
    BY <1>4 DEF GiveUp, SalesFit, NoSale
  <1>5. ASSUME NEW t \in Tills, Complete(t)
        PROVE  SalesFit' /\ (till = [u \in Tills |-> till[u]])'
    <2> DEFINE o == till[t].order
    <2>1. till[t].pc = "stamped" /\ o \in Orders /\ till[t].day \in Days
      BY <1>5 DEF Complete, SalesFit
    <2>2. completed' = [p \in DOMAIN completed \cup {o} |->
                          IF p = o THEN till[t].day ELSE completed[p]]
      BY <1>5 DEF Complete
    <2>3. DOMAIN completed' = DOMAIN completed \cup {o}
      BY <2>2
    <2>4. \A p \in DOMAIN completed' : completed'[p] \in Days
      BY <2>1, <2>2 DEF SalesFit
    <2>5. payments' = [payments EXCEPT ![o] = @ + 1] /\ payments \in [Orders -> Nat]
      BY <1>5 DEF Complete, SalesFit
    <2>6. payments' \in [Orders -> Nat]
      BY <2>1, <2>5
    <2>7. \A p \in Orders : p \in DOMAIN completed' <=> payments'[p] > 0
      <3>1. ASSUME NEW p \in Orders, p # o
            PROVE  p \in DOMAIN completed' <=> payments'[p] > 0
        BY <2>3, <2>5, <3>1 DEF SalesFit
      <3>2. o \in DOMAIN completed' /\ payments'[o] > 0
        BY <2>1, <2>3, <2>5
      <3>3. QED
        BY <3>1, <3>2
    <2>8. till' = [till EXCEPT ![t] = NoSale]
      BY <1>5 DEF Complete
    <2>9. \A u \in Tills : /\ till'[u].pc # "idle" => till'[u].order \in Orders
                           /\ till'[u].pc = "stamped" => till'[u].day \in Days
      BY <2>8 DEF SalesFit, NoSale
    <2>10. DOMAIN completed' \subseteq Orders
      BY <2>1, <2>3 DEF SalesFit
    <2>11. QED
      BY <2>4, <2>6, <2>7, <2>8, <2>9, <2>10 DEF SalesFit
  <1>6. CASE UNCHANGED vars \/ Midnight \/ Reads
    BY <1>1, <1>6 DEF vars, Midnight, Reads, ReadFirst, ReadSecond, BeginWalk, Count, ReadPage
  <1>7. CASE \E c \in Categories :
               CreateCategory(c) \/ \E status \in {"active", "inactive"} : SwitchCategory(c, status)
    BY <1>1, <1>7 DEF CreateCategory, SwitchCategory
  <1>8. CASE \E w \in Clerks : BeginExpense(w) \/ BeginChange(w) \/ Record(w) \/ Change(w)
    BY <1>1, <1>8 DEF BeginExpense, BeginChange, Record, Change
  <1>9. QED
    BY <1>2, <1>3, <1>4, <1>5, <1>6, <1>7, <1>8 DEF Next, Reads

\* A request that is asked of the clerk: the others stay as they are.
LEMMA Asked ==
  ASSUME ExpensesFit, ClerksHere, NEW w \in Clerks, NEW r, UNCHANGED expenses,
         clerk' = [clerk EXCEPT ![w] = r],
         r.op \in {"create", "change"} => ExpenseFits(r.asked),
         r.op = "change" => \E e \in expenses : e.number = r.asked.number
  PROVE  ExpensesFit' /\ ClerksHere'
  <1>1. DOMAIN clerk = Clerks /\ clerk'[w] = r /\ \A u \in Clerks : u # w => clerk'[u] = clerk[u]
    BY DEF ClerksHere
  <1>2. ClerksHere'
    BY DEF ClerksHere
  <1>3. \A u \in Clerks :
          /\ clerk'[u].op \in {"create", "change"} => ExpenseFits(clerk'[u].asked)
          /\ clerk'[u].op = "change" => \E e \in expenses' : e.number = clerk'[u].asked.number
    BY <1>1 DEF ExpensesFit
  <1>4. IsFiniteSet(expenses') /\ \A e \in expenses' : ExpenseFits(e)
    BY DEF ExpensesFit
  <1>5. QED
    BY <1>2, <1>3, <1>4 DEF ExpensesFit, ExpenseFits

\* A request that is answered: the rows fit, and no number is gone.
LEMMA Answered ==
  ASSUME ExpensesFit, ClerksHere, NEW w \in Clerks,
         clerk' = [clerk EXCEPT ![w] = NoRequest],
         IsFiniteSet(expenses'), \A e \in expenses' : ExpenseFits(e),
         \A e \in expenses : \E f \in expenses' : f.number = e.number
  PROVE  ExpensesFit' /\ ClerksHere'
  <1>1. DOMAIN clerk = Clerks /\ clerk'[w].op = "none" /\ \A u \in Clerks : u # w => clerk'[u] = clerk[u]
    BY DEF ClerksHere, NoRequest
  <1>2. ClerksHere'
    BY DEF ClerksHere
  <1>3. \A u \in Clerks :
          /\ clerk'[u].op \in {"create", "change"} => ExpenseFits(clerk'[u].asked)
          /\ clerk'[u].op = "change" => \E e \in expenses' : e.number = clerk'[u].asked.number
    <2>1. TAKE u \in Clerks
    <2>2. CASE u = w
      BY <1>1, <2>2
    <2>3. CASE u # w
      <3>1. clerk'[u] = clerk[u]
        BY <1>1, <2>3
      <3>2. clerk[u].op = "change" => \E e \in expenses : e.number = clerk[u].asked.number
        BY DEF ExpensesFit
      <3>3. clerk[u].op \in {"create", "change"} => ExpenseFits(clerk[u].asked)
        BY DEF ExpensesFit
      <3>4. QED
        BY <3>1, <3>2, <3>3
    <2>4. QED
      BY <2>2, <2>3
  <1>4. QED
    BY <1>2, <1>3 DEF ExpensesFit, ExpenseFits

LEMMA ExpensesStep ==
  ASSUME ExpensesFit, ClerksHere, [Next]_vars
  PROVE  ExpensesFit' /\ ClerksHere'
  <1>0. NoRequest.op = "none"
    BY DEF NoRequest
  <1>1. CASE UNCHANGED <<expenses, clerk>>
    BY <1>1 DEF ExpensesFit, ExpenseFits, ClerksHere
  <1>2. ASSUME NEW w \in Clerks, BeginExpense(w)
        PROVE  ExpensesFit' /\ ClerksHere'
    <2>1. PICK c \in Active, a \in Amounts, d \in Days :
            clerk' = [clerk EXCEPT ![w] =
              [op |-> "create",
               asked |-> [number |-> begun', category |-> c, amount |-> a, day |-> d]]]
      BY <1>2 DEF BeginExpense
    <2> DEFINE e == [number |-> begun', category |-> c, amount |-> a, day |-> d]
               r == [op |-> "create", asked |-> e]
    <2>2. ExpenseFits(e)
      BY <2>1, BooksAssumption DEF ExpenseFits, Active
    <2>3. r.op = "create" /\ r.asked = e
      OBVIOUS
    <2>4. UNCHANGED expenses /\ clerk' = [clerk EXCEPT ![w] = r]
      BY <1>2, <2>1 DEF BeginExpense
    <2> HIDE DEF e, r
    <2>5. QED
      BY <2>2, <2>3, <2>4, Asked
  <1>3. ASSUME NEW w \in Clerks, BeginChange(w)
        PROVE  ExpensesFit' /\ ClerksHere'
    <2>0. PICK x \in expenses, a \in Amounts, d \in Days : \E c \in Active \cup {x.category} :
            clerk' = [clerk EXCEPT ![w] =
              [op |-> "change", read |-> x,
               asked |-> [number |-> x.number, category |-> c, amount |-> a, day |-> d]]]
      BY <1>3 DEF BeginChange
    <2>1. PICK c \in Categories :
            clerk' = [clerk EXCEPT ![w] =
              [op |-> "change", read |-> x,
               asked |-> [number |-> x.number, category |-> c, amount |-> a, day |-> d]]]
      BY <2>0 DEF Active, ExpensesFit, ExpenseFits
    <2> DEFINE e == [number |-> x.number, category |-> c, amount |-> a, day |-> d]
               r == [op |-> "change", read |-> x, asked |-> e]
    <2>2. ExpenseFits(e) /\ e.number = x.number
      BY <2>1, BooksAssumption DEF ExpenseFits
    <2>3. r.op = "change" /\ r.asked = e
      OBVIOUS
    <2>4. UNCHANGED expenses /\ clerk' = [clerk EXCEPT ![w] = r]
      BY <1>3, <2>1 DEF BeginChange
    <2> HIDE DEF e, r
    <2>5. QED
      BY <2>2, <2>3, <2>4, Asked
  <1>4. ASSUME NEW w \in Clerks, Record(w)
        PROVE  ExpensesFit' /\ ClerksHere'
    <2>1. /\ expenses' = expenses \cup {clerk[w].asked}
          /\ clerk' = [clerk EXCEPT ![w] = NoRequest]
          /\ ExpenseFits(clerk[w].asked)
      BY <1>4 DEF Record, ExpensesFit
    <2>2. IsFiniteSet(expenses')
      BY <2>1, FS_AddElement DEF ExpensesFit
    <2>3. \A e \in expenses' : ExpenseFits(e)
      BY <2>1 DEF ExpensesFit
    <2>4. \A e \in expenses : \E f \in expenses' : f.number = e.number
      BY <2>1
    <2>5. QED
      BY <2>1, <2>2, <2>3, <2>4, Answered
  <1>5. ASSUME NEW w \in Clerks, Change(w)
        PROVE  ExpensesFit' /\ ClerksHere'
    <2> DEFINE asked == clerk[w].asked
               read == clerk[w].read
               now == CHOOSE e \in expenses : e.number = asked.number
               row == [f \in DOMAIN now |-> Column(asked[f], read[f], now[f])]
    <2>1. /\ expenses' = (expenses \ {now}) \cup {row}
          /\ clerk' = [clerk EXCEPT ![w] = NoRequest]
          /\ clerk[w].op = "change"
      BY <1>5 DEF Change
    <2>2. now \in expenses /\ now.number = asked.number
      BY <2>1 DEF ExpensesFit
    <2>3. ExpenseFits(asked) /\ ExpenseFits(now)
      BY <2>1, <2>2 DEF ExpensesFit
    <2> HIDE DEF now, asked, read
    <2>4. ExpenseFits(row) /\ row.number = now.number
      BY <2>2, <2>3 DEF ExpenseFits, Column
    <2> HIDE DEF row
    <2>5. IsFiniteSet(expenses')
      <3>1. IsFiniteSet(expenses \ {now})
        BY FS_Subset DEF ExpensesFit
      <3>2. QED
        BY <2>1, <3>1, FS_AddElement
    <2>6. \A e \in expenses' : ExpenseFits(e)
      BY <2>1, <2>4 DEF ExpensesFit
    <2>7. \A e \in expenses : \E f \in expenses' : f.number = e.number
      BY <2>1, <2>4
    <2>8. QED
      BY <2>1, <2>5, <2>6, <2>7, Answered
  <1>6. CASE UNCHANGED vars \/ Midnight \/ Reads
    BY <1>1, <1>6 DEF vars, expenseVars, Midnight, Reads, ReadFirst, ReadSecond, BeginWalk, Count,
                      ReadPage
  <1>7. CASE \E c \in Categories :
               CreateCategory(c) \/ \E status \in {"active", "inactive"} : SwitchCategory(c, status)
    BY <1>1, <1>7 DEF CreateCategory, SwitchCategory
  <1>8. CASE \E t \in Tills : ReadOrder(t) \/ Stamp(t) \/ Complete(t) \/ GiveUp(t)
    BY <1>1, <1>8 DEF ReadOrder, Stamp, Complete, GiveUp, expenseVars
  <1>9. QED
    BY <1>2, <1>3, <1>4, <1>5, <1>6, <1>7, <1>8 DEF Next, Reads

\* A commit leaves what was read, and marks what it has changed.
LEMMA Marks ==
  ASSUME ReaderFits, Commits
  PROVE  /\ ReaderFits'
         /\ \A f \in {"pc", "kind", "from", "to", "figure", "second"} : reader'[f] = reader[f]
         /\ reader.sold => reader'.sold
         /\ reader.spent => reader'.spent
  <1> USE DEF Fields
  <1>1. CASE \E t \in Tills : Complete(t)
    BY <1>1 DEF Complete, ReaderFits
  <1>2. CASE \E w \in Clerks : Record(w)
    BY <1>2 DEF Record, ReaderFits
  <1>3. CASE \E w \in Clerks : Change(w)
    <2>1. PICK w \in Clerks, b \in BOOLEAN :
            reader' = [reader EXCEPT !.spent = TRUE, !.moved = @ \/ b]
      BY <1>3 DEF Change
    <2>2. QED
      BY <2>1 DEF ReaderFits
  <1>4. QED
    BY <1>1, <1>2, <1>3 DEF Commits

LEMMA ReaderStep ==
  ASSUME SalesFit, ExpensesFit, ReaderFits, [Next]_vars
  PROVE  ReaderFits'
  <1>1. CASE Quiet
    BY <1>1 DEF Quiet, ReaderFits
  <1>2. CASE Commits
    BY <1>2, Marks
  <1>3. CASE ReadFirst
    <2>1. PICK kind \in Figures, from \in Days, to \in Days :
            /\ kind \in {"day sales", "day expenses"} => from = to
            /\ reader' = [NotReading EXCEPT !.pc = "read", !.kind = kind, !.from = from, !.to = to,
                                            !.figure = First(kind, from, to)]
      BY <1>3 DEF ReadFirst
    <2>2. First(kind, from, to) \in Int
      BY FirstIsNumber
    <2> DEFINE n == First(kind, from, to)
    <2>3. reader' = [NotReading EXCEPT !.pc = "read", !.kind = kind, !.from = from, !.to = to,
                                       !.figure = n]
      BY <2>1
    <2> HIDE DEF n
    <2>4. DOMAIN reader' = Fields
      BY <2>3 DEF NotReading, Fields
    <2>5. /\ reader'.pc = "read" /\ reader'.kind = kind /\ reader'.from = from /\ reader'.to = to
          /\ reader'.figure = n
      BY <2>3 DEF NotReading
    <2>6. n \in Int
      BY <2>2 DEF n
    <2>7. QED
      BY <2>1, <2>4, <2>5, <2>6 DEF ReaderFits
  <1>4. CASE ReadSecond
    <2>1. PICK n : reader' = [reader EXCEPT !.pc = "done", !.second = n]
      BY <1>4 DEF ReadSecond
    <2>2. QED
      BY <2>1 DEF ReaderFits, Fields
  <1>5. CASE BeginWalk
    <2>1. PICK x : reader' = [NotReading EXCEPT !.pc = "walking", !.wanted = x]
      BY <1>5 DEF BeginWalk
    <2>2. DOMAIN reader' = Fields /\ reader'.pc = "walking" /\ reader'.kind = "none"
      BY <2>1 DEF NotReading, Fields
    <2>3. QED
      BY <2>2 DEF ReaderFits, Figures, SalesFigures
  <1>6. CASE Count
    <2>1. PICK x : reader' = [reader EXCEPT !.pc = "counted", !.total = x, !.squeezed = FALSE]
      BY <1>6 DEF Count
    <2>2. reader.pc = "walking"
      BY <1>6 DEF Count
    <2>3. QED
      BY <2>1, <2>2 DEF ReaderFits, Figures, SalesFigures, Fields
  <1>7. CASE ReadPage
    <2>1. PICK more, page :
            reader' = [reader EXCEPT !.pc = IF more THEN "walking" ELSE "done",
                                     !.offset = @ + Limit, !.shown = @ \o page]
      BY <1>7 DEF ReadPage
    <2>2. reader.pc = "counted"
      BY <1>7 DEF ReadPage
    <2>3. /\ DOMAIN reader' = Fields /\ reader'.pc \in {"walking", "done"}
          /\ reader'.kind = reader.kind
      BY <2>1 DEF ReaderFits, Fields
    <2>4. QED
      BY <2>2, <2>3 DEF ReaderFits, Figures, SalesFigures
  <1>8. QED
    BY <1>1, <1>2, <1>3, <1>4, <1>5, <1>6, <1>7, Steps DEF Reads

LEMMA FigureStep ==
  ASSUME SalesFit, ExpensesFit, ReaderFits, FigureHolds, [Next]_vars
  PROVE  FigureHolds'
  <1>0. SUFFICES ASSUME NEW kind \in Figures, NEW from \in Days, NEW to \in Days,
                        reader'.pc = "read", reader'.kind = kind, reader'.from = from,
                        reader'.to = to
                 PROVE  StillHolds(kind, from, to)'
    BY DEF FigureHolds
  <1>1. First(kind, from, to) \in Int
    BY FirstIsNumber
  <1>2. CASE Quiet
    <2>1. First(kind, from, to)' = First(kind, from, to) /\ (PaidOnce' <=> PaidOnce)
      BY <1>2, FirstKept DEF Quiet, PaidOnce
    <2>2. StillHolds(kind, from, to)
      BY <1>0, <1>2 DEF Quiet, FigureHolds
    <2>3. QED
      BY <1>2, <2>1, <2>2 DEF Quiet, StillHolds
  <1>3. CASE Commits
    <2>1. /\ reader'.pc = reader.pc /\ reader'.kind = reader.kind /\ reader'.from = reader.from
          /\ reader'.to = reader.to /\ reader'.figure = reader.figure
          /\ reader.sold => reader'.sold
          /\ reader.spent => reader'.spent
      BY <1>3, Marks
    <2>2. StillHolds(kind, from, to) /\ reader.figure \in Int
      BY <1>0, <2>1 DEF FigureHolds, ReaderFits
    <2>3. ASSUME NEW t \in Tills, Complete(t)
          PROVE  StillHolds(kind, from, to)'
      <3>1. reader'.sold /\ UNCHANGED expenses
        BY <2>3 DEF Complete, ReaderFits, Fields, expenseVars
      <3>2. CASE kind \in SalesFigures
        <4>1. ASSUME PaidOnce'
              PROVE  reader'.figure <= First(kind, from, to)'
          <5>1. /\ PaidOnce /\ First(kind, from, to) <= First(kind, from, to)'
                /\ First(kind, from, to)' \in Int
            BY <2>3, <3>2, <4>1, SalesGrow
          <5>2. reader.figure <= First(kind, from, to)
            BY <2>2, <3>2, <5>1 DEF StillHolds
          <5>3. QED
            BY <1>1, <2>1, <2>2, <5>1, <5>2
        <4>2. QED
          BY <3>1, <3>2, <4>1 DEF StillHolds
      <3>3. CASE kind \notin SalesFigures
        <4>1. First(kind, from, to)' = First(kind, from, to)
          BY <3>1, <3>3 DEF First, SalesFigures, SummarizeExpenses, DashboardExpenses, Figures
        <4>2. QED
          BY <2>1, <2>2, <3>3, <4>1 DEF StillHolds
      <3>4. QED
        BY <3>2, <3>3
    <2>4. ASSUME NEW w \in Clerks, Record(w) \/ Change(w)
          PROVE  StillHolds(kind, from, to)'
      <3>1. reader'.spent /\ UNCHANGED <<completed, payments>>
        BY <2>4 DEF Record, Change, ReaderFits, Fields, saleVars
      <3>2. CASE kind \in SalesFigures
        <4>1. First(kind, from, to)' = First(kind, from, to)
          BY <3>1, <3>2 DEF First, SalesFigures, SummarizeSales, SoldBetween, DashboardSales
        <4>2. PaidOnce' <=> PaidOnce
          BY <3>1 DEF PaidOnce
        <4>3. QED
          BY <2>1, <2>2, <3>2, <4>1, <4>2 DEF StillHolds
      <3>3. CASE kind \notin SalesFigures
        BY <3>1, <3>3 DEF StillHolds
      <3>4. QED
        BY <3>2, <3>3
    <2>5. QED
      BY <1>3, <2>3, <2>4 DEF Commits
  <1>4. CASE ReadFirst
    <2>1. PICK k \in Figures, f \in Days, l \in Days :
            reader' = [NotReading EXCEPT !.pc = "read", !.kind = k, !.from = f, !.to = l,
                                         !.figure = First(k, f, l)]
      BY <1>4 DEF ReadFirst
    <2> DEFINE n == First(k, f, l)
    <2>2. reader' = [NotReading EXCEPT !.pc = "read", !.kind = k, !.from = f, !.to = l, !.figure = n]
      BY <2>1
    <2> HIDE DEF n
    <2>3. reader'.kind = k /\ reader'.from = f /\ reader'.to = l /\ reader'.figure = n
      BY <2>2 DEF NotReading
    <2>4. n = First(kind, from, to)
      BY <1>0, <2>3 DEF n
    <2>5. First(kind, from, to)' = First(kind, from, to)
      BY <1>4, FirstKept DEF ReadFirst, saleVars, expenseVars
    <2>6. QED
      BY <1>1, <2>3, <2>4, <2>5 DEF StillHolds
  <1>5. CASE ReadSecond \/ BeginWalk \/ Count \/ ReadPage
    <2>1. reader'.pc # "read"
      BY <1>5 DEF ReadSecond, BeginWalk, Count, ReadPage, ReaderFits, Fields, NotReading
    <2>2. QED
      BY <1>0, <2>1
  <1>6. QED
    BY <1>2, <1>3, <1>4, <1>5, Steps DEF Reads

LEMMA AgreeStep ==
  ASSUME SalesFit, ExpensesFit, ReaderFits, FigureHolds, FiguresAgree, [Next]_vars
  PROVE  FiguresAgree'
  <1>1. CASE Quiet
    BY <1>1 DEF Quiet, FiguresAgree, PaidOnce
  <1>2. CASE Commits
    <2>1. /\ reader'.pc = reader.pc /\ reader'.kind = reader.kind /\ reader'.figure = reader.figure
          /\ reader'.second = reader.second
          /\ reader.sold => reader'.sold
          /\ reader.spent => reader'.spent
      BY <1>2, Marks
    <2>2. PaidOnce' => PaidOnce
      <3>1. CASE \E t \in Tills : Complete(t)
        <4>1. PICK t \in Tills : Complete(t)
          BY <3>1
        <4>2. payments' = [payments EXCEPT ![till[t].order] = @ + 1] /\ till[t].order \in Orders
          BY <4>1 DEF Complete, SalesFit
        <4>3. \A o \in Orders : payments[o] \in Nat /\ payments'[o] \in Nat /\ payments[o] <= payments'[o]
          BY <4>2 DEF SalesFit
        <4>4. QED
          BY <4>3 DEF PaidOnce
      <3>2. CASE UNCHANGED payments
        BY <3>2 DEF PaidOnce
      <3>3. QED
        BY <1>2, <3>1, <3>2 DEF Commits, Record, Change, saleVars
    <2>3. QED
      BY <2>1, <2>2 DEF FiguresAgree
  <1>3. CASE ReadSecond
    <2>1. PICK size \in Days :
            reader' = [reader EXCEPT !.pc = "done",
                                     !.second = Second(reader.kind, reader.from, reader.to, size)]
      BY <1>3 DEF ReadSecond
    <2>2. PICK kind \in Figures, from \in Days, to \in Days :
            /\ reader.kind = kind /\ reader.from = from /\ reader.to = to
            /\ kind \in {"day sales", "day expenses"} => from = to
      BY <1>3 DEF ReadSecond, ReaderFits
    <2> DEFINE n == Second(kind, from, to, size)
    <2>3. reader' = [reader EXCEPT !.pc = "done", !.second = n]
      BY <2>1, <2>2
    <2>4. (kind \in SalesFigures => PaidOnce) => n = First(kind, from, to)
      <3>1. SUFFICES ASSUME kind \in SalesFigures => PaidOnce
                     PROVE  Second(kind, from, to, size) = First(kind, from, to)
        BY DEF n
      <3>2. Comparable(kind, from, to)
        BY <2>2, <3>1 DEF Comparable
      <3>3. QED
        BY <3>2, FiguresOfOneMoment
    <2> HIDE DEF n
    <2>5. /\ reader'.kind = kind /\ reader'.second = n /\ reader'.figure = reader.figure
          /\ reader'.sold = reader.sold /\ reader'.spent = reader.spent
      BY <2>2, <2>3 DEF ReaderFits, Fields
    <2>6. StillHolds(kind, from, to)
      BY <1>3, <2>2 DEF ReadSecond, FigureHolds
    <2>7. PaidOnce' <=> PaidOnce
      BY <1>3 DEF ReadSecond, saleVars, PaidOnce
    <2>8. QED
      BY <2>4, <2>5, <2>6, <2>7 DEF FiguresAgree, StillHolds
  <1>4. CASE ReadFirst \/ BeginWalk \/ Count \/ ReadPage
    <2>1. "none" \notin Figures
      BY DEF Figures, SalesFigures
    <2>2. reader'.pc # "done" \/ reader'.kind = "none"
      BY <1>4 DEF ReadFirst, BeginWalk, Count, ReadPage, ReaderFits, Fields, NotReading
    <2>3. QED
      BY <2>1, <2>2 DEF FiguresAgree
  <1>5. QED
    BY <1>1, <1>2, <1>3, <1>4, Steps DEF Reads

LEMMA InvStep ==
  ASSUME BooksInv, [Next]_vars
  PROVE  BooksInv'
  <1>1. today' \in Days
    <2>1. CASE Midnight
      BY <2>1, BooksAssumption DEF BooksInv, Midnight, Days
    <2>2. CASE UNCHANGED today
      BY <2>2 DEF BooksInv
    <2>3. QED
      BY <2>1, <2>2 DEF Next, vars, ReadOrder, Stamp, Complete, GiveUp, CreateCategory, SwitchCategory,
                        BeginExpense, BeginChange, Record, Change, ReadFirst, ReadSecond, BeginWalk,
                        Count, ReadPage
  <1>2. SalesFit' /\ (till = [t \in Tills |-> till[t]])'
    BY SalesStep DEF BooksInv
  <1>3. ExpensesFit' /\ ClerksHere'
    BY ExpensesStep DEF BooksInv
  <1>4. ReaderFits' /\ FigureHolds' /\ FiguresAgree'
    BY ReaderStep, FigureStep, AgreeStep DEF BooksInv
  <1>5. QED
    BY <1>1, <1>2, <1>3, <1>4 DEF BooksInv

\* The inductive invariant: what each till, clerk and reader holds fits what is committed,
\* and a figure that was read is still that of its days unless something was committed.
THEOREM BooksInductive == BooksSpec => []BooksInv
  <1>1. BooksInit => BooksInv
    BY InvInit
  <1>2. BooksInv /\ [Next]_vars => BooksInv'
    BY InvStep
  <1>3. QED
    BY <1>1, <1>2, PTL DEF BooksSpec

\* Two figures of the same days agree, whichever of the statements of three modules they
\* come from (reports/repository.py, dashboard/repository.py, expenses/repository.py), for
\* any orders, lines and expenses, unless something was committed between the two.
THEOREM FiguresAlwaysAgree == BooksSpec => []FiguresAgree
  <1>1. BooksInv => FiguresAgree
    BY DEF BooksInv
  <1>2. QED
    BY <1>1, BooksInductive, PTL

-----------------------------------------------------------------------------
(* The list of expenses: the place of a row is one after all that are later *)

\* What list_expenses sorts by.
Key(e) == <<e.day, e.number>>
KeysOf(rows) == {Key(e) : e \in rows}
Keys == KeysOf(expenses)

Ahead(k, K) == {j \in K : j[1] > k[1] \/ (j[1] = k[1] /\ j[2] > k[2])}
Place(k, K) == Cardinality(Ahead(k, K)) + 1

\* Every key has a place of its own, and every place is taken.
LEMMA Places ==
  ASSUME NEW K, K \subseteq Int \X Int, IsFiniteSet(K)
  PROVE  /\ Cardinality(K) \in Nat
         /\ \A k \in K : Place(k, K) \in 1 .. Cardinality(K)
         /\ \A j, k \in K : Place(j, K) = Place(k, K) => j = k
         /\ \A i \in 1 .. Cardinality(K) : \E k \in K : Place(k, K) = i
  <1>1. Cardinality(K) \in Nat
    BY FS_CardinalityType
  <1>2. ASSUME NEW k \in K
        PROVE  IsFiniteSet(Ahead(k, K)) /\ Cardinality(Ahead(k, K)) \in 0 .. Cardinality(K) - 1
    <2>1. Ahead(k, K) \subseteq K /\ k \notin Ahead(k, K)
      BY DEF Ahead
    <2>2. IsFiniteSet(Ahead(k, K)) /\ Cardinality(Ahead(k, K)) <= Cardinality(K)
          /\ (Cardinality(K) = Cardinality(Ahead(k, K)) => K = Ahead(k, K))
      BY <2>1, FS_Subset
    <2>3. Cardinality(Ahead(k, K)) \in Nat
      BY <2>2, FS_CardinalityType
    <2>4. QED
      BY <1>1, <2>1, <2>2, <2>3
  <1>3. \A k \in K : Place(k, K) \in 1 .. Cardinality(K)
    BY <1>1, <1>2 DEF Place
  <1>4. ASSUME NEW j \in K, NEW k \in K, j \in Ahead(k, K)
        PROVE  Place(j, K) # Place(k, K)
    <2>1. Ahead(j, K) \subseteq Ahead(k, K) /\ j \notin Ahead(j, K)
      BY <1>4 DEF Ahead
    <2>2. Cardinality(Ahead(k, K)) # Cardinality(Ahead(j, K))
      BY <1>2, <1>4, <2>1, FS_Subset
    <2>3. QED
      BY <1>2, <2>2 DEF Place
  <1>5. \A j, k \in K : j = k \/ j \in Ahead(k, K) \/ k \in Ahead(j, K)
    BY DEF Ahead
  <1>6. \A j, k \in K : Place(j, K) = Place(k, K) => j = k
    BY <1>4, <1>5
  <1>7. \A i \in 1 .. Cardinality(K) : \E k \in K : Place(k, K) = i
    <2> DEFINE f == [k \in K |-> Place(k, K)]
               T == 1 .. Cardinality(K)
    <2>1. f \in Injection(K, T)
      BY <1>3, <1>6 DEF Injection, IsInjective
    <2>2. IsFiniteSet(T) /\ Cardinality(T) = Cardinality(K)
      BY <1>1, FS_Interval
    <2> HIDE DEF T
    <2>3. f \in Surjection(K, T)
      BY <2>1, <2>2, FS_Injection
    <2>4. \A i \in T : \E k \in K : f[k] = i
      BY <2>3 DEF Surjection
    <2>5. QED
      BY <2>4 DEF T
  <1>8. QED
    BY <1>1, <1>3, <1>6, <1>7

\* No key moves ahead when others are added.
LEMMA PlacesGrow ==
  ASSUME NEW K, NEW L, K \subseteq L, L \subseteq Int \X Int, IsFiniteSet(L), NEW k \in K
  PROVE  Place(k, K) <= Place(k, L)
  <1>1. Ahead(k, K) \subseteq Ahead(k, L) /\ Ahead(k, L) \subseteq L
    BY DEF Ahead
  <1>2. IsFiniteSet(Ahead(k, L))
    BY <1>1, FS_Subset
  <1>3. /\ IsFiniteSet(Ahead(k, K)) /\ Cardinality(Ahead(k, K)) <= Cardinality(Ahead(k, L))
    BY <1>1, <1>2, FS_Subset
  <1>4. Cardinality(Ahead(k, K)) \in Nat /\ Cardinality(Ahead(k, L)) \in Nat
    BY <1>2, <1>3, FS_CardinalityType
  <1>5. QED
    BY <1>3, <1>4 DEF Place

\* No number is given twice.
Numbered ==
  /\ begun \in Nat
  /\ \A e, f \in expenses : e.number = f.number => e = f
  /\ \A e \in expenses : e.number \in 1 .. begun
  /\ \A w \in Clerks : clerk[w].op = "create" =>
       /\ clerk[w].asked.number \in 1 .. begun
       /\ \A e \in expenses : e.number # clerk[w].asked.number
       /\ \A v \in Clerks :
            clerk[v].op = "create" /\ clerk[v].asked.number = clerk[w].asked.number => v = w

\* Rows are as many as their keys.
LEMMA KeysCount ==
  ASSUME ExpensesFit, Numbered, NEW S, S \subseteq expenses
  PROVE  IsFiniteSet(KeysOf(S)) /\ Cardinality(KeysOf(S)) = Cardinality(S)
  <1>1. IsFiniteSet(S)
    BY FS_Subset DEF ExpensesFit
  <1> DEFINE f == [e \in S |-> Key(e)]
  <1>2. \A d, e \in S : f[d] = f[e] => d = e
    BY DEF Numbered, Key
  <1>3. f \in [S -> KeysOf(S)] /\ \A k \in KeysOf(S) : \E e \in S : f[e] = k
    BY DEF KeysOf
  <1>4. f \in Bijection(S, KeysOf(S))
    BY <1>2, <1>3 DEF Bijection, Injection, Surjection, IsInjective
  <1>5. ExistsBijection(S, KeysOf(S))
    BY <1>4 DEF ExistsBijection
  <1>6. QED
    BY <1>1, <1>5, FS_Bijection

\* The list shows the row of each key at the place of the key.
LEMMA ListedAt ==
  ASSUME ExpensesFit, Numbered
  PROVE  /\ Keys \subseteq Int \X Int /\ IsFiniteSet(Keys)
         /\ Cardinality(expenses) = Cardinality(Keys)
         /\ Cardinality(Keys) \in Nat
         /\ Len(Listed) = Cardinality(Keys)
         /\ \A k \in Keys : Listed[Place(k, Keys)].number = k[2]
  <1>1. Keys \subseteq Int \X Int
    <2>1. \A e \in expenses : e.day \in Days
      BY DEF ExpensesFit, ExpenseFits
    <2>2. \A e \in expenses : e.number \in Int
      BY DEF Numbered
    <2>3. \A e \in expenses : Key(e) \in Int \X Int
      BY <2>1, <2>2, DaysAreIntegers DEF Key
    <2>4. QED
      BY <2>3 DEF Keys, KeysOf
  <1>2. IsFiniteSet(Keys) /\ Cardinality(Keys) = Cardinality(expenses)
    BY KeysCount DEF Keys
  <1>3. Cardinality(Keys) \in Nat
    BY <1>2, FS_CardinalityType
  <1>4. Len(Listed) = Cardinality(expenses)
    BY <1>2, <1>3 DEF Listed
  <1>5. \A e \in expenses : Cardinality({f \in expenses : Later(f, e)}) = Place(Key(e), Keys) - 1
    <2> SUFFICES ASSUME NEW e \in expenses
                 PROVE  Cardinality({f \in expenses : Later(f, e)}) = Place(Key(e), Keys) - 1
      OBVIOUS
    <2> DEFINE S == {f \in expenses : Later(f, e)}
    <2>1. KeysOf(S) = Ahead(Key(e), Keys)
      BY DEF KeysOf, Ahead, Key, Keys, Later
    <2>2. Cardinality(S) = Cardinality(Ahead(Key(e), Keys))
      BY <2>1, KeysCount
    <2>3. Place(Key(e), Keys) \in Nat
      BY <1>1, <1>2, <1>3, Places DEF Keys, KeysOf
    <2>4. Cardinality(Ahead(Key(e), Keys)) \in Int
      <3>1. Ahead(Key(e), Keys) \subseteq Keys
        BY DEF Ahead
      <3>2. QED
        BY <1>2, <3>1, FS_Subset, FS_CardinalityType
    <2>5. QED
      BY <2>2, <2>4 DEF Place
  <1>6. ASSUME NEW e \in expenses PROVE Listed[Place(Key(e), Keys)] = e
    <2> DEFINE n == Place(Key(e), Keys)
               Row(f) == Cardinality({g \in expenses : Later(g, f)}) = n - 1
    <2>1. n \in 1 .. Cardinality(expenses)
      BY <1>1, <1>2, Places DEF Keys, KeysOf
    <2>2. Row(e)
      BY <1>5
    <2>3. \A f \in expenses : Row(f) => f = e
      <3>1. TAKE f \in expenses
      <3>2. Key(f) \in Keys /\ Key(e) \in Keys
        BY DEF Keys, KeysOf
      <3>3. Place(Key(f), Keys) \in Int /\ n \in Int
        BY <1>1, <1>2, <3>2, Places
      <3>4. Row(f) => Place(Key(f), Keys) = Place(Key(e), Keys)
        BY <1>5, <3>3
      <3>5. Row(f) => Key(f) = Key(e)
        BY <1>1, <1>2, <3>2, <3>4, Places
      <3>6. QED
        BY <3>5 DEF Key, Numbered
    <2>4. Listed[n] = CHOOSE f \in expenses : Row(f)
      BY <2>1 DEF Listed
    <2> HIDE DEF n, Row
    <2>5. Listed[n] = e
      BY <2>2, <2>3, <2>4
    <2>6. QED
      BY <2>5 DEF n
  <1>7. \A k \in Keys : Listed[Place(k, Keys)].number = k[2]
    BY <1>6 DEF Keys, KeysOf, Key
  <1>8. QED
    BY <1>1, <1>2, <1>3, <1>4, <1>7

-----------------------------------------------------------------------------
(* The walk through the pages *)

\* As long as no expense is dated anew: the rows wanted that are before the offset were
\* shown, what was counted is there, and while none is added the walk shows the list.
WalkHolds ==
  reader.pc \in {"walking", "counted"} /\ ~reader.moved =>
    /\ reader.offset \in 0 .. Cardinality(Keys)
    /\ reader.shown \in Seq(Nat)
    /\ reader.wanted \subseteq {k[2] : k \in Keys}
    /\ \A k \in Keys :
         k[2] \in reader.wanted /\ Place(k, Keys) <= reader.offset => k[2] \in ToSet(reader.shown)
    /\ reader.pc = "counted" => /\ reader.total \in 0 .. Cardinality(Keys)
                                /\ reader.squeezed \/ reader.total = Cardinality(Keys)
    /\ \/ reader.added
       \/ /\ Len(reader.shown) = reader.offset
          /\ \A k \in Keys : Place(k, Keys) <= reader.offset => reader.shown[Place(k, Keys)] = k[2]

PagesInv == Numbered /\ WalkHolds /\ PagesCoverList

\* A change replaces a row by one of the same number.
LEMMA ChangeIs ==
  ASSUME ExpensesFit, NEW w \in Clerks, Change(w)
  PROVE  \E now \in expenses : \E row :
           /\ expenses' = (expenses \ {now}) \cup {row}
           /\ row.number = now.number
           /\ reader' = [reader EXCEPT !.spent = TRUE, !.moved = @ \/ row.day # now.day]
  <1> DEFINE asked == clerk[w].asked
             read == clerk[w].read
             now == CHOOSE e \in expenses : e.number = asked.number
             row == [f \in DOMAIN now |-> Column(asked[f], read[f], now[f])]
  <1>1. /\ expenses' = (expenses \ {now}) \cup {row}
        /\ reader' = [reader EXCEPT !.spent = TRUE, !.moved = @ \/ row.day # now.day]
        /\ clerk[w].op = "change"
    BY DEF Change
  <1>2. now \in expenses /\ now.number = asked.number
    BY <1>1 DEF ExpensesFit
  <1>3. ExpenseFits(now)
    BY <1>2 DEF ExpensesFit
  <1> HIDE DEF now, asked, read
  <1>4. row.number = now.number
    BY <1>2, <1>3 DEF ExpenseFits, Column
  <1> HIDE DEF row
  <1>5. QED
    BY <1>1, <1>2, <1>4

\* Every step keeps the numbers apart.
LEMMA NumberedStep ==
  ASSUME ExpensesFit, ClerksHere, Numbered, [Next]_vars
  PROVE  Numbered'
  <1>1. CASE UNCHANGED <<expenses, clerk>> /\ (begun' = begun \/ begun' = begun + 1)
    BY <1>1 DEF Numbered
  <1>2. ASSUME NEW w \in Clerks, BeginExpense(w)
        PROVE  Numbered'
    <2>0. PICK c \in Active, a \in Amounts, d \in Days :
            clerk' = [clerk EXCEPT ![w] =
              [op |-> "create",
               asked |-> [number |-> begun', category |-> c, amount |-> a, day |-> d]]]
      BY <1>2 DEF BeginExpense
    <2>2. begun' = begun + 1 /\ UNCHANGED expenses
      BY <1>2 DEF BeginExpense, Begin
    <2> DEFINE r == [op |-> "create",
                     asked |-> [number |-> begun', category |-> c, amount |-> a, day |-> d]]
    <2>1. clerk' = [clerk EXCEPT ![w] = r] /\ r.op = "create" /\ r.asked.number = begun + 1
      BY <2>0, <2>2
    <2> HIDE DEF r
    <2>3. clerk'[w] = r /\ \A u \in Clerks : u # w => clerk'[u] = clerk[u]
      BY <2>1 DEF ClerksHere
    <2>4. QED
      BY <2>1, <2>2, <2>3 DEF Numbered
  <1>3. ASSUME NEW w \in Clerks, BeginChange(w)
        PROVE  Numbered'
    <2>0. PICK x \in expenses, a \in Amounts, d \in Days : \E c \in Active \cup {x.category} :
            clerk' = [clerk EXCEPT ![w] =
              [op |-> "change", read |-> x,
               asked |-> [number |-> x.number, category |-> c, amount |-> a, day |-> d]]]
      BY <1>3 DEF BeginChange
    <2>1. \E r : clerk' = [clerk EXCEPT ![w] = r] /\ r.op = "change"
      <3>1. PICK c \in Active \cup {x.category} :
              clerk' = [clerk EXCEPT ![w] =
                [op |-> "change", read |-> x,
                 asked |-> [number |-> x.number, category |-> c, amount |-> a, day |-> d]]]
        BY <2>0
      <3> DEFINE r == [op |-> "change", read |-> x,
                       asked |-> [number |-> x.number, category |-> c, amount |-> a, day |-> d]]
      <3>2. clerk' = [clerk EXCEPT ![w] = r] /\ r.op = "change"
        BY <3>1
      <3> HIDE DEF r
      <3>3. QED
        BY <3>2
    <2>5. PICK r : clerk' = [clerk EXCEPT ![w] = r] /\ r.op = "change"
      BY <2>1
    <2>2. begun' = begun + 1 /\ UNCHANGED expenses
      BY <1>3 DEF BeginChange, Begin
    <2>3. clerk'[w] = r /\ \A u \in Clerks : u # w => clerk'[u] = clerk[u]
      BY <2>5 DEF ClerksHere
    <2>4. QED
      BY <2>5, <2>2, <2>3 DEF Numbered
  <1>4. ASSUME NEW w \in Clerks, Record(w)
        PROVE  Numbered'
    <2>1. /\ expenses' = expenses \cup {clerk[w].asked} /\ clerk[w].op = "create"
          /\ clerk' = [clerk EXCEPT ![w] = NoRequest] /\ UNCHANGED begun
      BY <1>4 DEF Record
    <2>2. clerk'[w].op = "none" /\ \A u \in Clerks : u # w => clerk'[u] = clerk[u]
      BY <2>1 DEF ClerksHere, NoRequest
    <2>3. QED
      BY <2>1, <2>2 DEF Numbered
  <1>5. ASSUME NEW w \in Clerks, Change(w)
        PROVE  Numbered'
    <2>0. PICK now \in expenses : \E row :
            /\ expenses' = (expenses \ {now}) \cup {row}
            /\ row.number = now.number
      BY <1>5, ChangeIs
    <2>1. PICK row :
            /\ expenses' = (expenses \ {now}) \cup {row}
            /\ row.number = now.number
      BY <2>0
    <2>2. clerk' = [clerk EXCEPT ![w] = NoRequest] /\ UNCHANGED begun
      BY <1>5 DEF Change
    <2>3. clerk'[w].op = "none" /\ \A u \in Clerks : u # w => clerk'[u] = clerk[u]
      BY <2>2 DEF ClerksHere, NoRequest
    <2>4. QED
      BY <2>1, <2>2, <2>3 DEF Numbered
  <1>6. CASE UNCHANGED vars \/ Midnight \/ Reads
    BY <1>1, <1>6 DEF vars, expenseVars, Midnight, Reads, ReadFirst, ReadSecond, BeginWalk, Count,
                      ReadPage
  <1>7. CASE \E c \in Categories :
               CreateCategory(c) \/ \E status \in {"active", "inactive"} : SwitchCategory(c, status)
    BY <1>1, <1>7 DEF CreateCategory, SwitchCategory, Begin
  <1>8. CASE \E t \in Tills : ReadOrder(t) \/ Stamp(t) \/ Complete(t) \/ GiveUp(t)
    BY <1>1, <1>8 DEF ReadOrder, Stamp, Complete, GiveUp, expenseVars, Begin
  <1>9. QED
    BY <1>2, <1>3, <1>4, <1>5, <1>6, <1>7, <1>8 DEF Next, Reads

\* Before the first expense.
LEMMA PagesInit ==
  ASSUME BooksInit
  PROVE  PagesInv
  <1>1. begun = 0 /\ expenses = {} /\ \A w \in Clerks : clerk[w].op = "none"
    BY DEF BooksInit, NoRequest
  <1>2. reader.pc = "idle"
    BY DEF BooksInit, NotReading
  <1>3. QED
    BY <1>1, <1>2 DEF PagesInv, Numbered, WalkHolds, PagesCoverList

\* A row is added: no row that was there moves ahead, and the new one was not wanted.
LEMMA WalkAfterRecord ==
  ASSUME ExpensesFit, ExpensesFit', Numbered, Numbered', ReaderFits, WalkHolds, PagesCoverList,
         NEW w \in Clerks, Record(w)
  PROVE  WalkHolds' /\ PagesCoverList'
  <1>1. /\ expenses' = expenses \cup {clerk[w].asked} /\ clerk[w].op = "create"
        /\ \A e \in expenses : e.number # clerk[w].asked.number
    BY DEF Record, Numbered
  <1> DEFINE n == Key(clerk[w].asked)
             K == Keys
             L == K \cup {n}
  <1>2. Keys' = L
    BY <1>1 DEF Keys, KeysOf, Key
  <1>3. /\ L \subseteq Int \X Int /\ IsFiniteSet(L) /\ Cardinality(L) \in Nat
        /\ K \subseteq Int \X Int /\ IsFiniteSet(K) /\ Cardinality(K) \in Nat
        /\ Cardinality(K) <= Cardinality(L)
    <2>1. Keys \subseteq Int \X Int /\ IsFiniteSet(Keys) /\ Cardinality(Keys) \in Nat
      BY ListedAt
    <2>2. (Keys \subseteq Int \X Int /\ IsFiniteSet(Keys) /\ Cardinality(Keys) \in Nat)'
      <3>1. (ExpensesFit /\ Numbered =>
               Keys \subseteq Int \X Int /\ IsFiniteSet(Keys) /\ Cardinality(Keys) \in Nat)'
        BY ListedAt, PTL
      <3>2. QED
        BY <3>1
    <2>3. QED
      BY <1>2, <2>1, <2>2, FS_Subset
  <1>4. n[2] = clerk[w].asked.number /\ \A k \in K : k[2] # n[2]
    BY <1>1 DEF Key, Keys, KeysOf
  <1>5. \A k \in K : Place(k, K) <= Place(k, L) /\ Place(k, K) \in Int /\ Place(k, L) \in Int
    BY <1>3, PlacesGrow, Places
  <1>6. /\ DOMAIN reader' = Fields
        /\ \A f \in {"pc", "kind", "wanted", "total", "offset", "shown", "moved"} :
             reader'[f] = reader[f]
        /\ reader'.added
        /\ reader.pc = "counted" => reader'.squeezed
        /\ reader.squeezed => reader'.squeezed
    BY DEF Record, ReaderFits, Fields
  <1> HIDE DEF n, K, L
  <1>7. WalkHolds'
    <2> SUFFICES ASSUME reader.pc \in {"walking", "counted"} /\ ~reader.moved
                 PROVE  WalkHolds'
      BY <1>6 DEF WalkHolds
    <2>1. /\ reader.offset \in 0 .. Cardinality(K)
          /\ reader.shown \in Seq(Nat)
          /\ reader.wanted \subseteq {k[2] : k \in K}
          /\ \A k \in K :
               k[2] \in reader.wanted /\ Place(k, K) <= reader.offset => k[2] \in ToSet(reader.shown)
          /\ reader.pc = "counted" => reader.total \in 0 .. Cardinality(K)
      BY DEF WalkHolds, K
    <2>2. reader.offset \in 0 .. Cardinality(L) /\ (reader.pc = "counted" => reader.total \in 0 .. Cardinality(L))
      BY <1>3, <2>1
    <2>3. reader.wanted \subseteq {k[2] : k \in L}
      BY <2>1 DEF L
    <2>4. ASSUME NEW k \in L, k[2] \in reader.wanted, Place(k, L) <= reader.offset
          PROVE  k[2] \in ToSet(reader.shown)
      <3>1. k \in K
        BY <1>4, <2>1, <2>4 DEF L
      <3>2. Place(k, K) <= reader.offset
        BY <1>5, <2>1, <2>4, <3>1
      <3>3. QED
        BY <2>1, <2>4, <3>1, <3>2
    <2>5. QED
      BY <1>2, <1>6, <2>1, <2>2, <2>3, <2>4 DEF WalkHolds
  <1>8. PagesCoverList'
    BY <1>6 DEF PagesCoverList
  <1>9. QED
    BY <1>7, <1>8

\* A row is changed: unless it moves, its place and its number are what they were.
LEMMA WalkAfterChange ==
  ASSUME ExpensesFit, ReaderFits, WalkHolds, PagesCoverList, NEW w \in Clerks, Change(w)
  PROVE  WalkHolds' /\ PagesCoverList'
  <1>0. PICK now \in expenses : \E row :
          /\ expenses' = (expenses \ {now}) \cup {row}
          /\ row.number = now.number
          /\ reader' = [reader EXCEPT !.spent = TRUE, !.moved = @ \/ row.day # now.day]
    BY ChangeIs
  <1>1. PICK row :
          /\ expenses' = (expenses \ {now}) \cup {row}
          /\ row.number = now.number
          /\ reader' = [reader EXCEPT !.spent = TRUE, !.moved = @ \/ row.day # now.day]
    BY <1>0
  <1>2. /\ \A f \in {"pc", "kind", "wanted", "total", "offset", "shown", "added", "squeezed"} :
             reader'[f] = reader[f]
        /\ ~reader'.moved => ~reader.moved /\ row.day = now.day
    BY <1>1 DEF ReaderFits, Fields
  <1>3. row.day = now.day => Keys' = Keys
    <2>1. ASSUME row.day = now.day PROVE Key(row) = Key(now)
      BY <1>1, <2>1 DEF Key
    <2>2. Keys = KeysOf(expenses \ {now}) \cup {Key(now)}
      BY DEF Keys, KeysOf
    <2>3. Keys' = KeysOf(expenses \ {now}) \cup {Key(row)}
      BY <1>1 DEF Keys, KeysOf, Key
    <2>4. QED
      BY <2>1, <2>2, <2>3
  <1>4. WalkHolds'
    <2> SUFFICES ASSUME ~reader'.moved
                 PROVE  WalkHolds'
      BY DEF WalkHolds
    <2>1. ~reader.moved /\ Keys' = Keys
      BY <1>2, <1>3
    <2>2. QED
      BY <1>2, <2>1 DEF WalkHolds
  <1>5. PagesCoverList'
    BY <1>2 DEF PagesCoverList
  <1>6. QED
    BY <1>4, <1>5

\* Nothing of a walk changes with the books of the sales.
LEMMA WalkBesides ==
  ASSUME ReaderFits, WalkHolds, PagesCoverList, UNCHANGED expenses,
         \A f \in {"pc", "kind", "wanted", "total", "offset", "shown", "added", "moved", "squeezed"} :
           reader'[f] = reader[f]
  PROVE  WalkHolds' /\ PagesCoverList'
  <1>1. Keys' = Keys
    BY DEF Keys, KeysOf, Key
  <1>2. WalkHolds'
    BY <1>1 DEF WalkHolds
  <1>3. QED
    BY <1>2 DEF PagesCoverList

\* A walk begins with nothing shown.
LEMMA WalkBegins ==
  ASSUME ExpensesFit, Numbered, BeginWalk
  PROVE  WalkHolds' /\ PagesCoverList'
  <1>1. reader' = [NotReading EXCEPT !.pc = "walking", !.wanted = {e.number : e \in expenses}]
    BY DEF BeginWalk
  <1>2. /\ reader'.pc = "walking" /\ reader'.offset = 0 /\ reader'.shown = <<>>
        /\ reader'.wanted = {e.number : e \in expenses}
    BY <1>1 DEF NotReading
  <1>3. Keys' = Keys
    BY DEF BeginWalk, expenseVars, Keys, KeysOf, Key
  <1>4. /\ Keys \subseteq Int \X Int /\ IsFiniteSet(Keys) /\ Cardinality(Keys) \in Nat
        /\ \A k \in Keys : Place(k, Keys) \in 1 .. Cardinality(Keys)
    BY ListedAt, Places
  <1>5. {e.number : e \in expenses} \subseteq {k[2] : k \in Keys}
    <2>1. \A e \in expenses : Key(e) \in Keys /\ Key(e)[2] = e.number
      BY DEF Keys, KeysOf, Key
    <2>2. QED
      BY <2>1
  <1> DEFINE K == Keys
  <1>6. \A k \in K : ~(Place(k, K) <= 0)
    BY <1>4
  <1>7. <<>> \in Seq(Nat) /\ Len(<<>>) = 0 /\ 0 \in 0 .. Cardinality(K)
    BY <1>4
  <1> HIDE DEF K
  <1>8. WalkHolds'
    BY <1>2, <1>3, <1>5, <1>6, <1>7 DEF WalkHolds, K
  <1>9. QED
    BY <1>2, <1>8 DEF PagesCoverList

\* The rows are counted.
LEMMA WalkCounts ==
  ASSUME ExpensesFit, Numbered, ReaderFits, WalkHolds, Count
  PROVE  WalkHolds' /\ PagesCoverList'
  <1>1. /\ reader.pc = "walking"
        /\ reader' = [reader EXCEPT !.pc = "counted", !.total = Cardinality(expenses), !.squeezed = FALSE]
    BY DEF Count
  <1>2. /\ reader'.pc = "counted" /\ reader'.total = Cardinality(expenses)
        /\ \A f \in {"wanted", "offset", "shown", "added", "moved"} : reader'[f] = reader[f]
    BY <1>1 DEF ReaderFits, Fields
  <1>3. Keys' = Keys
    BY DEF Count, expenseVars, Keys, KeysOf, Key
  <1>4. Cardinality(expenses) = Cardinality(Keys) /\ Cardinality(Keys) \in Nat
    BY ListedAt
  <1>5. WalkHolds'
    BY <1>1, <1>2, <1>3, <1>4 DEF WalkHolds
  <1>6. QED
    BY <1>2, <1>5 DEF PagesCoverList

\* What two sequences are end to end.
LEMMA Joined ==
  ASSUME NEW s \in Seq(Nat), NEW t \in Seq(Nat)
  PROVE  /\ s \o t \in Seq(Nat) /\ Len(s \o t) = Len(s) + Len(t)
         /\ \A i \in 1 .. Len(s) : (s \o t)[i] = s[i]
         /\ \A i \in 1 .. Len(t) : (s \o t)[Len(s) + i] = t[i]
  OBVIOUS

\* The rows up to the last of a page are shown when they were shown before the page.
LEMMA WalkReads ==
  ASSUME ExpensesFit, Numbered, ReaderFits, WalkHolds, ReadPage
  PROVE  WalkHolds' /\ PagesCoverList'
  <1> DEFINE K == Keys
             N == Cardinality(Keys)
             from == reader.offset
             last == Min({reader.offset + Limit, Len(Listed)})
             page == [n \in 1..last - reader.offset |-> Listed[reader.offset + n].number]
             more == HasMore(reader.offset, Len(page), reader.total)
  <1>1. /\ reader.pc = "counted"
        /\ reader' = [reader EXCEPT !.pc = IF more THEN "walking" ELSE "done",
                                    !.offset = @ + Limit, !.shown = @ \o page]
        /\ UNCHANGED expenses
    BY DEF ReadPage, expenseVars
  <1> HIDE DEF page, more
  <1>2. /\ reader'.pc = IF more THEN "walking" ELSE "done"
        /\ reader'.offset = from + Limit /\ reader'.shown = reader.shown \o page
        /\ \A f \in {"kind", "wanted", "added", "moved", "squeezed"} : reader'[f] = reader[f]
    BY <1>1 DEF ReaderFits, Fields
  <1> SUFFICES ASSUME ~reader.moved
               PROVE  WalkHolds' /\ PagesCoverList'
    BY <1>2 DEF WalkHolds, PagesCoverList
  <1>3. /\ K \subseteq Int \X Int /\ IsFiniteSet(K) /\ N \in Nat /\ N = Cardinality(K)
        /\ Len(Listed) = N
        /\ \A k \in K : Listed[Place(k, K)].number = k[2]
    BY ListedAt
  <1>4. /\ \A k \in K : Place(k, K) \in 1 .. N
        /\ \A j, k \in K : Place(j, K) = Place(k, K) => j = k
        /\ \A i \in 1 .. N : \E k \in K : Place(k, K) = i
    BY <1>3, Places
  <1>5. /\ from \in 0 .. N /\ reader.shown \in Seq(Nat)
        /\ reader.wanted \subseteq {k[2] : k \in K}
        /\ \A k \in K :
             k[2] \in reader.wanted /\ Place(k, K) <= from => k[2] \in ToSet(reader.shown)
        /\ reader.total \in 0 .. N /\ (reader.squeezed \/ reader.total = N)
        /\ \/ reader.added
           \/ /\ Len(reader.shown) = from
              /\ \A k \in K : Place(k, K) <= from => reader.shown[Place(k, K)] = k[2]
    BY <1>1 DEF WalkHolds
  <1>6. \A k \in K : k[2] \in Nat
    <2>1. \A e \in expenses : Key(e)[2] = e.number /\ e.number \in Nat
      BY DEF Key, Numbered
    <2>2. QED
      BY <2>1 DEF Keys, KeysOf
  <1>7. Limit \in Nat \ {0}
    BY BooksAssumption
  <1> HIDE DEF K, N
  <1>8. /\ last \in from .. N /\ last <= from + Limit
        /\ last = N \/ last = from + Limit
    <2>1. last = CHOOSE x \in {from + Limit, N} : \A y \in {from + Limit, N} : x <= y
      BY <1>3 DEF Min
    <2>2. \E x \in {from + Limit, N} : \A y \in {from + Limit, N} : x <= y
      BY <1>3, <1>5, <1>7
    <2> HIDE DEF last, from
    <2>3. last \in {from + Limit, N} /\ \A y \in {from + Limit, N} : last <= y
      BY <2>1, <2>2
    <2>4. QED
      BY <1>3, <1>5, <1>7, <2>3
  <1>9. page = [n \in 1 .. last - from |-> Listed[from + n].number]
    BY DEF page
  <1> HIDE DEF last, from
  <1>10. page \in Seq(Nat) /\ Len(page) = last - from
    <2>1. last - from \in Nat
      BY <1>3, <1>5, <1>8
    <2>2. \A n \in 1 .. last - from : Listed[from + n].number \in Nat
      <3>1. \A n \in 1 .. last - from : from + n \in 1 .. N
        BY <1>3, <1>5, <1>8
      <3>2. QED
        BY <1>3, <1>4, <1>6, <3>1
    <2>3. QED
      BY <1>9, <2>1, <2>2
  <1>11. ASSUME NEW k \in K, from < Place(k, K), Place(k, K) <= last
         PROVE  /\ Place(k, K) - from \in 1 .. Len(page)
                /\ page[Place(k, K) - from] = k[2]
    <2> DEFINE i == Place(k, K)
    <2>1. i \in Int /\ from \in Int /\ last \in Int /\ from < i /\ i <= last
      BY <1>3, <1>4, <1>5, <1>8, <1>11
    <2>2. Listed[i].number = k[2]
      BY <1>3
    <2> HIDE DEF i
    <2>3. i - from \in 1 .. last - from /\ from + (i - from) = i
      BY <2>1
    <2>4. page[i - from] = k[2]
      BY <1>9, <2>2, <2>3
    <2>5. QED
      BY <1>10, <2>3, <2>4 DEF i
  <1> DEFINE shown == reader.shown \o page
  <1>12. /\ shown \in Seq(Nat) /\ Len(shown) = Len(reader.shown) + Len(page)
         /\ \A i \in 1 .. Len(reader.shown) : shown[i] = reader.shown[i]
         /\ \A i \in 1 .. Len(page) : shown[Len(reader.shown) + i] = page[i]
    BY <1>5, <1>10, Joined
  <1>13. ToSet(reader.shown) \cup ToSet(page) \subseteq ToSet(shown)
    <2> HIDE DEF shown
    <2>1. \A i \in 1 .. Len(reader.shown) : i \in 1 .. Len(shown)
      BY <1>5, <1>10, <1>12
    <2>2. \A i \in 1 .. Len(page) : Len(reader.shown) + i \in 1 .. Len(shown)
      BY <1>5, <1>10, <1>12
    <2>3. /\ DOMAIN reader.shown = 1 .. Len(reader.shown) /\ DOMAIN page = 1 .. Len(page)
          /\ DOMAIN shown = 1 .. Len(shown)
      BY <1>5, <1>10, <1>12
    <2>4. QED
      BY <1>12, <2>1, <2>2, <2>3 DEF ToSet
  <1>14. ASSUME NEW k \in K, k[2] \in reader.wanted, Place(k, K) <= last
         PROVE  k[2] \in ToSet(shown)
    <2>1. CASE Place(k, K) <= from
      BY <1>5, <1>13, <1>14, <2>1
    <2>2. CASE from < Place(k, K)
      <3>1. DOMAIN page = 1 .. Len(page)
        BY <1>10
      <3>2. k[2] \in ToSet(page)
        BY <1>11, <1>14, <2>2, <3>1 DEF ToSet
      <3>3. QED
        BY <1>13, <3>2
    <2>3. QED
      BY <1>4, <1>5, <2>1, <2>2
  <1>15. \/ reader.added
         \/ /\ Len(shown) = last
            /\ \A k \in K : Place(k, K) <= last => shown[Place(k, K)] = k[2]
    <2> SUFFICES ASSUME ~reader.added
                 PROVE  /\ Len(shown) = last
                        /\ \A k \in K : Place(k, K) <= last => shown[Place(k, K)] = k[2]
      OBVIOUS
    <2>1. /\ Len(reader.shown) = from
          /\ \A k \in K : Place(k, K) <= from => reader.shown[Place(k, K)] = k[2]
      BY <1>5
    <2> HIDE DEF shown
    <2>2. Len(shown) = last
      BY <1>5, <1>8, <1>10, <1>12, <2>1
    <2>3. ASSUME NEW k \in K, Place(k, K) <= last
          PROVE  shown[Place(k, K)] = k[2]
      <3>1. CASE Place(k, K) <= from
        <4>1. Place(k, K) \in 1 .. Len(reader.shown)
          BY <1>4, <1>5, <2>1, <3>1
        <4>2. QED
          BY <1>12, <2>1, <3>1, <4>1
      <3>2. CASE from < Place(k, K)
        <4>1. from + (Place(k, K) - from) = Place(k, K)
          BY <1>4, <1>5
        <4>2. QED
          BY <1>11, <1>12, <2>1, <2>3, <3>2, <4>1
      <3>3. QED
        BY <1>4, <1>5, <3>1, <3>2
    <2>4. QED
      BY <2>2, <2>3
  <1>16. more <=> last < reader.total
    BY <1>5, <1>8, <1>10 DEF more, HasMore, from
  <1>17. Keys' = K
    BY <1>1 DEF K, Keys, KeysOf, Key
  <1>18. reader'.shown = shown
    BY <1>2
  <1> HIDE DEF shown
  <1>19. WalkHolds'
    <2> SUFFICES ASSUME more
                 PROVE  WalkHolds'
      BY <1>2 DEF WalkHolds
    <2>1. last = from + Limit
      BY <1>3, <1>5, <1>8, <1>16
    <2>2. reader'.pc = "walking" /\ reader'.offset = last /\ last \in 0 .. N
      BY <1>2, <1>3, <1>5, <1>8, <2>1
    <2>3. Cardinality(K) = N
      BY <1>3
    <2>4. QED
      BY <1>2, <1>5, <1>12, <1>14, <1>15, <1>17, <1>18, <2>2, <2>3 DEF WalkHolds
  <1>20. PagesCoverList'
    <2> SUFFICES ASSUME ~more
                 PROVE  /\ reader.squeezed \/ reader.wanted \subseteq ToSet(shown)
                        /\ reader.added \/ IsInjective(shown)
      BY <1>2, <1>18 DEF PagesCoverList
    <2>1. ASSUME ~reader.squeezed PROVE reader.wanted \subseteq ToSet(shown)
      <3>1. last = N
        BY <1>3, <1>5, <1>8, <1>16, <2>1
      <3>2. \A k \in K : Place(k, K) <= last
        BY <1>3, <1>4, <3>1
      <3>3. QED
        BY <1>5, <1>14, <3>2
    <2>2. ASSUME ~reader.added PROVE IsInjective(shown)
      <3>1. DOMAIN shown = 1 .. last
        BY <1>12, <1>15, <2>2
      <3>2. ASSUME NEW i \in 1 .. last, NEW j \in 1 .. last, shown[i] = shown[j]
            PROVE  i = j
        <4>1. i \in 1 .. N /\ j \in 1 .. N /\ i <= last /\ j <= last
          BY <1>3, <1>5, <1>8
        <4>2. PICK k \in K, l \in K : Place(k, K) = i /\ Place(l, K) = j
          BY <1>4, <4>1
        <4>3. k[2] = l[2]
          BY <1>15, <2>2, <3>2, <4>1, <4>2
        <4>4. k = l
          <5>1. \A e, f \in expenses : Key(e)[2] = Key(f)[2] => e = f
            BY DEF Key, Numbered
          <5>2. QED
            BY <4>3, <5>1 DEF K, Keys, KeysOf
        <4>5. QED
          BY <4>2, <4>4
      <3>3. QED
        BY <3>1, <3>2 DEF IsInjective
    <2>3. QED
      BY <2>1, <2>2
  <1>21. QED
    BY <1>19, <1>20

\* Every step keeps it.
LEMMA PagesStep ==
  ASSUME BooksInv, BooksInv', PagesInv, [Next]_vars
  PROVE  PagesInv'
  <1>1. ExpensesFit /\ ExpensesFit' /\ ClerksHere /\ ReaderFits
    BY DEF BooksInv
  <1>2. Numbered /\ Numbered' /\ WalkHolds /\ PagesCoverList
    BY <1>1, NumberedStep DEF PagesInv
  <1>3. CASE Quiet
    <2>1. UNCHANGED <<expenses, reader>>
      BY <1>3 DEF Quiet
    <2>2. QED
      BY <1>1, <1>2, <2>1, WalkBesides DEF PagesInv
  <1>4. CASE \E t \in Tills : Complete(t)
    <2>1. UNCHANGED expenses /\ reader' = [reader EXCEPT !.sold = TRUE]
      BY <1>4 DEF Complete, expenseVars
    <2>2. \A f \in {"pc", "kind", "wanted", "total", "offset", "shown", "added", "moved", "squeezed"} :
            reader'[f] = reader[f]
      BY <1>1, <2>1 DEF ReaderFits, Fields
    <2>3. QED
      BY <1>1, <1>2, <2>1, <2>2, WalkBesides DEF PagesInv
  <1>5. CASE \E w \in Clerks : Record(w) \/ Change(w)
    BY <1>1, <1>2, <1>5, WalkAfterRecord, WalkAfterChange DEF PagesInv
  <1>6. CASE ReadFirst \/ ReadSecond
    <2>1. (ReadFirst => reader'.pc = "read") /\ (ReadSecond => reader.pc = "read" /\ reader'.pc = "done")
      BY <1>1 DEF ReadFirst, ReadSecond, NotReading, ReaderFits, Fields
    <2>2. ReadSecond => reader'.kind # "none"
      BY <1>1 DEF ReadSecond, ReaderFits, Fields, Figures, SalesFigures
    <2>3. QED
      BY <1>2, <1>6, <2>1, <2>2 DEF PagesInv, WalkHolds, PagesCoverList
  <1>7. CASE BeginWalk \/ Count \/ ReadPage
    BY <1>1, <1>2, <1>7, WalkBegins, WalkCounts, WalkReads DEF PagesInv
  <1>8. QED
    BY <1>3, <1>4, <1>5, <1>6, <1>7, Steps DEF Commits, Reads

\* The inductive invariant of a walk: what it has shown so far, row by row.
THEOREM PagesInductive == BooksSpec => [](BooksInv /\ PagesInv)
  <1>1. BooksInit => PagesInv
    BY PagesInit
  <1>2. BooksInv /\ BooksInv' /\ PagesInv /\ [Next]_vars => PagesInv'
    BY PagesStep
  <1>3. QED
    BY <1>1, <1>2, BooksInductive, PTL DEF BooksSpec

\* A walk through the pages of list_expenses shows every expense there was when it began,
\* unless one was dated anew or slipped in between a count and its page, and shows none
\* twice, unless one was added: for any rows, length of the pages and clerks.
THEOREM PagesAlwaysCover == BooksSpec => []PagesCoverList
  <1>1. PagesInv => PagesCoverList
    BY DEF PagesInv
  <1>2. QED
    BY <1>1, PagesInductive, PTL
=============================================================================
