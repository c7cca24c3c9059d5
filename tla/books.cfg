SPECIFICATION BooksSpec
CONSTANTS
  o1 = o1 o2 = o2 till1 = till1 till2 = till2
  ann = ann bob = bob rent = rent rice = rice tea = tea
  Orders = {o1, o2}
  Products = {rice, tea}
  LineTotal <- MCLineTotal
  Tills = {till1, till2}
  Clerks = {ann, bob}
  Categories = {rent}
  Amounts = {5}
  Limit = 1
  LastDay = 2
  LastRequest = 5
CHECK_DEADLOCK FALSE
SYMMETRY Symmetry
INVARIANTS FiguresAgree PagesCoverList
