SPECIFICATION OpenedSpec
CONSTANTS
  t1 = t1 t2 = t2 t3 = t3 t4 = t4 t5 = t5 tea = tea rice = rice piece = piece o1 = o1 o2 = o2 o3 = o3
  Txns = {t1, t2, t3, t4, t5}
  Products = {tea, rice}
  Units = {piece}
  BaseUnit = piece
  Factor <- MCFactor
  StockUnits <- AllUnits
  Keys <- MCKeys
  NoKey = NoKey
  Free = Free
  Requests = {}
  Orders = {o1}
  FirstItems = {1}
  MaxItems = 1
  Price <- MCPrice
  SalesUnits <- AllUnits
  Recipe <- MCRecipe
  Yields <- MCYields
  Quantities = {12}
  Extras = {0}
  Edits = {"update"}
  OneAtATime = FALSE
CHECK_DEADLOCK FALSE
SYMMETRY Symmetry
INVARIANTS ReceiptNumbersInOrder PaidLinesMoved NothingMovedUnpaid
