SPECIFICATION OpenedSpec
CONSTANTS
  t1 = t1 t2 = t2 t3 = t3 t4 = t4 t5 = t5 tea = tea rice = rice piece = piece o1 = o1 o2 = o2 o3 = o3
  Txns = {t1, t2, t4, t5}
  Products = {tea, rice}
  Units = {piece}
  BaseUnit = piece
  Factor <- MCFactor
  StockUnits <- AllUnits
  Keys <- MCKeys
  NoKey = NoKey
  Free = Free
  Requests <- OneReceipt
  Orders = {o1, o2, o3}
  FirstItems = {1, 2, 3}
  MaxItems = 4
  Price <- MCPrice
  SalesUnits <- AllUnits
  Recipe <- MCRecipe
  Yields <- MCYields
  Quantities = {4}
  Extras <- MCExtras
  Edits = {"add", "update", "remove"}
  OneAtATime = TRUE
CHECK_DEADLOCK FALSE
SYMMETRY Symmetry
INVARIANTS DeskTypeOK TotalIsSumOfLines SettledInFull
PROPERTY CompletedIsFinal
