SPECIFICATION StockedSpec
CONSTANTS
  t1 = t1 t2 = t2 t3 = t3 t4 = t4 t5 = t5 tea = tea rice = rice piece = piece crate = crate
  k1 = k1 k2 = k2 k3 = k3 k4 = k4
  Txns = {t1, t2, t4, t5}
  Products = {tea, rice}
  Units = {piece}
  BaseUnit = piece
  Factor <- MCFactor
  StockUnits <- MCStockUnits
  Keys = {k1, k2, k3, k4}
  NoKey = NoKey
  Free = Free
  Requests <- SaleRequests
CHECK_DEADLOCK FALSE
INVARIANTS BooksBalance AllOrNothing CircularWaitNeedsTwoSales
PROPERTIES RefinesLedger EveryRequestEnds
