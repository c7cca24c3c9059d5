SPECIFICATION Spec
CONSTANTS
  t1 = t1 t2 = t2 t3 = t3 t4 = t4 t5 = t5 tea = tea rice = rice piece = piece crate = crate
  k1 = k1 k2 = k2 k3 = k3 k4 = k4
  Txns = {t1, t2, t3}
  Products = {tea, rice}
  Units = {piece, crate}
  BaseUnit = piece
  Factor <- MCFactor
  StockUnits <- MCStockUnits
  Keys = {k1, k2, k3, k4}
  NoKey = NoKey
  Free = Free
  Requests <- SingleRequests
CHECK_DEADLOCK FALSE
SYMMETRY Symmetry
INVARIANTS TypeOK NoOverdraft NeverUnderstated KeyBookedOnce
