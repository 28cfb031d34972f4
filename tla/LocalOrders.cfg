SPECIFICATION Spec
CONSTANTS
  Workers = {w1, w2}
  Books = {b1, b2}
  MaxQuantity = 2
  MaxItems = 2
  MaxOrders = 2
  MaxStock = 2
  MaxFaults = 1
  MaxCrashes = 1
SYMMETRY Symmetry
INVARIANTS
  TypeOK
  NoStockInvented
  NoStockLost
