SPECIFICATION Spec
CONSTANTS
  Workers = {w1, w2}
  Books = {b1, b2}
  MaxQuantity = 2
  MaxItems = 2
  MaxOrders = 2
  MaxStock = 2
  MaxFaults = 0
  MaxCrashes = 0
INVARIANTS
  CancelReleasesOnce
