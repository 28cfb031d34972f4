SPECIFICATION Spec
CONSTANTS
  Workers = {w1, w2}
  Books = {b1}
  Users = {u1}
  Gateway = Gateway
  Ids <- MCIds
  MaxIds = 3
  MaxQuantity = 2
  MaxStock = 2
  MaxOrders = 2
  MaxFaults = 0
  MaxRestarts = 0
INVARIANTS
  CancelReleasesStock
