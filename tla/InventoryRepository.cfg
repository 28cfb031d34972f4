SPECIFICATION Spec
CONSTANTS
  Sessions = {s1, s2}
  Free = Free
  Books = {b1, b2}
  Ids = {r1, r2}
  MaxQuantity = 2
  MaxStock = 2
  MaxItems = 2
SYMMETRY Symmetry
INVARIANTS
  TypeOK
  LookupStillHolds
  WorkIsPublishable
  Conservation
PROPERTIES
  OkMeansReserved
  LedgerSpec
