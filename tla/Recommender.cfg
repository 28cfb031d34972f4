SPECIFICATION RSpec
CONSTANTS
    Clients = {c1, c2}
    Readers = {r1, r2}
    Via = {"local", "grpc"}
    MaxBook = 3
    Stocked = 2
    Limit = 1
    Creations <- MCCreations
    Updates <- MCUpdates
    MaxRequests = 3
    MaxFaults = 1
    Absent = Absent
    NoRow = NoRow
INVARIANTS
    TypeOK
    StocksInStep
    PartialKeepsStock
    SimilarComplete
SYMMETRY MCSymmetry
CHECK_DEADLOCK FALSE
