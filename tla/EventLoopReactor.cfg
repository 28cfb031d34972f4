SPECIFICATION Spec
CONSTANTS
  Fds = {f1, f2}
  Clients = {c1, c2}
  NoClient = NoClient
  Workers = {w1}
  Modes = {"reactor"}
  Lifetime = 3
  PurgeLimit = 2
  MaxUsers = 2
  MaxRequests = 1
  MaxCancelled = 2
SYMMETRY Symmetry
INVARIANTS
  ClosesInactive
