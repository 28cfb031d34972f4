SPECIFICATION Spec
CONSTANTS
  Fds = {f1, f2}
  Clients = {c1, c2}
  NoClient = NoClient
  Workers = {w1}
  Modes = {"proactor"}
  Lifetime = 3
  PurgeLimit = 4
  MaxUsers = 2
  MaxRequests = 1
  MaxCancelled = 4
SYMMETRY Symmetry
INVARIANTS
  TickClosesExpired
