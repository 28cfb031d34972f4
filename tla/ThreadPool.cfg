SPECIFICATION FairSpec
CONSTANTS
  Threads = {t1, t2}
  Conns = {c1, c2, c3, c4, c5}
  NullConn = NullConn
  MaxDepth = 3
  Requests = {r1, r2}
  NoRequest = NoRequest
  MaxRequests = 1
  MaxCalls = 3
INVARIANTS
  TypeOK
  NothingLeftBehind
PROPERTIES
  QueuedIsTaken
  StopEndsWorkers
