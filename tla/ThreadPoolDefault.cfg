SPECIFICATION FairSpec
CONSTANTS
  Threads = {t1, t2}
  Conns = {c1, c2}
  NullConn = NullConn
  MaxDepth = 2
  Requests = {r1, r2}
  NoRequest = NoRequest
  MaxRequests = 1
  MaxCalls = 2
PROPERTIES
  StopEndsWorkers
