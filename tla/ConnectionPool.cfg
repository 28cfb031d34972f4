SPECIFICATION PoolSpec
CONSTANTS
  Threads = {t1, t2, t3}
  Conns = {c1, c2, c3, c4}
  NullConn = NullConn
  MaxDepth = 2
SYMMETRY Symmetry
INVARIANTS
  OneOwner
  NoLostWakeup
  NotAllWaiting
