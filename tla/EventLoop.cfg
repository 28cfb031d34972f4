SPECIFICATION FairSpec
CONSTANTS
  Fds = {f1, f2}
  Clients = {c1, c2}
  NoClient = NoClient
  Workers = {w1}
  Modes = {"proactor", "reactor"}
  Lifetime = 1
  PurgeLimit = 2
  MaxUsers = 2
  MaxRequests = 1
  MaxCancelled = 2
INVARIANTS
  TypeOK
  OneTimerEach
  CountsAgree
  OneAtATime
  ProactorClosesInactive
PROPERTIES
  WaitEnds
  StuckEnds
