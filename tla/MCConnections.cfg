CONSTANTS
  Calls = {t1, t2}
  Conns = {c1, c2, c3}
  NoConn = NoConn
  MaxAttempts = 2
  MaxStart = 2
  MaxMiss = 1
  MaxDisc = 1
  Nodes = {n1, n2}
  Clients = {r1, r2}
  Cleaner = Cleaner
  Stopper = Stopper
  NoHolder = NoHolder
  NoRoute = NoRoute
  MaxConns = 2
  MaxTries = 1
  MaxSends = 1
SPECIFICATION ConnectionsSpec
INVARIANTS ConnectionsTypeOK InStep RouteOwned
PROPERTIES CallsEnd Settles ConnectGivesLive ShutdownEnds
CHECK_DEADLOCK FALSE
