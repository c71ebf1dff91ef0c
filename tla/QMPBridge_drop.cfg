CONSTANTS
  Calls = {t1}
  Conns = {c1, c2}
  NoConn = NoConn
  MaxAttempts = 2
  MaxStart = 2
  MaxMiss = 0
  MaxDisc = 0
SPECIFICATION BridgeFairSpec
PROPERTY Reconnects
