SPECIFICATION HistorySpec
CONSTANTS
  Sockets = {k1, k2}
  Msgs = {m1, m2}
  None = None
  MaxConn = 2
CHECK_DEADLOCK FALSE
INVARIANTS TypeOK PresenceIsTrue CopiesBounded
PROPERTIES NothingLostWhileConnected BubbleResolves
