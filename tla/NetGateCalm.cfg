CONSTANTS
  HeaderSize = 2
  Conns = {c1, c2}
  Addrs = {a1, a2}
  Workers = {w1, w2}
  MaxQueueSize = 2
  BodySize = 1
  MaxRequests = 2
  Env = {"close"}
  Null = Null
SPECIFICATION FairSpec
INVARIANTS FaultOnlyAfterHangUp
PROPERTIES EveryRequestAnswered SessionsReleased
CHECK_DEADLOCK FALSE
