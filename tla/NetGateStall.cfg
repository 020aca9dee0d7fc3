CONSTANTS
  HeaderSize = 2
  Conns = {c1}
  Addrs = {a1}
  Workers = {w1}
  MaxQueueSize = 1
  BodySize = 1
  MaxRequests = 1
  Env = {"stall"}
  Null = Null
SPECIFICATION FairSpec
PROPERTIES StalledReleased
CHECK_DEADLOCK FALSE
