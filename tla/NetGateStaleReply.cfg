CONSTANTS
  HeaderSize = 2
  Conns = {c1, c2}
  Addrs = {a1, a2}
  Workers = {w1}
  MaxQueueSize = 1
  BodySize = 1
  MaxRequests = 1
  Env = {"close"}
  Null = Null
SPECIFICATION Spec
INVARIANTS ReplyToRequester
CHECK_DEADLOCK FALSE
