CONSTANTS
  HeaderSize = 2
  Conns = {c1, c2}
  Addrs = {a1, a2}
  Workers = {w1}
  MaxQueueSize = 1
  BodySize = 1
  MaxRequests = 2
  Env = {"close", "pipeline", "malformed", "stall"}
  Null = Null
SPECIFICATION Spec
INVARIANTS TypeOK CallbackOnLiveSession StaleOnlyAfterClose OneRequestInFlight RepliesMatchRequests FaultNeedsAbandonedRequest
PROPERTIES PoolIsTaskService
SYMMETRY Symmetry
CHECK_DEADLOCK FALSE
