CONSTANTS
  Threads = {w1, w2, w3}
  kMaxQueueSize = 2
  Tasks = {t1, t2, t3}
  Silent = {t3}
  QuitTask = QuitTask
  Null = Null
SPECIFICATION FairSpec
INVARIANTS TypeOK NoLostWakeup NoThreadOutlivesPool QueriesAddUp
PROPERTIES ImplementsFairService DestructorEndsUnlessRefused
CHECK_DEADLOCK FALSE
