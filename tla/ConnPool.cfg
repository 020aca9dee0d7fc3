CONSTANTS
  Threads = {t1, t2, t3, t4}
  kMinCount = 1
  kMaxCount = 2
SPECIFICATION FairSpec
INVARIANTS TypeOK ExclusiveUse CountIsExact NoLostWakeup
PROPERTIES RefusedOnlyWhenExhausted RequestReturns
