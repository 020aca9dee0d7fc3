CONSTANTS
  Threads = {t1, t2}
  kMinCount = 1
  kMaxCount = 1
  Sessions = {s1, s2}
  Phones = {"p1"}
  Identifiers = {1}
  MaxLogins = 2
  Null = Null
SPECIFICATION LoginSpec
PROPERTIES FailedInsertIsReported
CHECK_DEADLOCK FALSE
