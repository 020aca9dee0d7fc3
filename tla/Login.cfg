CONSTANTS
  Threads = {t1, t2, t3}
  kMinCount = 1
  kMaxCount = 2
  Sessions = {s1, s2, s3}
  Phones = {"p1"}
  Identifiers = {1}
  MaxLogins = 4
  Null = Null
SPECIFICATION LoginSpec
INVARIANTS LoginTypeOK SuccessIsRegisteredUnlessTrouble DuplicatesBounded
SYMMETRY Symmetry
CHECK_DEADLOCK FALSE
