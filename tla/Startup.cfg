CONSTANTS
  Main = Main
  Workers = {w1, w2}
  Faults = {"none", "file", "database", "server"}
  MinSizes <- MCMinSizes
  MaxSizes = {0, 2}
  Word = 4
  MaxLogins = 2
SPECIFICATION FairSpec
INVARIANTS TypeOK OnePool ReadyInTime
PROPERTIES StartupSettles LoginsHandled
CHECK_DEADLOCK FALSE
