CONSTANTS
  HeaderSize = 10
  Identifiers = {1, 2}
  PhoneResSize = 4
  LoginResSize = 2
  MaxRequests = 3
SPECIFICATION FairSpec
INVARIANTS TypeOK InStep WholeMeansAccepted
PROPERTIES Completes
CHECK_DEADLOCK FALSE
