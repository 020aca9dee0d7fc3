CONSTANTS
  HeaderSize = 2
  Sizes = {0, 1, 3}
  Types = {"kPhoneReq", "kPhoneRes"}
  MaxFrames = 3
SPECIFICATION Spec
INVARIANTS TypeOK Aligned BufferFits DropsOnlyForCause
CHECK_DEADLOCK FALSE
