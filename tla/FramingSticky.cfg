CONSTANTS
  HeaderSize = 2
  Sizes = {1}
  Types = {"kPhoneReq"}
  MaxFrames = 2
SPECIFICATION FairSpec
PROPERTIES EveryFrameSettled
CHECK_DEADLOCK FALSE
