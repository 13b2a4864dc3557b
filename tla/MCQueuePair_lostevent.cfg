CONSTANTS
  MyContext = MyContext
  OtherContext = OtherContext
  INVALID_ID = INVALID_ID
  RIDBits = 2
  ReservedMax = 1
  ExplicitHandles <- MCOwnHandles
  Sizes = {0, 1}
  UninitValues = {FALSE, TRUE}
  DispatchCanFail = TRUE
SPECIFICATION Spec
INVARIANT
  PeerGoneNotified
