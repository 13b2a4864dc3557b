CONSTANTS
  MyContext = MyContext
  OtherContext = OtherContext
  INVALID_ID = INVALID_ID
  RIDBits = 2
  ReservedMax = 1
  ExplicitHandles <- MCExplicitHandles
  Sizes = {0, 1}
  UninitValues = {FALSE, TRUE}
  DispatchCanFail = FALSE
SPECIFICATION Spec
VIEW HistoryFreeView
CONSTRAINT StateBound
INVARIANT
  RemoteEntriesAttachedOutsideHibernation
