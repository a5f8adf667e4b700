SPECIFICATION LiveSpec
CONSTANTS
  NumberOfL2Buffers = 2
  NumOfRetriesOnError = 0
  ContinueOnDataError = FALSE
  DispatchThread = dispatch
  Requesters = {dispatch, interrupt}
  MaxFrames = 2
  MaxBadTransfers = 2
  MaxReadIrps = 2
  MaxInline = 0
  MaxRequests = 2
  MaxPurges = 1
  MaxCancels = 1
CHECK_DEADLOCK FALSE
PROPERTIES RequestsEnd NoKickIsLost PurgeEnds
