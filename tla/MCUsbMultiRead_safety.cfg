SPECIFICATION SafetySpec
CONSTANTS
  NumberOfL2Buffers = 2
  NumOfRetriesOnError = 1
  ContinueOnDataError = FALSE
  DispatchThread = dispatch
  Requesters = {dispatch, interrupt}
  MaxFrames = 3
  MaxBadTransfers = 3
  MaxReadIrps = 2
  MaxInline = 1
  MaxRequests = 3
  MaxPurges = 0
  MaxCancels = 1
CHECK_DEADLOCK FALSE
INVARIANTS TypeOK InFlightIsPending NoIrpAfterExit ResetIsQuiet
PROPERTIES OnlyStaleBreaks ImplementsChannel
