SPECIFICATION WriteLiveSpec
CONSTANTS
  b1 = b1
  b2 = b2
  pMwtBuffer <- TwoBuffers
  Packets <- ShortCounts
  FullPacket <- FullPackets
  NumOfRetriesOnError = 1
  ContinueOnDataError = FALSE
  MaxFailures = 1
  MaxIrpCancels = 0
  MaxFlows = 1
  MaxTimeouts = 0
  MaxStops = 1
  MaxPurges = 1
  MaxCancels = 1
CHECK_DEADLOCK FALSE
PROPERTIES QueuedIsSent CallersEnd FlowOffAnswered
