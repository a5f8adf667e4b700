SPECIFICATION WriteSpec
CONSTANTS
  b1 = b1
  b2 = b2
  pMwtBuffer <- TwoBuffers
  Packets <- PacketCounts
  FullPacket <- FullPackets
  NumOfRetriesOnError = 1
  ContinueOnDataError = FALSE
  MaxFailures = 2
  MaxIrpCancels = 2
  MaxFlows = 3
  MaxTimeouts = 1
  MaxStops = 1
  MaxPurges = 1
  MaxCancels = 1
CHECK_DEADLOCK FALSE
INVARIANTS NoIrpUsedAfterCompletion
