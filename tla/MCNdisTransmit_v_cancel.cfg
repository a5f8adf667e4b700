SPECIFICATION Spec
CONSTANTS
  a = a  b = b c = c d = d None = None
  NBL <- Lists NumNB <- Counts Size <- Sizes CancelId <- Ids Unreadable <- NoData
  UplinkTLPSize = 7 MaxTLPPackets = 2 NumTLPBuffers = 2
  QMAPEnabledV4 = FALSE MediaConnected = TRUE
  Scenarios <- Beginnings
CHECK_DEADLOCK FALSE
INVARIANTS NoneIsForgotten
