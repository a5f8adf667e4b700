SPECIFICATION FairSpec
CONSTANTS
  a = a  b = b c = c d = d None = None
  NBL <- LiveLists NumNB <- Counts Size <- Sizes CancelId <- Ids Unreadable <- NoData
  UplinkTLPSize = 7 MaxTLPPackets = 2 NumTLPBuffers = 2
  QMAPEnabledV4 = FALSE MediaConnected = FALSE
  Scenarios <- LiveBeginnings
CHECK_DEADLOCK FALSE
PROPERTIES NothingStalls
