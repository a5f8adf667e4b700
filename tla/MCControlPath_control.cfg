SPECIFICATION MCSpec
CONSTANTS
    NumOfRetriesOnError = 1
    PrepareRetries = 2
    MaxControlReads = 1
CHECK_DEADLOCK FALSE
INVARIANTS TypeOK ServiceIsQuiet Settled
PROPERTIES RemovalEnds
