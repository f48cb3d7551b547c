SPECIFICATION FairSpec
CONSTANTS
  QueueDepth = 2
  NumBlocks = 2
  ChanCap = 1
  Faults = {"read", "write", "link", "limit", "death"}
INVARIANT TypeOK
INVARIANT LowestOffsetIsSafe
INVARIANT CompleteMeansWritten
PROPERTY CompletionIsFinal
PROPERTY BothEnd
CHECK_DEADLOCK FALSE
