SPECIFICATION Spec
CONSTANTS
  QueueDepth = 2
  NumBlocks = 3
  ChanCap = 1
  Faults = {"none"}
INVARIANT RestartFileIsSafe
