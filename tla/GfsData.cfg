SPECIFICATION FairSpec
CONSTANTS
  NumOps = 2
  MaxMarkers = 2
  Threads = FALSE
  Faults = {"register", "connect", "link", "abort", "dsi"}
INVARIANTS TypeOK NoAssertionFails PendingIsLive CompleteIsLast
PROPERTIES EveryRequestIsAnswered SessionEnds
