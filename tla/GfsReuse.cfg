SPECIFICATION Spec
CONSTANTS
  NumOps = 2
  MaxMarkers = 0
  Threads = FALSE
  Faults = {"dsi"}
INVARIANT AssertionsAreRight
