SPECIFICATION FairSpec
CONSTANTS
  QueueDepth = 2
  BytesPerPass = 5
  XferSize = 2
  Passes = 2
  StopOnError = TRUE
  IoMayFail = TRUE
  ReopenMayFail = TRUE
  TimeLimited = TRUE
INVARIANTS
  TypeOK
  TaskOwnership
  PassDrained
  PassComplete
  LocatorWoken
  SpecificWoken
PROPERTIES
  ImplementsDispatch
  RunEnds
