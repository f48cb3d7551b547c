SPECIFICATION FairSpec
CONSTANTS
  NumTargets = 3
  Options <- OptionsInOrder
  QueueDepth = 2
  Passes = 1
  MaxOps = 2
  MaxInterval = 2
  MayHalt = TRUE
INVARIANTS TypeOK OneTurn GivenToTheLiving NobodyRunsAhead
PROPERTY EveryPassEnds
CHECK_DEADLOCK FALSE
