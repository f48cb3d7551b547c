SPECIFICATION FairSpec
CONSTANTS
  NumTargets = 2
  Passes = 2
  StopOnError = TRUE
  RunTime = FALSE
  InitMayFail = FALSE
  MayCancel = FALSE
  ReopenMayFail = FALSE
  MaxPass = 2
PROPERTY RunResultsShown
CHECK_DEADLOCK FALSE
