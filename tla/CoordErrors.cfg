SPECIFICATION Spec
CONSTANTS
  NumTargets = 3
  Passes = 1
  StopOnError = TRUE
  RunTime = FALSE
  InitMayFail = TRUE
  MayCancel = TRUE
  ReopenMayFail = FALSE
  MaxPass = 1
INVARIANTS TypeOK ExitStatusTells CleanedUpAtExit
