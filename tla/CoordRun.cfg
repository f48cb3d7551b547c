SPECIFICATION FairSpec
CONSTANTS
  NumTargets = 3
  Passes = 2
  StopOnError = FALSE
  RunTime = TRUE
  InitMayFail = TRUE
  MayCancel = TRUE
  ReopenMayFail = FALSE
  MaxPass = 3
INVARIANTS ResultsOfOnePass PassLockstep
PROPERTY RunEnds
