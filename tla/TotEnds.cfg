SPECIFICATION FairSpec
CONSTANTS
  Workers = {w1, w2}
  NoWorker = NoWorker
  NumOps = 7
  Multiplier = 2
  Orderings = {"serial", "loose"}
  MayAbort = TRUE
PROPERTIES WaitedInOrder EveryOpEnds
