SPECIFICATION Spec
CONSTANTS
  Workers = {w1, w2, w3}
  NoWorker = NoWorker
  NumOps = 8
  Multiplier = 1
  Orderings = {"loose"}
  MayAbort = TRUE
INVARIANTS TypeOK WaiterWillBeReleased ReleaseIsForOneWait
SYMMETRY Symmetry
