SPECIFICATION Spec
CONSTANTS
  a = a
  b = b
  Stations = {a, b}
  Proposers = {a, b}
  SeqMod = 8
  Ring = 2
  SackRange = 1
  CountMax = 7
  MaxRetransmit = 2
  LossyLegs = {}
  ProbationOutlasts = FALSE
  MaxLosses = 1
  MaxFlips = 5
  MaxResets = 1
INVARIANTS Converged NoOrphanLeg
CHECK_DEADLOCK FALSE
