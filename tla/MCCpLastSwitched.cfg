SPECIFICATION Spec
CONSTANTS
  a = a
  b = b
  Stations = {a, b}
  Proposers = {a}
  SeqMod = 8
  Ring = 2
  SackRange = 1
  CountMax = 7
  MaxRetransmit = 2
  LossyLegs = {"switched"}
  ProbationOutlasts = TRUE
  MaxLosses = 0
  MaxFlips = 1
  MaxResets = 0
INVARIANTS Converged
CHECK_DEADLOCK FALSE
