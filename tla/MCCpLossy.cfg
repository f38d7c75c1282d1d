SPECIFICATION FairSpec
CONSTANTS
  a = a
  b = b
  Stations = {a, b}
  Proposers = {a}
  SeqMod = 8
  Ring = 2
  SackRange = 1
  CountMax = 7
  MaxRetransmit = 2
  LossyLegs = {"propose", "confirm", "ackConfirm"}
  ProbationOutlasts = FALSE
  MaxLosses = 1
  MaxFlips = 2
  MaxResets = 1
INVARIANTS Converged EngineFollowsNegotiator
PROPERTIES NegotiationEnds
CHECK_DEADLOCK FALSE
