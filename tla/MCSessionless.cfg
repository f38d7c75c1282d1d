SPECIFICATION Spec
CONSTANTS
  a = a
  b = b
  Stations = {a, b}
  SeqMod = 8
  Ring = 2
  SackRange = 1
  CountMax = 3
  MaxRetransmit = 1
  Window = 2
  RaiseDwell = 2
  ProbeInterval = 2
  ProbeOffset = 1
  Band <- Bands
  InitLevel <- Levels
  WideFrom = 2
  HfTop = 2
  VhfTop = 3
  Payloads <- Submissions
  Rates = {1, 3}
  Pins <- Pinned
  ResetAt = {a}
  MaxResets = 1
INVARIANTS ReliableInOrder BufferIsHonest LevelInForce NothingParked
CHECK_DEADLOCK FALSE
