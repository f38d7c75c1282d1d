SPECIFICATION Spec
CONSTANTS
  a = a
  b = b
  Stations = {a, b}
  SeqMod = 4
  Ring = 1
  SackRange = 0
  CountMax = 3
  MaxRetransmit = 1
  ConnectRetries = 1
  KeepaliveTicks = 1
  HandshakeTicks = 1
  SessionTicks = 2
  Callers = {a}
  Listeners = {b}
  Senders = {a, b}
  BulkSenders = {a}
  MaxConnects = 2
  MaxPayload = 2
INVARIANTS ReliableInOrder DrainDeliversEverything QueueIsCurrent
CHECK_DEADLOCK FALSE
