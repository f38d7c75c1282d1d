SPECIFICATION Spec
CONSTANTS
  a = a
  b = b
  Stranger = Stranger
  NoSlot = NoSlot
  Stations = {a, b}
  SeqMod = 4
  Ring = 1
  SackRange = 0
  CountMax = 7
  MaxRetransmit = 1
  Grant = 4
  NoEvidenceTicks = 3
  KeepaliveTicks = 1
  HandshakeTicks = 1
  SessionTicks = 2
  DisconnectTicks = 1
  Slots = {0, 1}
  FadeProtection <- FadeRequested
  Callers = {a}
  Senders = {a}
  MayAbort = TRUE
  MaxCalls = 2
  MaxPayload = 2
INVARIANTS ReliableInOrder DrainDeliversEverything BufferIsHonest HoldStaysLive OneSession NothingParked
PROPERTIES ImplementsHost
CHECK_DEADLOCK FALSE
