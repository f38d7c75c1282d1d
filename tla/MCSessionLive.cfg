SPECIFICATION FairSpec
CONSTANTS
  a = a
  b = b
  Stranger = Stranger
  NoSlot = NoSlot
  Stations = {a, b}
  SeqMod = 4
  Ring = 1
  SackRange = 0
  CountMax = 4
  MaxRetransmit = 1
  Grant = 2
  NoEvidenceTicks = 1
  KeepaliveTicks = 1
  HandshakeTicks = 1
  SessionTicks = 2
  DisconnectTicks = 1
  Slots = {0}
  FadeProtection <- FadeRequested
  Callers = {a}
  Senders = {a}
  MayAbort = FALSE
  MaxCalls = 1
  MaxPayload = 1
PROPERTIES HandshakeEnds  
CHECK_DEADLOCK FALSE
