SPECIFICATION FairSpec
CONSTANTS
  a = a
  b = b
  Stations = {a, b}
  SeqMod = 4
  Ring = 1
  SackRange = 0
  CountMax = 3
  MaxRetransmit = 1
  ConnectRetries = 1
  KeepaliveTicks = 2
  HandshakeTicks = 1
  SessionTicks = 3
  Callers = {a}
  Listeners = {b}
  Senders = {a}
  BulkSenders = {}
  MaxConnects = 1
  MaxPayload = 1
PROPERTIES HandshakeEnds DisconnectEnds
CHECK_DEADLOCK FALSE
