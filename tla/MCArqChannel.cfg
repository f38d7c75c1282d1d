SPECIFICATION FairSpec
CONSTANTS
  SeqMod = 8
  Ring = 2
  SackRange = 1
  CountMax = 4
  Window = 2
  MaxRetransmit = 1
  MaxLag = 3
  MaxSegments = 10
INVARIANTS DeliveredInOrder AckedWasReceived IndInv
PROPERTIES ImplementsFifo AckedOrGivenUp
CHECK_DEADLOCK FALSE
