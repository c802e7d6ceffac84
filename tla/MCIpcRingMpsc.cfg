SPECIFICATION FairSpec
CONSTANTS
  Writers = {w1, w2}
  RingSize = 2
  MaxSend = 3
  Window = 1
  w1 = w1
  w2 = w2
INVARIANTS NotTorn PointerStored NeverFull
PROPERTIES ImplementsFairChannel
CHECK_DEADLOCK FALSE
