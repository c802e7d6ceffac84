SPECIFICATION Spec
CONSTANTS
  Writers = {w1}
  RingSize = 2
  MaxSend = 5
  Window = 5
  w1 = w1
INVARIANTS TypeOK InOrder SingleWriterInv
PROPERTIES ImplementsChannel
CHECK_DEADLOCK FALSE
