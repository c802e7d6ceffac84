SPECIFICATION Spec
CONSTANTS
  Writers = {w1, w2}
  RingSize = 2
  MaxSend = 3
  Window = 3
  w1 = w1
  w2 = w2
SYMMETRY WriterSymmetry
INVARIANTS InOrder
CHECK_DEADLOCK FALSE
