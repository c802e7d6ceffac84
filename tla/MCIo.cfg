SPECIFICATION Spec
CONSTANTS
  Kinds = {"plain", "lua", "listener", "fd"}
  IoVectors <- MCVectors
  IoErrors = TRUE
  MaxOps = 3
  MaxConns = 3
  WireMax = 1
  MaxFds = 3
  MaxRefs = 2
  MaxStarts = 3
INVARIANTS IoExact IoWatched OneCompletion FdDelivered
PROPERTIES ListenerServes
CHECK_DEADLOCK FALSE
