SPECIFICATION Spec
CONSTANTS
  NPages = 3
  PageShift = 3
  MinShift = 0
  ByteBits = 2
  WordBytes = 2
  SlabSizes = {1, 2, 3, 8, 12}
  SlabProcs = {p1, p2}
  MaxLive = 4
  PoolPageSize = 12
  PageHeader = 2
  PoolAlign = 2
  LevelSize = 2
  PoolSizes = {1, 4, 12}
  MaxLevels = 3
  MaxBlocks = 5
  NWatchers = 2
  NCoros = 1
  MaxHandlerSets = 1
INVARIANTS SlabNoOverlap SlabConsistent PoolIntact WatcherHeld WatcherRunsOwn
CHECK_DEADLOCK FALSE
SYMMETRY ProcSymmetry
