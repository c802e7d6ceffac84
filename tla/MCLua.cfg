SPECIFICATION Spec
CONSTANTS
  Parts = {"atomic", "ipc", "copy"}
  AtomicProcs = {p1, p2}
  AtomicTypes = {"nil", "scalar", "integer", "string", "empty", "table"}
  AtomicFresh = {0, 4}
  MaxAtomicOps = 4
  MaxStrings = 3
  NLuaWorkers = 2
  MaxLuaMsgs = 1
  LuaStops = TRUE
  LuaHeaps <- MCHeaps
  CopyDests = {"d1"}
  MaxCopies = 2
  CIntBits = 2
INVARIANTS AtomicStringsFreed AtomicSound LuaExactlyOnce CopyIsExact PackIsFaithful
PROPERTIES LuaAnswered
CHECK_DEADLOCK FALSE
