SPECIFICATION Spec
CONSTANTS
  NWorkers = 2
  Faults = {"init", "spawn", "crash", "stop_one"}
  MaxRequests = 2
  MaxInbox = 1
INVARIANTS LeavesInOrder EventsOnce StartedMeansRunning
PROPERTIES StatesAdvance
CHECK_DEADLOCK FALSE
