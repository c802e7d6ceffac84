SPECIFICATION FairSpec
CONSTANTS
  NWorkers = 2
  Faults = {"spawn", "crash", "lua", "signal"}
  MaxRequests = 1
  MaxInbox = 2
PROPERTIES StopCompletes StopReachesMaster StartCompletes
CHECK_DEADLOCK FALSE
