SPECIFICATION FairSpec
CONSTANTS
  NWorkers = 2
  Faults = {"stop_one"}
  MaxRequests = 2
  MaxInbox = 2
PROPERTIES ForwardedToAll
CHECK_DEADLOCK FALSE
