SPECIFICATION MCFairSpec
CONSTANTS
  MaxListeners = 3
  Priorities <- MCPriorities
  Permits = {"CANCEL", "PAUSE", "DELAY"}
  Uses = {"nested", "resume"}
  DebugEvents = FALSE
  MaxPublish = 2
  MaxDelays = 2
INVARIANTS ListenersOrdered NextInOrder OneOwner
PROPERTIES Completes
CHECK_DEADLOCK FALSE
