SPECIFICATION MCSpec
CONSTANTS
  MaxListeners = 2
  Priorities = {0}
  Permits = {"DELAY"}
  Uses = {"resume"}
  DebugEvents = TRUE
  MaxPublish = 1
  MaxDelays = 2
INVARIANTS StateAsExpected
CHECK_DEADLOCK FALSE
