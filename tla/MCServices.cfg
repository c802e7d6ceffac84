SPECIFICATION Spec
CONSTANTS
  Services = {"server", "resolver"}
  NServers = 2
  NSWorkers = 2
  ServerFaults = {"socket", "host", "listen", "timeout", "resolve", "stop"}
  NRequests = 3
  MaxTries = 1
  NSockets = 2
INVARIANTS ServerSound ResolverSound
PROPERTIES ServerStopCompletes ServerStartEnds ResolverAnswers
CHECK_DEADLOCK FALSE
