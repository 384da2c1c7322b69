SPECIFICATION FairShutdownSpec
CONSTANTS
  NumQueues = 2
  Endpoint = {"a", "b", "d", "z"}
  Allowed = {"a", "b", "z"}
  Default = "d"
  NoEndpoint = NoEndpoint
  PortZero = {"z"}
  Storable <- AnyTwo
  MapCapacity = 1
  EpollMax = 2
  QueueLen = 1
  MaxInputs = 2
  AllocMayFail = TRUE
  IoMayFail = TRUE
CHECK_DEADLOCK FALSE
INVARIANTS
  TableExclusive
PROPERTIES
  ExitEnds
  
