SPECIFICATION Spec
CONSTANTS
  NumQueues = 2
  Endpoint = {"a", "b", "z"}
  Allowed = {"a", "b", "z"}
  Default = NoEndpoint
  NoEndpoint = NoEndpoint
  PortZero = {"z"}
  Storable <- AnyTwo
  MapCapacity = 1
  EpollMax = 2
  QueueLen = 1
  MaxInputs = 4
  AllocMayFail = TRUE
  IoMayFail = TRUE
CHECK_DEADLOCK FALSE
INVARIANTS
  TableExclusive
  LockBalanced
  Routing
  TableFits
PROPERTIES
  TapsAreKept
