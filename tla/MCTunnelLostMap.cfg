SPECIFICATION Spec
CONSTANTS
  NumQueues = 2
  Endpoint = {"a", "b"}
  Allowed = {"a", "b"}
  Default = NoEndpoint
  NoEndpoint = NoEndpoint
  PortZero = {}
  Storable <- AnyTwo
  MapCapacity = 1
  EpollMax = 2
  QueueLen = 1
  MaxInputs = 4
  AllocMayFail = FALSE
  IoMayFail = FALSE
CHECK_DEADLOCK FALSE
INVARIANTS
  OneTapPerEndpoint
