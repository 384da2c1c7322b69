SPECIFICATION FairSpec
CONSTANTS
  NumQueues = 2
  Endpoint = {"a", "b", "c", "d"}
  Allowed = {"a", "b"}
  Default = "d"
  NoEndpoint = NoEndpoint
  PortZero = {}
  Storable <- AnyTwoAndDefault
  MapCapacity = 32
  EpollMax = 2
  QueueLen = 1
  MaxInputs = 4
  AllocMayFail = FALSE
  IoMayFail = FALSE
CHECK_DEADLOCK FALSE
INVARIANTS
  TypeOK
  TableExclusive
  OneTapPerEndpoint
  Routing
  EventTapReady
  NoLostWakeup
  TableFits
  OnlyAdmittedServed
PROPERTIES
  AllowedGetsTap
  Drains
