SPECIFICATION FairSpec
CONSTANTS
  Creator = {"t1", "t2"}
  Queues = 2
  Taps = 2
  Foreign = {0}
  BaseLen = 13
  Bridged = TRUE
  MaxFaults = 2
CHECK_DEADLOCK FALSE
INVARIANTS
  TypeOK
  OwnDevice
  TapWhole
  NoLeftovers
PROPERTIES
  EveryTapMade
