SPECIFICATION Spec
CONSTANTS
  Creator = {"t1", "t2"}
  Queues = 2
  Taps = 1
  Foreign = {0}
  BaseLen = 13
  Bridged = FALSE
  MaxFaults = 0
CHECK_DEADLOCK FALSE
INVARIANTS
  OwnDevice
