SPECIFICATION FairSpec
CONSTANTS
  Endpoint = {"peer1", "peer2", "v6"}
  Ghost = {}
  Addr <- MCAddr
  Port <- MCPort
  Nonce <- NoncesWide
  TapId = {0}
  Absent = Absent
  InitBits = 9
  MaxBits = 9
  AllocMayFail = FALSE
  Readd = FALSE
INVARIANTS
  LookupFindsBinding
PROPERTIES
  FittingAddReturns
