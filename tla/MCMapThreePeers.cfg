SPECIFICATION FairSpec
CONSTANTS
  Endpoint = {"peer1", "peer2", "peer3"}
  Ghost = {}
  Addr <- MCAddr
  Port <- MCPort
  Nonce <- Nonces4
  TapId = {0}
  Absent = Absent
  InitBits = 5
  MaxBits = 5
  AllocMayFail = FALSE
  Readd = FALSE
PROPERTIES
  AddTerminates
