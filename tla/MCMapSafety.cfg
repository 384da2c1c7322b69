SPECIFICATION Spec
CONSTANTS
  Endpoint = {"peer1", "peer2", "peer4"}
  Ghost = {"ghost"}
  Addr <- MCAddr
  Port <- MCPort
  Nonce <- Nonces4
  TapId = {0, 1}
  Absent = Absent
  InitBits = 1
  MaxBits = 2
  AllocMayFail = TRUE
  Readd = FALSE
INVARIANTS
  TypeOK
  LookupFindsBinding
  CountExact
PROPERTIES
  ImplementsDict
  EndlessRehash
