SPECIFICATION Spec
CONSTANTS
  Section = {"s"}
  Iface = {"wg0"}
  Remote = {"r"}
  RemotePort0 = {}
  HostList <- ReadmeList
  Peer <- Peers
  Unset = Unset
  MaxLines = 3
  SysMayFail = FALSE
CHECK_DEADLOCK FALSE
INVARIANTS
  AllowsAsWritten
