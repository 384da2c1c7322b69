SPECIFICATION Spec
CONSTANTS
  Section = {"s", "t"}
  Iface = {"wg0", "wg1"}
  Remote = {"r"}
  RemotePort0 = {"z"}
  HostList <- HostLists
  Peer <- Peers
  Unset = Unset
  MaxLines = 6
  SysMayFail = TRUE
CHECK_DEADLOCK FALSE
INVARIANTS
  TypeOK
  StartsAsWritten
  ListFits
  AllowListCovers
