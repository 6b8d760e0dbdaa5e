SPECIFICATION FairTunnelSpec
CONSTANTS
  p1 = p1
  p2 = p2
  a1 = a1
  a2 = a2
  ip1 = ip1
  None = None
  Peers = {p1, p2}
  Addrs = {a1, a2}
  IPs = {ip1}
  V4 = {ip1}
  MaxSessions = 2
  MaxStarts = 2
  Sources <- MCSources
INVARIANTS
  LostOnlyToSuccessor
PROPERTIES
  ServedEventually
