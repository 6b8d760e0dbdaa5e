SPECIFICATION Spec
CONSTANTS
  p1 = p1
  p2 = p2
  a1 = a1
  a2 = a2
  ip1 = ip1
  ip2 = ip2
  ll1 = ll1
  None = None
  Peers = {p1, p2}
  Addrs = {a1, a2}
  IPs = {ip1, ip2, ll1}
  V4 = {ip1, ip2}
  MaxSessions = 3
  Sources <- MCSources
INVARIANTS
  TableInv
  SealedForOwner
  
  StaleSealedAtMostOnce
