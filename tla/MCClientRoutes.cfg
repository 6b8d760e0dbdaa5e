SPECIFICATION FairSpec
CONSTANTS
  g1 = g1
  g2 = g2
  g3 = g3
  None = None
  Gateways = {g1, g2, g3}
  MaxFaults = 6
INVARIANTS
  NoLoop
  LeftBehind
PROPERTIES
  SweepsAll
  Reconnects
