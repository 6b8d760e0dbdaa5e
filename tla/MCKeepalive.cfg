SPECIFICATION FairSpec
CONSTANTS
  None = None
  w = w
  c = c
  e1 = e1
  e2 = e2
  Peers = {w, c}
  OneShot = {c}
  Enrolled = {w}
  Endpoints = {e1, e2}
  MaxAttempts = 4
  MaxSalts = 7
  MaxSeq = 2
  MaxFaults = 2
CHECK_DEADLOCK FALSE
INVARIANTS
  OkMeansHeard
  ReconnectNeedsFault
PROPERTIES
  PingSpec
  AcknowledgedAgain
