SPECIFICATION FairSpec
CONSTANTS
  None = None
  MaxRequests = 2
  Commands = {"toggle"}
  MaxPids = 2
  MaxFaults = 1
CHECK_DEADLOCK FALSE
INVARIANTS
  OneOwnChild
  PidFileNamesChild
  RepeatedOnlyIfKept
  OwnAnswer
PROPERTIES
  StopCompletes
  EveryRequestServed
