SPECIFICATION FairSpec
CONSTANTS
  w1 = w1
  w2 = w2
  a1 = a1
  a2 = a2
  NoKey = NoKey
  Torn = Torn
  Wallets = {w1, w2}
  Addrs = {a1, a2}
  MaxAttempts = 2
  MaxSessions = 3
  MaxStatics = 2
  MaxFaults = 1
CHECK_DEADLOCK FALSE
INVARIANTS
  Agreement
  AnswersItsPeer
  FreshSessions
  PinLasts
PROPERTIES
  ComesUp
