SPECIFICATION Spec
CONSTANTS
  p1 = p1
  p2 = p2
  w1 = w1
  w2 = w2
  u1 = u1
  u2 = u2
  u3 = u3
  t1 = t1
  t2 = t2
  t3 = t3
  None = None
  Procs = {p1, p2}
  Wallets = {w1, w2}
  Users = {u1, u2, u3}
  Tokens = {t1, t2, t3}
  MaxSlots = 2
  MaxBlocks = 4
  MaxChallenges = 1
SYMMETRY MCSymmetry
INVARIANTS
  ChainVerifies
  JoinedOnce
  SessionOnRecord
  WithinSlots
PROPERTIES
  WalletStays
  AppendOnlySpec
