SPECIFICATION PairingSpec
CONSTANTS
  d1 = d1
  u = u
  k1 = k1
  k2 = k2
  t1 = t1
  c1 = c1
  p = p
  q = q
  tunnel = tunnel
  plainly = plainly
  zeros = zeros
  None = None
  Daemons = {d1}
  Server = d1
  ClientIds = {k1, k2, t1, c1}
  Nets = {tunnel}
  TunnelNet = tunnel
  GatewayHost = 1
  LeaseStart = 1
  LeaseEnd = 2
  Hosts = {1, 2, 3}
  Spellings = {plainly, zeros}
  Plainly = plainly
  Procs = {p, q}
  Users = {u}
  KeysOf <- MCKeysOf
  Tokens = {t1}
  MaxSlots = 2
  MaxLate = 1
SYMMETRY Symmetric
INVARIANTS
  SharedOnlyBySpelling
  OneStory
  LeaseForDevice
