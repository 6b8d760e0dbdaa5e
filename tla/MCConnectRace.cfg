SPECIFICATION DaemonSpec
CONSTANTS
  Null = Null
  MaxProcessIds = 2
  MaxWaiting = 2
INVARIANTS
  OneTunnel
