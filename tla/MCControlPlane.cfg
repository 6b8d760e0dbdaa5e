SPECIFICATION DaemonFairSpec
CONSTANTS
  Null = Null
  MaxProcessIds = 3
  MaxWaiting = 2
PROPERTIES
  TurnsGiveOneTunnel
  TurnsKeepTrack
  DisconnectTakesEffect
