SPECIFICATION FairSpec
CONSTANTS
  NumReplicas = 2
  Callers <- MCCallers
  NumConns = 2
  Sessions <- MCSessions
  MaxLeases = 2
INVARIANTS
  
  LiveCountIsRight
  CallsKeepTheirLease
PROPERTIES
  ShutdownFinishes
  ConnectionsProgress
CHECK_DEADLOCK FALSE
