SPECIFICATION FairSpec
CONSTANTS
  NumWorkers = 2
  Capacity = 1
  QueueSize = 1
  NumSessions = 2
  Deleters <- MCDeleters
INVARIANTS
  OnePlace
  OwnersAgree
PROPERTIES
  RefusalHasCause
  SessionsEnd
CHECK_DEADLOCK FALSE
