SPECIFICATION FairSpec
CONSTANTS
  NumReplicas = 2
  Callers <- MCWorkers
  MaxTasks = 2
  MaxQueueSize = 2
  KeepCount = 1
INVARIANTS
  
  CountersConserve
  RepliesAreOwned
PROPERTIES
  TerminalIsFinal
  TasksEnd
CHECK_DEADLOCK FALSE
