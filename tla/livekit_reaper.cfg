SPECIFICATION Spec
CONSTANTS
  NumWorkers = 1
  Capacity = 1
  QueueSize = 0
  NumSessions = 1
  Deleters <- MCDeleters
INVARIANT
  ReaperSurvives
CHECK_DEADLOCK FALSE
