SPECIFICATION FairSpec
CONSTANTS
  MaxTickets = 3
  MaxSeq = 2
  TerminalHistory = 1
  Episodes <- MCEpisodes
  Stateful = TRUE
INVARIANTS
  PolicyIsClean
  OrdersAgree
  InferenceIsProtected
  LossStopsSession
PROPERTIES
  DeliveryRespectsBarriers
  RequestsSettle
  ControlsEnd
CHECK_DEADLOCK FALSE
