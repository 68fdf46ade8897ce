SPECIFICATION FairSpec
CONSTANTS
  Pubs = {p1, p2, p3}
  NoPub = NoPub
  SinkFails = TRUE
  MaxCrashes = 1
  MaxPanics = 1
INVARIANTS
  DeliveredIsDurable
  OutcomeMatchesDelivery
  
PROPERTY
  PublishReturns
  
CHECK_DEADLOCK FALSE
