CONSTANTS
  MaxRequestN = 3
  MaxSafe = 5
  Demands = {1, 4, 11}
  MaxCalls = 3
  MaxLosses = 1
  Items = 4
SPECIFICATION LiveSpec
INVARIANTS
  TypeOK
  CreditIsConserved
  PublisherOwesTheDemand
  CancelIsTheLastWord
  OutageQueueIsBounded
PROPERTIES
  DemandIsServed
  CancelReachesPublisher
CHECK_DEADLOCK FALSE
