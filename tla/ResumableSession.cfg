CONSTANTS
  MaxRequests = 2
  MaxConnections = 3
  ClientCapacity = 3
  ServerCapacities = {1, 2}
SPECIFICATION FairSpec
INVARIANTS
  TypeOK
  RetainedCoversTheGap
  ReportedPositionsAreTruthful
  NeverRefusedOverPositions
  WithdrawnIsNeverSent
PROPERTIES
  ImplementsReliableDelivery
  EveryRequestSettles
CHECK_DEADLOCK FALSE
