CONSTANTS
  MaxRequests = 1
  MaxConnections = 2
  ClientCapacity = 2
  ServerCapacities = {1}
SPECIFICATION Spec
PROPERTY TransportLossOnlySuspends
CHECK_DEADLOCK FALSE
