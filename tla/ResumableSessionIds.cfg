CONSTANTS
  MaxRequests = 2
  MaxConnections = 2
  ClientCapacity = 4
  ServerCapacities = {2}
SPECIFICATION Spec
INVARIANT StreamIdsAreSequential
CHECK_DEADLOCK FALSE
