CONSTANTS
  Streams = {1}
  ReorderLimit = 2
  RequesterWrites = 4
  ResponderWrites = 2
  ResumedWrites = 2
  MaxLanes = 2
SPECIFICATION Spec
INVARIANT ResumedLanesAreReleased
CHECK_DEADLOCK FALSE
