CONSTANTS
  MaxFrameLength = 13
  RequestKinds <- SmallRequests
  ItemShapes <- SmallItems
  MaxRequests = 2
  MaxItems = 2
  MaxInFlight = 2
  MaxNested = 1
SPECIFICATION Spec
INVARIANTS
  FramesArriveInOrder
  PayloadsArriveWhole
CHECK_DEADLOCK FALSE
