CONSTANTS
  MaximumBytes = 6
  CompactThreshold = 2
  FrameSizes = {1, 2}
  MaxPosition = 8
SPECIFICATION Spec
INVARIANTS
  TypeOK
  RetainedFramesAreContiguous
  FirstAvailableIsAcknowledged
  RetainedBytesAreExact
  ReplayableExactlyAtBoundaries
  PassMeetsRetainedFrames
PROPERTY ImplementsRetainedLog
CHECK_DEADLOCK FALSE
