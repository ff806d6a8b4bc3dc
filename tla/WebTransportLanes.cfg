CONSTANTS
  Streams = {1}
  ReorderLimit = 2
  RequesterWrites = 4
  ResponderWrites = 2
  ResumedWrites = 3
  MaxLanes = 2
SPECIFICATION LiveSpec
INVARIANTS
  TypeOK
  FramesArriveOnTheirLane
  MappedLaneIsWritable
  LanesAreReleased
PROPERTIES
  GlobalOrder
  EveryFrameSettles
CHECK_DEADLOCK FALSE
