CONSTANTS
  MaxEntries = 5
  MaxOffset = 7
SPECIFICATION FairSearch
INVARIANTS
  SearchIsExact
PROPERTY SearchEnds
CHECK_DEADLOCK FALSE
