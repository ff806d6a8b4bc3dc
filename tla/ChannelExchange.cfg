CONSTANTS
  MaxRequestN = 3
  MaxSafe = 8
  Demands = {1, 4, 17}
  MaxCalls = 2
  MaxLosses = 2
  Items = 3
SPECIFICATION LiveSpec
INVARIANTS
  TypeOK
  CreditIsConserved
  PrefetchIsBounded
  SourceIsReleased
PROPERTIES
  EndIsFinal
  ChannelSettles
CHECK_DEADLOCK FALSE
