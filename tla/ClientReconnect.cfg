CONSTANTS
  MaxAttempts = 4
  MaxCalls = 4
SPECIFICATION Spec
INVARIANTS
  SessionsAreOwned
  DisconnectIsFinal
  WaitersAreServed
CHECK_DEADLOCK FALSE
