\* The server starts at any time; the last call may expire early.
SPECIFICATION FairSpec
CONSTANTS
  FirstSlow = 5
  MaxCalls = 8
INVARIANTS
  TypeOK
  RepliesInOrder
  LagBounded
  RepliesCurrent
  AtMostOneExpires
PROPERTIES
  CallsEnd
CHECK_DEADLOCK FALSE
