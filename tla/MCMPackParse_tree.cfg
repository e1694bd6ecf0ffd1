\* Messages in memory, in files and in streams of pieces, whole and broken.
SPECIFICATION FairSpec
CONSTANTS
  NodesPerPage = 8
  BufferCapacity = 6
  MaxPauses = 2
  Cases <- TreeCases
  NotUtf8 <- MCNotUtf8
CHECK_DEADLOCK FALSE
INVARIANTS
  NodesInBounds
  PromisesWithinLimit
  NodesWhole
  ParsesAlike
  AccessorsAnswer
  ErrorsSilence
PROPERTIES
  NodesStay
  ParseEnds
