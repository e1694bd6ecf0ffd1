\* Messages within their limits that come in pieces.
SPECIFICATION Spec
CONSTANTS
  NodesPerPage = 8
  BufferCapacity = 6
  MaxPauses = 2
  Cases <- LimitCases
  NotUtf8 <- MCNotUtf8
CHECK_DEADLOCK FALSE
INVARIANT WithinLimitsParsed
