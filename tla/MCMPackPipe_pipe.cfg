\* Every kind of element through every kind of writer and reader.
SPECIFICATION Spec
CONSTANTS
  PageSize = 91
  HeaderSize = 16
  BuildSize = 32
  Alignment = 8
  Cases <- PipeCases
  NotUtf8 <- MCNotUtf8
CHECK_DEADLOCK FALSE
INVARIANTS
  WritesReference
  ReadsBack
  TrackingTellsMisuse
