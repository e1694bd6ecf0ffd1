\* Strings that are matched with themselves.
SPECIFICATION Spec
CONSTANTS
  PageSize = 91
  HeaderSize = 16
  BuildSize = 32
  Alignment = 8
  Cases <- MatchCases
  NotUtf8 <- MCNotUtf8
CHECK_DEADLOCK FALSE
INVARIANT StringsMatch
