\* Builds in pages of a multiple of the alignment, as the default page is.
SPECIFICATION Spec
CONSTANTS
  PageSize = 128
  HeaderSize = 16
  BuildSize = 32
  Alignment = 8
  Cases <- BuilderCases
  NotUtf8 <- MCNotUtf8
CHECK_DEADLOCK FALSE
INVARIANT BuiltAsOrdinary
