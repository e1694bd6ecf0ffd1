SPECIFICATION Spec
CONSTANTS
  Methods <- AddOnly
  Payloads <- OddCalls
  MaxFrames = 2
  MaxMessages = 2
  MaxRecvFailures = 0
  FailFrames = 2
INVARIANTS
  AnsweredOnRequestId
CHECK_DEADLOCK FALSE
