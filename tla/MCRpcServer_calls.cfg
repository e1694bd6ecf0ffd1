\* Every payload, in messages of one to three frames; a receive that fails.
SPECIFICATION FairSpec
CONSTANTS
  Methods <- AddOnly
  Payloads <- AllPayloads
  MaxFrames = 3
  MaxMessages = 2
  MaxRecvFailures = 1
  FailFrames = 2
INVARIANTS
  TypeOK
  ReplyOnOwnTopic
  OnlyFaultsLoseCalls
  InSync
  RepliesInOrder
PROPERTIES
  ImplementsService
  EveryCallAnswered
CHECK_DEADLOCK FALSE
