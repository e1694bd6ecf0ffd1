\* More messages than both queues and both threads hold, of up to two data frames.
SPECIFICATION FairSpec
CONSTANTS
  Dealer = dealer
  Clients = {client}
  Nobody = nobody
  Targets <- NobodyOnly
  LiteralTails <- Zeros
  Capacity = 2
  MaxFrames = 3
  MaxMessages = 7
INVARIANTS
  TypeOK
  NeverBothBlocked
PROPERTIES
  ImplementsQueue
  EverythingEchoed
  DealerAnswered
CHECK_DEADLOCK FALSE
