\* Any bytes behind the identity literal.
SPECIFICATION FairSpec
CONSTANTS
  Dealer = dealer
  Clients = {client}
  Nobody = nobody
  Targets <- NobodyOnly
  LiteralTails <- Unknown
  Capacity = 2
  MaxFrames = 2
  MaxMessages = 2
PROPERTIES
  DealerAnswered
CHECK_DEADLOCK FALSE
