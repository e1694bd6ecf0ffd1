\* Clients that share two workers, with every kind of frame, in requests of one or two frames.
SPECIFICATION FairSpec
CONSTANTS
  Clients = {c1, c2}
  Workers = {w1, w2}
  Payloads <- AllPayloads
  MaxParts = 2
  MaxRequests = 1
INVARIANTS
  TypeOK
  NeverReceivesOwing
  OneUnderWay
PROPERTIES
  ImplementsRequestReply
  EveryRequestAnswered
CHECK_DEADLOCK FALSE
