\* Three events, one of them unreadable, against channels of one, two competing
\* gateways and one fault.
SPECIFICATION FairSpec
CONSTANTS
  NumEvents = 3
  Unreadable = {2}
  Workers = {w1}
  OutboxCapacity = 1
  BatchSize = 2
  Gateways = {g1, g2}
  ChannelCapacity = 1
  MaxFaults = 1
  None = None
INVARIANTS TypeOK NoSilentLoss OncePerDelivery NoNeedlessRedelivery
PROPERTY EventuallySettled
CHECK_DEADLOCK FALSE
