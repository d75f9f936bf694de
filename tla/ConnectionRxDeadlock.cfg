SPECIFICATION FairSpec
CONSTANTS
  Senders = {}
  QueueCap = 2
  MaxCalls = 1
  MaxSends = 0
PROPERTY RxThreadExits
CHECK_DEADLOCK FALSE
