SPECIFICATION FairSpec
CONSTANTS
  Senders = {"s1"}
  QueueCap = 2
  MaxCalls = 0
  MaxSends = 1
PROPERTY QueuedIsSent
CHECK_DEADLOCK FALSE
