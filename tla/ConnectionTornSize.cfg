SPECIFICATION Spec
CONSTANTS
  Senders = {"s1"}
  QueueCap = 2
  MaxCalls = 1
  MaxSends = 1
INVARIANT SentInOrder
CHECK_DEADLOCK FALSE
