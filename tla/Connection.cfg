SPECIFICATION FairSpec
CONSTANTS
  Senders = {"s1"}
  QueueCap = 2
  MaxCalls = 1
  MaxSends = 1
INVARIANTS TypeOK SocketClosedOnce DeletedIsQuiescent 
PROPERTIES OutboxSpec 
CHECK_DEADLOCK FALSE
