SPECIFICATION FairSpec
CONSTANTS
  Users = {"a", "b"}
  Threads = {"alice", "bob", "bob2"}
  UserOf <- MCUserOf
  Names = {"x", "y"}
  Commands = {"subscribe", "unsubscribe", "list_users"}
  MaxChannels = 5
  MaxCommands = 5
INVARIANTS MembershipMirrored NoCircularWait
PROPERTIES CommandsEnd
CHECK_DEADLOCK FALSE
