SPECIFICATION Spec
CONSTANTS
  Users = {"a", "b"}
  Threads = {"alice", "bob", "bob2"}
  UserOf <- MCUserOf
  Names = {"x", "y"}
  Commands = {"subscribe", "unsubscribe", "delete", "list_users"}
  MaxChannels = 3
  MaxCommands = 5
INVARIANTS TypeOK NamesUnique OnePerName RegisteredIsUsed
CHECK_DEADLOCK FALSE
