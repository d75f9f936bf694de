SPECIFICATION Spec
CONSTANTS
  Users = {"a", "b"}
  Threads = {"alice", "bob"}
  UserOf <- MCUserOf
  Names = {"x", "y"}
  Commands = {"subscribe", "delete"}
  MaxChannels = 2
  MaxCommands = 4
PROPERTIES DeleteKeepsOthers
CHECK_DEADLOCK FALSE
