SPECIFICATION Spec
CONSTANTS
  Lines <- MCLines
  UserNames <- MCUserNames
INVARIANTS TypeOK ParsedAsDocumented ReadInOneWay
CHECK_DEADLOCK FALSE
