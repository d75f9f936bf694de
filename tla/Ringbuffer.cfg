SPECIFICATION Spec
CONSTANTS
  Elems = {1, 2}
  ExpandDelta = 2
  InitialCap = 3
  MaxCap = 4
INVARIANTS TypeOK HeadFollowsTail
PROPERTY DequeSpec
CHECK_DEADLOCK FALSE
