SPECIFICATION Spec
CONSTANTS
  BuffCap = 3
  MaxBytes = 6
INVARIANTS TypeOK UsedAsAllocated NothingHeldBack
PROPERTIES SplitsLines LinesArrive
CHECK_DEADLOCK FALSE
