SPECIFICATION Spec
CONSTANTS
  a = a
  b = b
  Requests = {a, b}
  GroupIds = {1, 2}
  Intervals = {0, 1}
  Keep = keep
  MaxEdits = 4
INVARIANT LoopHasInterval
CHECK_DEADLOCK FALSE
