SPECIFICATION Spec
CONSTANTS
  a = a
  b = b
  Requests = {a, b}
  GroupIds = {1, 2}
  Intervals = {0, 1}
  Keep = keep
  MaxEdits = 4
SYMMETRY Symmetry
INVARIANTS TypeOK MissingFromDashboard
PROPERTY OnlyOverlapsUndo
CHECK_DEADLOCK FALSE
