SPECIFICATION Spec
CONSTANTS
  CheckinIds = {c1}
  Requests = {r1, r2}
  Period = 2
  Faults = {"read", "write"}
INVARIANTS TypeOK SilenceReported OnlyLateReported OrphansOverlooked
SYMMETRY Symmetry
PROPERTY KeepsWatch
