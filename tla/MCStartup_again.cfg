SPECIFICATION Spec
CONSTANTS
  Dialects = {"sqlite", "server"}
  Databases = {"empty", "current"}
  Forms = TRUE
  Faults = {}
INVARIANT UnitsRightAfterForm
