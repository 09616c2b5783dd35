SPECIFICATION Spec
CONSTANTS
  Dialects = {"sqlite", "server"}
  Databases = {"empty", "old", "current", "coreless"}
  Forms = TRUE
  Faults = {"crash", "error"}
INVARIANTS TypeOK UnitsRight OneCoreRow SettledHasAdmin
PROPERTIES KeepsServices KeepsMeasurements
