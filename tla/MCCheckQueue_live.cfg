SPECIFICATION FairSpec
CONSTANTS
  Services = {s1}
  Requests = {r1, r2}
  Boot = boot
  None = none
  Operations = {"update", "patch", "reorder", "create", "delete", "clear"}
INVARIANTS TypeOK Monitored PanicTakesTwo
PROPERTIES ReturnTakesTwo ClosedForGoodStops KeepsChecking
CHECK_DEADLOCK FALSE
