SPECIFICATION FairSpec
CONSTANTS
  Services = {s1}
  Requests = {r1}
  Boot = boot
  None = none
  Operations = {"update"}
PROPERTY CloseStopsLoop
CHECK_DEADLOCK FALSE
