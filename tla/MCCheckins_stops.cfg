SPECIFICATION FairSpec
CONSTANTS
  CheckinIds = {c1}
  Requests = {r1}
  Period = 1
  Faults = {}
PROPERTY DeletedStops
