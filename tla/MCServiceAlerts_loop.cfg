SPECIFICATION FairSpec
CONSTANTS
  Services = {s1}
  Notifiers = {n1, n2}
  Actors = {loop, edit}
  None = none
  Faulty = {n1}
  UpdateNotify = FALSE
  NotifyAfter = 1
INVARIANTS TypeOK   FirstAlertDelayed
PROPERTIES  RecoveryAnnounced
