SPECIFICATION Spec
CONSTANTS
  g1 = g1
  g2 = g2
  Guards = {g1, g2}
  None = none
  MaxReloads = 2
  MaxAsks = 3
SYMMETRY Symmetry
INVARIANTS TypeOK DashboardIsForAdmins FrontPageFilled DashboardFilled
CHECK_DEADLOCK FALSE
