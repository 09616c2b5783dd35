SPECIFICATION Spec
CONSTANTS
  t1 = t1
  a = a
  b = b
  x = x
  Tabs = {t1}
  Calls = {a, b}
  Home <- OneTab
  Ids = {1, 2}
  Contents = {x, y}
  Absent = absent
  Public = {y}
  InIdOrder = TRUE
  Start <- Full
  MaxWrites = 2
SYMMETRY Symmetry
INVARIANTS TypeOK AnswersFollowWrites SomeUserRemains
PROPERTY MirrorSpec
CHECK_DEADLOCK FALSE
