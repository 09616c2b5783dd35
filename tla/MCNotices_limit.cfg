SPECIFICATION Spec
CONSTANTS
  Notifiers = {n1}
  Senders = {x1, x2, x3}
  None = none
  Faulty = {n1}
  Limits = 2
SYMMETRY Symmetry
INVARIANTS TypeOK  
