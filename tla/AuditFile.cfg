CONSTANTS
  e1 = e1
  e2 = e2
  e3 = e3
  e4 = e4
  None = None
  Events = {e1, e2, e3, e4}
  SIZE = 2
  MaxRestarts = 2
SPECIFICATION Spec
INVARIANTS
  TypeOK
  DamageIsLocal
SYMMETRY Symmetry
CHECK_DEADLOCK FALSE
