SPECIFICATION Spec
CONSTANTS
  User = {u1, u2}
  Turn = {t1, t2}
  StmsPerLtm = 2
  None = None
SYMMETRY Symmetry
INVARIANTS PrivateStaysOut 
CHECK_DEADLOCK FALSE
