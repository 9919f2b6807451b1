SPECIFICATION Spec
CONSTANTS
  Thread = {t1, t2}
  Family = {f1}
  Email = {e1, e2}
  User = {u1, u2, u3}
  Invite = {i1}
  MaxRequests = 4
  MaxRestarts = 1
  None = None
  Torn = Torn
SYMMETRY Symmetry
  
PROPERTY IdentityStays
CHECK_DEADLOCK FALSE
