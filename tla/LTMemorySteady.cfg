SPECIFICATION RetrySpec
CONSTANTS
  Conv = {c1}
  Worker = {w1}
  StmsPerLtm = 2
  Preload = TRUE
  MaxStm = 7
  MaxFailures = 1
  MaxRestarts = 0
INVARIANTS  NeverShort ProfileFoldsOnce
 
CHECK_DEADLOCK FALSE
