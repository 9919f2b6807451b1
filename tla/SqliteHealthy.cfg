SPECIFICATION HealthySpec
CONSTANTS
  Thread = {t1, t2}
  Conv = {c1}
  Msg = {m1, m2, m3}
  MaxBatch = 2
  MaxIndex = 4
  AutoUpload = TRUE
  NoOne = NoOne
  NoRow = NoRow
PROPERTY AddReturns
CHECK_DEADLOCK FALSE
