SPECIFICATION Spec
CONSTANTS
  Thread = {t1, t2}
  Conv = {c1}
  Msg = {m1, m2, m3}
  MaxBatch = 2
  MaxIndex = 2
  AutoUpload = TRUE
  NoOne = NoOne
  NoRow = NoRow
SYMMETRY Symmetry
INVARIANTS RowsHaveDocuments MarkedIsOnHub
CHECK_DEADLOCK FALSE
