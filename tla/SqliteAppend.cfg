SPECIFICATION AppendSpec
CONSTANTS
  Thread = {t1, t2, t3}
  Conv = {c1}
  Msg = {m1, m2, m3, m4}
  MaxBatch = 2
  MaxIndex = 4
  AutoUpload = TRUE
  NoOne = NoOne
  NoRow = NoRow
SYMMETRY Symmetry
INVARIANTS IndexContiguous SharedIndexBound AppendInv
PROPERTIES CommittedStays ImplementsLog
CHECK_DEADLOCK FALSE
