SPECIFICATION Spec
CONSTANTS
  i1 = i1
  i2 = i2
  r1 = r1
  r2 = r2
  v1 = v1
  v01 = v01
  v2 = v2
  d1 = d1
  d2 = d2
  d3 = d3
  Insert = {i1}
  Row = {r1, r2}
  Values = {v1, v01, v2}
  Dir = {d1, d2, d3}
  ReadAs <- TwoReadAs
  Canonical <- TwoCanonical
  Own <- TwoOwn
  Unwritable = {}
  ColumnsMayDiffer = TRUE
  Null = Null
  MaxAttempts = 1
  MaxRuns = 1
  MaxChanges = 0
INVARIANT OneReader
CHECK_DEADLOCK FALSE
