SPECIFICATION Spec
CONSTANTS
  Ctas = {c1, c2}
  Name = {t, u}
  Loc = {l1, l2}
  Elsewhere = {e1}
  Old = Old
  Null = Null
SYMMETRY Symmetry
INVARIANTS TypeOK NothingLeft OwnRowsOnly RowsStay
PROPERTY RollbackDropsOwn
CHECK_DEADLOCK FALSE
