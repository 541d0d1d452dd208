SPECIFICATION Spec
CONSTANTS
  Ctas = {c1}
  Name = {t}
  Loc = {l1}
  Elsewhere = {e1}
  Old = Old
  Null = Null
SYMMETRY Symmetry
PROPERTY OnlyOwnTables

CHECK_DEADLOCK FALSE
