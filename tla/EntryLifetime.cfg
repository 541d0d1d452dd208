SPECIFICATION Spec
CONSTANTS
  Conn = {c1, c2, c3}
  Name = {n1, n2}
  SchemaObj = {s1}
  TableObj = {t1, t2}
  Root = Root
  Empty = Empty
  Moved = Moved
  Unlocked = Unlocked
  MaxSequence = 3
SYMMETRY Symmetry
INVARIANTS
  TypeOK
  NoUseAfterFree
  SchemaOutlivesTables
  SingleOwner
  NullSlotHidden
  NoRetiredLeak
PROPERTY
  ImplementsReclamation
CHECK_DEADLOCK FALSE
