SPECIFICATION SmallSpec
CONSTANTS
  pa = pa
  pb = pb
  pc = pc
  la = la
  lb = lb
  lc = lc
  Null = Null
  Part = {pa, pb, pc}
  Loc = {la, lb, lc}
  ReadDir <- Dirs
  Todo <- Todos
  CreateSize = 2
  DeleteSize = 1
  MaxAttempts = 2
  MaxChanges = 1
INVARIANTS TypeOK DoneInOrder FailsAsAWhole RepairIsComplete
PROPERTIES TableChangesStay StatementEnds
CHECK_DEADLOCK FALSE
