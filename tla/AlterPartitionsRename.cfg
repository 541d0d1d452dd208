SPECIFICATION SmallSpec
CONSTANTS
  pa = pa
  pb = pb
  pc = pc
  la = la
  lb = lb
  lc = lc
  Null = Null
  Part = {pa, pb, pc}
  Loc = {la, lb, lc}
  ReadDir <- Dirs
  Todo <- Todos
  CreateSize = 2
  DeleteSize = 1
  MaxAttempts = 2
  MaxChanges = 0
INVARIANT RenameKeepsLocation
CHECK_DEADLOCK FALSE
