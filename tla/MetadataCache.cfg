SPECIFICATION SmallSpec
CONSTANTS
  c1 = c1
  t1 = t1
  t2 = t2
  a1 = a1
  a2 = a2
  r1 = r1
  r2 = r2
  Thread = {t1, t2}
  Conn = {c1}
  ConnOf <- TwoThreads
  Key = {k}
  Alias = {a1, a2}
  Remote = {r1, r2}
  Slot = {s1, s2, s3, s4}
  Null = Null
  Unlocked = Unlocked
  MaxCache = 2
  MaxAttach = 2
  MaxVersion = 2
INVARIANTS TypeOK Fresh FetchedOnce
CHECK_DEADLOCK FALSE
