SPECIFICATION LookupFairSpec
CONSTANTS
  c1 = c1
  t1 = t1
  t2 = t2
  Thread = {t1, t2}
  Conn = {c1}
  ConnOf <- TwoThreads
  Key = {k1}
  Alias = {a}
  Remote = {r}
  Slot = {s1, s2, s3}
  Null = Null
  Unlocked = Unlocked
  MaxCache = 1
  MaxAttach = 1
  MaxVersion = 1
  FirstPage = {k1}
  MaxRoundTrips = 2
PROPERTY SetCallEnds
CHECK_DEADLOCK FALSE
