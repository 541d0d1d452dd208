SPECIFICATION SameScopeSpec
CONSTANTS
  c1 = c1
  t1 = t1
  t2 = t2
  Thread = {c1, c2}
  Conn = {c1, c2}
  ConnOf <- OwnThreads
  Key = {k1}
  Alias = {a}
  Remote = {r}
  Slot = {s1, s2, s3, s4, s5}
  Null = Null
  Unlocked = Unlocked
  MaxCache = 3
  MaxAttach = 1
  MaxVersion = 1
  FirstPage = {k1}
  MaxRoundTrips = 2
INVARIANTS LookupTypeOK FreshLookup RepeatableLookup BulkCost
CHECK_DEADLOCK FALSE
SYMMETRY Symmetry
