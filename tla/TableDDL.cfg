SPECIFICATION SmallSpec
CONSTANTS
  c1 = c1
  c2 = c2
  Null = Null
  Unread = Unread
  Other = Other
  Conn = {c1, c2}
  ConnScoped = {c2}
  MaxChanges = 2
INVARIANTS DdlTypeOK KindKept SchemaOfEntry SchemaInfoFresh
PROPERTIES EditsStay
CHECK_DEADLOCK FALSE
