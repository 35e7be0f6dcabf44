SPECIFICATION Spec
CONSTANTS
  Servers = {s1, s2}
  Clients = {c1, c2}
  Kinds = {"now", "later"}
  NULL = NULL
  MaxTurns = 1
INVARIANTS
  OneServer
  StatusTellsTruth
  NoLeak
PROPERTIES
  NobodyHangs
  IsRequests
CHECK_DEADLOCK FALSE
