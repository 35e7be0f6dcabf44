SPECIFICATION Spec
CONSTANTS
  Servers = {s1, s2}
  Clients = {c1, c2}
  Kinds = {"now", "bad"}
  NULL = NULL
  MaxTurns = 1
INVARIANTS
  BadIsTold
CHECK_DEADLOCK FALSE
