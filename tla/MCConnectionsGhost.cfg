CONSTANTS
  Providers = {p1}
  Sessions = {s1, s2}
  NoSession = NoSession
SPECIFICATION Spec
INVARIANTS
  ListedIsOnline
CHECK_DEADLOCK FALSE
