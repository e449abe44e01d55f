CONSTANTS
  p1 = p1
  p2 = p2
  s1 = s1
  m1 = m1
  m2 = m2
  Providers = {p1, p2}
  AtStart = {p1}
  Priority <- SamePriority
  Sessions = {s1}
  NoSession = NoSession
  Models = {m1, m2}
  ModelOf <- ModelOfEach
  Requests = {r1, r2}
  Workers = {w1}
  EventBuffer = 1
  TTL = 1
  MaxKeys = 1
  CursorTop = 2
  MaxChanges = 2
  None = None
SPECIFICATION FairSpec
INVARIANTS
  CursorsBounded
PROPERTIES
  ChosenIsReady
  StaysAtHome
  LostBindingsEnd
CHECK_DEADLOCK FALSE
