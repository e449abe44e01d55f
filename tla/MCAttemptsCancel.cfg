CONSTANTS
  Requests = {r1}
  Providers = {p1, p2}
  None = None
SPECIFICATION FairSpec
PROPERTIES
  CancelCoolsNobody
CHECK_DEADLOCK FALSE
