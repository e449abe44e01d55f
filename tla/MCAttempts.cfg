CONSTANTS
  Requests = {r1}
  Providers = {p1, p2, p3}
  None = None
SPECIFICATION FairSpec
INVARIANTS
  EachProviderOnce
  AttemptsReleased
  ErrorOfAnAttemptWins
PROPERTIES
  RequestReturns
CHECK_DEADLOCK FALSE
