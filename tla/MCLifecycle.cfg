CONSTANTS
  Providers = {p1}
  Sessions = {s1}
  NoSession = NoSession
  Starters = {c1, c2}
  Host = host
  Requests = {r1}
SPECIFICATION FairLifecycle
INVARIANTS
  DrainKeepsProviders
  StopMissesOnlyLateEntries
  ExitIsGraceful
PROPERTIES
  StartReturns
CHECK_DEADLOCK FALSE
