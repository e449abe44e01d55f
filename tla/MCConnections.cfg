CONSTANTS
  Providers = {p1}
  Sessions = {s1, s2, s3}
  NoSession = NoSession
SPECIFICATION FairSpec
INVARIANTS
  NoLostSession
  RegistryAgrees
PROPERTIES
  CleanupSparesNewSession
  StopReturns
CHECK_DEADLOCK FALSE
