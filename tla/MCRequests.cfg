CONSTANTS
  Configs <- MCConfigs
  FirstRequests <- MCFirstRequests
  Turns <- MCTurns
  Wishes <- MCWishes
  MaxChanges = 2
SPECIFICATION Spec
INVARIANTS
  ValidationSuffices
  SentIsSupported
PROPERTIES
  MoreAskedMoreGiven
  HistoryIsStable
CHECK_DEADLOCK FALSE
