CONSTANTS
  Settings <- MCSettings
  Overrides <- MCOverrides
  Visitors <- MCVisitors
SPECIFICATION AccessSpec
INVARIANTS
  RestartsAgree
  EnvironmentWins
  AcceptedCanStart
  RenderedKeeps
  LetsInTheRightOnes
