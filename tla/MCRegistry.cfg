CONSTANTS
  Providers = {p1}
  Conns = {c1, c2}
  Workers = {w1, w2}
  Subscribers = {s1}
  SubBuffer = 1
  MaxTime = 3
  NoEntry = NoEntry
SPECIFICATION FairSpec
INVARIANTS
  CooldownHasItsTimer
  NoSendOnClosedChannel
PROPERTIES
  CallbackEndsOnlyItsCooldown
  CoolingEnds
