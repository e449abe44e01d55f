CONSTANTS
  Streams <- SomeStreams
  ReplyBuffer = 1
  OutBuffer = 1
SPECIFICATION FairSpec
INVARIANTS
  InOrder
  CleanEndIsWhole
  SlowClientBlamesNobody
PROPERTIES
  Released
  ReaderGetsAnEnd
CHECK_DEADLOCK FALSE
