CONSTANTS
  Streams <- SomeStreams
  ReplyBuffer = 1
  OutBuffer = 1
SPECIFICATION Spec
INVARIANTS
  CutsDoNotMatter
CHECK_DEADLOCK FALSE
