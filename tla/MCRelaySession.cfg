CONSTANTS
  Requests = {r1}
  Capacity = 2
  MaxMsgs = 3
  NoRequest = NoRequest
SPECIFICATION FairSpec
INVARIANTS
  OneTerminalPerReply
  CleanEndIsComplete
  NoOrphanedCaller
PROPERTIES
  KeepsReplyPromise
  CallerReturns
  SlotReleased
CHECK_DEADLOCK FALSE
