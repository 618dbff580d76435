CONSTANTS
  first = first
  second = second
  Callers = {first, second}
  CallsEach <- Uneven
  WireBound = 1
  Timeouts = {0}
SPECIFICATION FairSpec
INVARIANTS ReferenceKeepsHandle ReleasedOnce ListInWireOrder RepliesAreOwn NoStrandedReply
PROPERTIES CallsReturn QuietCloseEnds
CHECK_DEADLOCK FALSE
