CONSTANTS
  first = first
  second = second
  Callers = {first, second}
  CallsEach <- Uneven
  WireBound = 1
  Timeouts = {0}
SPECIFICATION FairSpec
PROPERTIES LimitedCallsReturn
CHECK_DEADLOCK FALSE
