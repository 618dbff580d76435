CONSTANTS
  first = first
  second = second
  Callers = {first, second}
  CallsEach <- Uneven
  WireBound = 1
  Timeouts = {0}
SPECIFICATION FairSpec
PROPERTIES CloseEnds
CHECK_DEADLOCK FALSE
