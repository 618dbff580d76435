CONSTANTS
  poller = poller
  setter = setter
  f = f
  g = g
  Functions = {f, g}
  Owner = owner
  Callers = {poller}
  Calls <- OnePoll
  MaxEvents = 1
  MayFail = FALSE
SPECIFICATION FairSpec
PROPERTIES DequeueEndsOnClose
CHECK_DEADLOCK FALSE
