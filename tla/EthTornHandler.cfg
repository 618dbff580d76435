CONSTANTS
  poller = poller
  setter = setter
  f = f
  g = g
  Functions = {f, g}
  Owner = owner
  Callers = {setter}
  Calls <- Replacing
  MaxEvents = 1
  MayFail = FALSE
SPECIFICATION Spec
INVARIANTS CallbackGetsItsExtra
CHECK_DEADLOCK FALSE
