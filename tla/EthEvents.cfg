CONSTANTS
  poller = poller
  setter = setter
  f = f
  g = g
  Functions = {f, g}
  Owner = owner
  Callers = {poller, setter}
  Calls <- Both
  MaxEvents = 3
  MayFail = TRUE
SPECIFICATION Spec
INVARIANTS QueueBounded EventsInOrder CallbackOnlyWhileSet FreshCallbacks NoLostWakeup
PROPERTIES LeftoversFirst
CHECK_DEADLOCK FALSE
