CONSTANTS
  old = old
  new = new
  admin = admin
  viewer = viewer
  Callers = {admin, viewer}
  Script <- Both
  Devices = {old, new}
  Factory <- Two
  QUERYCOUNT = 2
SPECIFICATION Spec
INVARIANTS ActiveIsReported
CHECK_DEADLOCK FALSE
