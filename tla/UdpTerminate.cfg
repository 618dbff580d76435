CONSTANTS
  x = x
  y = y
  a = a
  u = u
  Packets <- Terminate
  Copies = 1
  Together <- AllAtOnce
  DirectCalls = {}
  Ids = {a, u}
  RecordTables = {a}
  DataShapes <- Shapes
  Addressable = {x, y}
  Consumers = 2
  BUFFLEN = 2
  DBMayFail = FALSE
  TIME_SIMU_LAST = 3
  PARAMTER_REQUEST_LAST = 3
  ROWS = 8
  SEQUENCES = 1
SPECIFICATION Spec
PROPERTIES TerminateUnsubscribes
CHECK_DEADLOCK FALSE
