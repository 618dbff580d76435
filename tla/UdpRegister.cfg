CONSTANTS
  x = x
  y = y
  a = a
  u = u
  Packets <- Registrations
  Copies = 3
  Together <- AllAtOnce
  DirectCalls <- MainSubscribes
  Ids = {a, u}
  RecordTables = {a}
  DataShapes <- Shapes
  Addressable = {x, y}
  Consumers = 2
  BUFFLEN = 2
  DBMayFail = FALSE
  TIME_SIMU_LAST = 3
  PARAMTER_REQUEST_LAST = 3
  ROWS = 8
  SEQUENCES = 64
SPECIFICATION Spec
INVARIANTS DuplicatesBounded UniqueSequence
PROPERTIES AckEndsRegistration
CHECK_DEADLOCK FALSE
