CONSTANTS
  x = x
  y = y
  a = a
  u = u
  Packets <- Service
  Copies = 1
  Together <- AllAtOnce
  DirectCalls = {}
  Ids = {a, u}
  RecordTables = {a}
  DataShapes <- Shapes
  Addressable = {x}
  Consumers = 2
  BUFFLEN = 2
  DBMayFail = FALSE
  TIME_SIMU_LAST = 3
  PARAMTER_REQUEST_LAST = 3
  ROWS = 8
  SEQUENCES = 1
SPECIFICATION FairSpec
INVARIANTS AckMeansRegistered
PROPERTIES EveryPacketHandled SubscribersServed
CHECK_DEADLOCK FALSE
