CONSTANTS
  x = x
  y = y
  a = a
  u = u
  Packets <- Dialogues
  Copies = 1
  Together <- OneDialogue
  DirectCalls <- MainSubscribes
  Ids = {a, u}
  RecordTables = {a}
  DataShapes <- Shapes
  Addressable = {x, y}
  Consumers = 2
  BUFFLEN = 2
  DBMayFail = FALSE
  TIME_SIMU_LAST = 4
  PARAMTER_REQUEST_LAST = 5
  ROWS = 8
  SEQUENCES = 1
SPECIFICATION Spec
INVARIANTS TypeOK RepliesAreTrue RepliesAreComplete
CHECK_DEADLOCK FALSE
