CONSTANTS
  a1 = a1
  a2 = a2
  a3 = a3
  c1 = c1
  c2 = c2
  u1 = u1
  a = a
  u = u
  v = v
  w = w
  x = x
  Data = {a1, a2, a3, c1, c2, u1}
  IdOf <- IdOfRecord
  IterOf <- IterOfRecord
  Commands = {c1, c2, u1}
  Reachable = {c1, u1}
  RecordTables = {a}
  DataShapes <- Shapes
  Viewers = {v, w, x}
  Scenes <- EveryScene
  Unlucky = {x}
  OUTPUT_BUFFER_LEN = 1
SPECIFICATION FairSpec
INVARIANTS LiveViewIsExact PageHasAll
PROPERTIES LeaversEnd
CHECK_DEADLOCK FALSE
