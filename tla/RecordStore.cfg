CONSTANTS
  a1 = a1
  a2 = a2
  a3 = a3
  b1 = b1
  b2 = b2
  u1 = u1
  a = a
  b = b
  u = u
  Data = {a1, a2, a3, b1, b2, u1}
  Ids = {a, b, u}
  IdOf <- IdOfRecord
  Width <- WidthOfRecord
  NonFinite = {}
  DirectWriters = {b2}
  RecordTables = {a, b}
  DataShapes <- Shapes
  BUFFLEN = 1
  BATCH = 2
  FlakyTables = {b}
SPECIFICATION FairSpec
INVARIANTS EachRecordInOnePlace LossIsLocal
PROPERTIES WholeBatches ImplementsLog EveryCallReturns SettlesAsPromised
