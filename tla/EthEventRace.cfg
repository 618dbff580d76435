CONSTANTS
  Configurers = {"t1", "t2"}
  Requests <- OnePort
  CallsMade = 3
  Levels <- TwoBits
  Reports = {}
  ReportsMade = 0
  MayFail = FALSE
SPECIFICATION Spec
INVARIANTS ConfirmedAreReported
CHECK_DEADLOCK FALSE
