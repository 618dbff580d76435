CONSTANTS
  Configurers = {"t1"}
  Requests <- AllKinds
  CallsMade = 3
  Levels <- TwoBits
  Reports <- Others
  ReportsMade = 2
  MayFail = TRUE
SPECIFICATION Spec
INVARIANTS ConfirmedAreReported ViewFollowsDevice
CHECK_DEADLOCK FALSE
