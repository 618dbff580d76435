CONSTANTS
  t1 = t1
  t2 = t2
  Threads = {t1, t2}
  WireBound = 2
  Suites <- AllSuites
  CallsEach = 1
  Factory <- FactoryRegisters
  Configured <- PinRegisters
  MayFail = TRUE
SPECIFICATION Spec
INVARIANTS EepromWrittenInOrder
PROPERTIES ImplementsRegisters PinDrivenLast
CHECK_DEADLOCK FALSE
