CONSTANTS
  c1 = c1
  None = None
  Cores <- MCCores
  BootCore = c1
  SmodeCores <- MCCores
  QueueBound = 2
CHECK_DEADLOCK FALSE
SPECIFICATION InterruptedSpec
PROPERTIES
  HvmainReturns
