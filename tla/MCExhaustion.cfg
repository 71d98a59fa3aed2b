CONSTANTS
  c1 = c1
  c2 = c2
  None = None
  Cores <- MCCores
  BootCore = c1
  SmodeCores <- MCCores
  QueueBound = 2
CHECK_DEADLOCK FALSE
SPECIFICATION ExhaustionSpec
PROPERTIES
  FailureReported
