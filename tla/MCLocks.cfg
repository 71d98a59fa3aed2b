CONSTANTS
  c1 = c1
  c2 = c2
  None = None
  Cores <- MCCores
  BootCore = c1
  SmodeCores <- MCSmodeCores
  QueueBound = 2
CHECK_DEADLOCK FALSE
SPECIFICATION FairSpec
INVARIANTS
  TypeOK
  LinesWhole
  HardwareExclusive
PROPERTIES
  LocksOrdered
  TextOnce
  HandlersEnd
