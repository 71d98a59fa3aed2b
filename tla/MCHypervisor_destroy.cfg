CONSTANTS
  b = b
  p2 = p2
  m = m
  r1 = r1
  r2 = r2
  None = None
  HIGH_PRIO_TIMESLICES_MAX = 1
  PhysicalCores = {b}
  BootCore = b
  SmodeCores = {b}
  Regions = {r1, r2}
  MaxCapsules = 1
  Cpus = 1
  Callers = {}
  PriorityOf <- MCPriority
  MailboxBound = 1
SPECIFICATION Spec
INVARIANT CapsuleOutlivesVirtualCores
