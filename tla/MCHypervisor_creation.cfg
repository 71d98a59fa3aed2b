CONSTANTS
  b = b
  p2 = p2
  m = m
  r1 = r1
  r2 = r2
  None = None
  HIGH_PRIO_TIMESLICES_MAX = 1
  PhysicalCores = {b, p2, m}
  BootCore = b
  SmodeCores = {b, p2}
  Regions = {r1, r2}
  MaxCapsules = 3
  Cpus = 1
  Callers = {b, p2}
  PriorityOf <- MCMixedPriority
  MailboxBound = 1
SPECIFICATION Spec
SYMMETRY MCRegionSymmetry
INVARIANTS TypeOK WorkloadExact RamAccounted BootCapsuleFirst
