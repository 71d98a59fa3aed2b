CONSTANTS
  PhysicalCores = {p1, p2}
  ServiceIDs = {s1, s2}
  Messages = {m1, m2}
  MaxCapsules = 2
  MailboxBound = 2
  None = None
SYMMETRY MCSymmetry
SPECIFICATION Spec
INVARIANTS TypeOK OwnerAllowed
PROPERTY NoTakeover
