CONSTANTS
  PhysicalCores = {p1, p2}
  ServiceIDs = {s1, s2}
  Messages = {m1}
  MaxCapsules = 2
  MailboxBound = 0
  None = None
SPECIFICATION Spec
PROPERTY RegisteredToExisting
