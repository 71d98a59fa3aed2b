CONSTANTS
  Top = 19
  MinSize = 2
  Requests = {1, 3, 4}
  Sections <- MCSections
  Images <- MCImages
  VirtualBases = {0, 5}
  None = None
SPECIFICATION Spec
INVARIANTS TypeOK SortedDisjoint HeldRounded MappingExact
PROPERTIES MergeComplete ImplementsPool LoadStaysInside 
