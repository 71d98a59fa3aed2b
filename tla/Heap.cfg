CONSTANTS
  HeapSize = 22
  HEAP_BLOCK_SIZE = 4
  HeaderSize = 1
  Requests = {1, 3, 7}
  Remote = TRUE
SPECIFICATION Spec
INVARIANTS TypeOK Tiling HeldExactly
PROPERTIES FailsOnlyIfFull AllocEnds
