SPECIFICATION Spec
CONSTANTS
  HeaderSize = 3
  ALIGNMENT = 2
  MIN_SPLIT = 2
  PAGE_SIZE = 8
  Sizes = {3, 5, 12}
  HeapLimit = 48
  NULL = NULL
INVARIANTS
  Tiled
  NoTwoFree
  LiveHasRoom
CHECK_DEADLOCK FALSE
