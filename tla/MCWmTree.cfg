SPECIFICATION Spec
CONSTANTS
  MAX_WINDOWS = 3
  ScreenWidth = 5
  ScreenHeight = 3
  NULL = NULL
INVARIANTS
  TreeWellFormed
  PoolPartition
  WindowsTile
