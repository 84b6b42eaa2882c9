SPECIFICATION Spec
CONSTANTS
  NumFrames = 15
  Levels = 3
  Index = {0, 1}
  UserIndex = {0}
  HeapIndex = 1
  Used <- MCUsed
  MaxCreated = 2
INVARIANTS
  TreesDisjoint
PROPERTIES
  ImplementsMaps
CHECK_DEADLOCK FALSE
