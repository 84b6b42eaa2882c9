SPECIFICATION Spec
CONSTANTS
  SS = 2
  FPS = 4
  MAX_FAT16 = 3
  MAX_DIR = 8
  BODY = 2
  EXT = 1
  Sep = {"/"}
  Illegal = {"*", ":"}
  Upper <- FatUpper
  None = None
  NoDrive = NoDrive
  Fil = {f1, f2}
  NameOf <- NamesOfPaths
  Cases <- FatCases
INVARIANTS
  FatSound
  DataIntact
  PositionsRight
  Answers
  SyncedAtRest
  WindowCoherent
  TreeExact
SYMMETRY FilSymmetry
CHECK_DEADLOCK FALSE
