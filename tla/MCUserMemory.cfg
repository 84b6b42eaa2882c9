SPECIFICATION HeapSpec
CONSTANTS
  Proc = {wm, c1, c2}
  WM = wm
  Client = c1
  Machines <- MCMachines
  Frames = {f1, f2, f3, f4, f5, f6}
  None = None
  NULL = NULL
  PAGE_SIZE = 4
  InitialBreak = 4
  Increments = {6}
  SharedPages = 2
  MaxPage = 5
  HeaderSize = 1
  MIN_SPLIT = 1
  ALIGNMENT = 1
  Requests = {1, 3}
SYMMETRY FrameSymmetry
INVARIANTS
  ClientsIsolated
  BreakBacked
  HeapApart
PROPERTIES
  NoOverwrite
CHECK_DEADLOCK FALSE
