SPECIFICATION TermSpec
CONSTANTS
  CW = 2
  CH = 1
  Sizes <- WindowSizes
  FB = 10
  NPARAMS = 2
  OSC_MAX = 3
  OscImage <- ImagePrefix
  Pictures <- ImagePaths
  PicW = 3
  PicH = 1
  Ansi <- Codes
  Output <- Printed
  Budgets <- Cases
INVARIANTS
  GridSafe
  ScreenExact
  DirtyCovers
  ColorsRight
CHECK_DEADLOCK FALSE
