SPECIFICATION Spec

CONSTANTS
  Entries <- HoleMap
  KernelPages <- HoleKernel
  BehindBitmap = {12}
  BITS_PER_BYTE = 4
  PAGE_SIZE = 2

INVARIANTS
  Exclusive
  NoLeak
  NoFalseOom
  CountDrift
