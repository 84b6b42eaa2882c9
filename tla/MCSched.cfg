SPECIFICATION FairSpec

CONSTANTS
  Root = root
  Task = {root, a, b, c}
  Nil = Nil
  KernelPml4 = KernelPml4
  Junk = Junk
  RootCr3 = Nil
  StackFrames = 3
  MaxPid = 4

INVARIANTS
  ListIsRing
  StacksOwned
  ZombieDetached
  Cr3Safe

PROPERTIES
  EveryTaskRuns
  ImplementsRoundRobin
