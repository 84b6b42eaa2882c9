SPECIFICATION Spec
CONSTANTS
  Root = root
  Task = {root, a, b, c}
  Nil = Nil
  KernelPml4 = KernelPml4
  Junk = Junk
  RootCr3 = Nil
  StackFrames = 3
  MaxPid = 2
PROPERTIES
  TickReapsExited
