SPECIFICATION Spec
SYMMETRY Interchangeable
CONSTANTS
  f1 = f1
  f2 = f2
  junk = junk
  PoolSize = 2
  Fds <- MCFds
  KernelFds <- MCKernelFds
  Pages = {0, 1}
  Content = {0, 1}
  Zero = 0
  NoPage = NoPage
  GarbageEntries <- MCZeroed
  InitialDisks <- MCDisks
  ForcePages = {0, 1}
  ReadMayFail = FALSE
  FdReuse = FALSE
  MaxPins = 2
INVARIANTS
  PinsHonoured
  NoLostUpdate
  ClosedIsDurable
