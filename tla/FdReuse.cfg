SPECIFICATION Spec
CONSTANTS
  f1 = f1
  f2 = f2
  junk = junk
  PoolSize = 2
  Fds <- MCFds
  KernelFds <- MCKernelFds
  Pages = {0, 1}
  Content = {0}
  Zero = 0
  NoPage = NoPage
  GarbageEntries <- MCZeroed
  InitialDisks <- MCDisks
  ForcePages = {0}
  ReadMayFail = FALSE
  FdReuse = TRUE
  MaxPins = 2
INVARIANT
  PinnedInPlace
