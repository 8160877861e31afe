SPECIFICATION Spec
SYMMETRY Interchangeable
CONSTANTS
  f1 = f1
  f2 = f2
  junk = junk
  PoolSize = 2
  Fds <- MCFds
  KernelFds <- MCKernelFds
  Pages = {0, 1}
  Content = {0}
  Zero = 0
  NoPage = NoPage
  GarbageEntries <- MCGarbage
  InitialDisks <- MCDisks
  ForcePages = {0, 1}
  ReadMayFail = TRUE
  FdReuse = FALSE
  MaxPins = 2
INVARIANTS
  TypeOK
  SlotPartition
  HashAgrees
