SPECIFICATION Spec
SYMMETRY Interchangeable
CONSTANTS
  d1 = d1
  d2 = d2
  d3 = d3
  junk = junk
  PoolSize = 1
  Fds <- MCFds
  KernelFds <- MCKernelFds
  Files = {file}
  NoFile = NoFile
  MaxPages = 3
  Pages <- MCPages
  Bodies = {0, 1}
  Content <- MCContent
  Zero <- MCZero
  NoPage = NoPage
  MaxPins = 2
  ForcePages = {0, 1}
INVARIANTS
  TypeOK
  OwnedIntact
