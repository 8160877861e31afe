SPECIFICATION Spec
CONSTANTS
  d1 = d1
  d2 = d2
  d3 = d3
  junk = junk
  PoolSize = 2
  Fds <- MCFds
  KernelFds <- MCKernelFds
  Files = {file}
  NoFile = NoFile
  MaxPages = 2
  Pages <- MCPages
  Bodies = {0, 1}
  Content <- MCContent
  Zero <- MCZero
  NoPage = NoPage
  MaxPins = 1
  ForcePages <- MCForceAll
PROPERTY
  ForceSavesAll
