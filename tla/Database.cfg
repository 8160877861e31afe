CONSTANTS
    PoolSize = 2
    MaxPages = 4
    MaxPins = 1
    MaxCalls = 7
    MaxDrops = 1
    Levels = 2
    Names = {a, b}
    IndexNos = {"-1"}
    MaxFiles = 3
    OldDbs <- MCOldDbs
    NoPage = NoPage
    Fds <- MCFds
    KernelFds <- MCKernelFds
    Pages <- MCPages
    Content <- MCContent
    Zero <- MCZero
    Schemas <- MCSchemas
    Junk <- MCJunk
SPECIFICATION Spec
INVARIANTS SlotsKept PinsAccounted NameFinds
CHECK_DEADLOCK FALSE
SYMMETRY MCSymmetry
