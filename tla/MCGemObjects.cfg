SPECIFICATION Spec
CONSTANTS
    Objects = {o1, o2}
    None = None
    Threads = {t1, t2}
    Builds = {"dma", "fpga"}
    PoolSizes <- MCPool
    Chunks = 5
    Sizes = {1, 2}
    CarefulClients = TRUE
    MaxHandles = 2
    MaxFiles = 1
    MaxMaps = 1
    MaxFailures = 1
INVARIANTS
    NoUseAfterFree
    UnreachedIsFreed
    MemoryExact
SYMMETRY MCSymmetry
CHECK_DEADLOCK FALSE
