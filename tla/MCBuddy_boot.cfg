\* Reserved ranges leave unaligned holes; memory is not a power of two
CONSTANTS
    TotalFrame = 11
    MaxOrder = 4
    FrameSize = 4
    BUDDY_NULL = BUDDY_NULL
    Size <- MCSize
    Orders <- MCOrders
    Regions <- BootRegions
SPECIFICATION FairSpec
INVARIANTS BlocksDisjoint NoFrameLost ReservedBytesKept FreeListsExact
PROPERTIES CallReturns
