\* All memory usable; two blocks of the largest order
CONSTANTS
    TotalFrame = 8
    MaxOrder = 2
    FrameSize = 4
    BUDDY_NULL = BUDDY_NULL
    Size <- MCSize
    Orders <- MCOrders
    Regions <- NoRegions
SPECIFICATION FairSpec
INVARIANTS TypeOK LinksAgree Coalesced RefusedWhenFull
PROPERTIES ImplementsFrameAlloc
