\* One descriptor less than frames
CONSTANTS
    TotalFrame = 4
    FrameSize = 5
    Descriptors = 3
    WordSize = 64
    LastOrder = 4
    Size <- MCSize
    SLAB_NULL = SLAB_NULL
    slab_sizes <- MCSizes
    Requests <- MCRequests
SPECIFICATION SpecCalls
INVARIANTS CountsExact PagesOwnFrames ListsExact
PROPERTIES ImplementsHeap
