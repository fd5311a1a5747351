\* Both boot threads and one child, programs of one and two frames
SPECIFICATION Spec
CONSTANTS
    MAX_THREAD_COUNT = 3
    TotalFrame = 7
    Sizes = {0, 1, 2}
    NONE = NONE
PROPERTIES MemoryNeverReturns LeakNeedsFailedFork TrapFrameKept
