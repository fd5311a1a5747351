\* All interleavings of interrupts, system calls and switches of three threads,
\* up to three frames deep
SPECIFICATION Spec
CONSTANTS
    MAX_THREAD_COUNT = 3
    THREAD_NULL = THREAD_NULL
    MallocFails = TRUE
    MaxCount = 4
    MaxTasks = 2
    MaxDepth = 3
INVARIANTS
    CountCovers
    UnmaskedNeedsSurplus
    UrgentFirst
    LinesComeBack
    PrioExact
    OneTick
