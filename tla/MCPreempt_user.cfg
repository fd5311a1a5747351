\* add_task finds memory
SPECIFICATION Spec
CONSTANTS
    MAX_THREAD_COUNT = 3
    THREAD_NULL = THREAD_NULL
    MallocFails = FALSE
    MaxCount = 3
    MaxTasks = 2
    MaxDepth = 3
INVARIANT UserPreemptible
