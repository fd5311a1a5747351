\* The two boot threads and one child
CONSTANTS
    MAX_THREAD_COUNT = 3
    THREAD_NULL = THREAD_NULL
SPECIFICATION Spec
INVARIANTS ReadyIsQueued
