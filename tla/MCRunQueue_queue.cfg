\* The two boot threads and two children
CONSTANTS
    MAX_THREAD_COUNT = 4
    THREAD_NULL = THREAD_NULL
SPECIFICATION FairSpec
INVARIANTS TypeOK QueueUsable OnlyCurrentRuns
PROPERTIES DeadStaysDead LossNeedsDoubleQueueing PickEnds
