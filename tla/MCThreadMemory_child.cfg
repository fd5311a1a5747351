\* A fork copies the frames behind the stacks
SPECIFICATION Spec
CONSTANTS
    MAX_THREAD_COUNT = 3
    TotalFrame = 7
    Sizes = {1}
    NONE = NONE
PROPERTY ChildResumes
