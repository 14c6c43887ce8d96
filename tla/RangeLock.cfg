SPECIFICATION Spec
CONSTANTS
    Threads = {t1, t2, t3}
    UINT64_MAX = 3
    MaxSize = 2
    MaxAppend = 1
    PAGE_SIZE = 2
    ZvolTypes = {"READER", "WRITER"}
    ZnodeTypes = {"WRITER", "APPEND"}
SYMMETRY Symmetry
INVARIANTS
    TreeMatchesHolders
    SleepersWillBeWoken
PROPERTIES
    AppendLocksEnd
    ImplementsRangeLock
