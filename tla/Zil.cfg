SPECIFICATION Spec
CONSTANTS
    a = a
    b = b
    None = None
    Threads <- MCThreads
    Bounds <- MCBounds
INVARIANTS
    CommitIsDurable
    LogIsEmptied
    BlocksNotLeaked
    LwbsInOrder
    NoFreedLwb
    CommitsReturn
SYMMETRY Symmetry
CHECK_DEADLOCK FALSE
