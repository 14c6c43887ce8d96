SPECIFICATION Spec
CONSTANTS
    a = a
    b = b
    None = None
    Threads <- MCThreads
    Bounds <- MCBounds
INVARIANTS
    CommitCoversQueue
SYMMETRY Symmetry
CHECK_DEADLOCK FALSE
