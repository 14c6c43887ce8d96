SPECIFICATION FairSpec
CONSTANTS
    r1 = r1
    r2 = r2
    r3 = r3
    RRM_NUM_LOCKS = 2
    Readers = {r1, r2, r3}
    Writers = {w1, w2}
    Tags = {g1, g2}
    PrioReaders = {r3}
    TD_LOCK <- TwoLocks
    MaxDepth = 2
    None = None
INVARIANTS
    CountsMatchHolds
    WriterExcludesReaders
    ReentrantNeverSleeps
PROPERTIES
    WritersEnter
