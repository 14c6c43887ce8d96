SPECIFICATION FairSpec
CONSTANTS
    SCL_LOCKS = 2
    Readers = {r1}
    PrioReaders = {r1}
    Writers = {w1, w2}
    Triers = {r1, w2}
    None = None
INVARIANTS
    WriterAlone
    CountIsExact
    SleepersWillBeWoken
PROPERTIES
    WritersEnter
