SPECIFICATION Spec
CONSTANTS
    NCpus = 2
    Txers = {t1, t2}
    Waiters = {w1}
    WaitFlags = {"SIGNAL"}
    FirstTxg = 4
    MaxTxg = 6
    MaxSuspends = 0
SYMMETRY Symmetry
INVARIANTS
    TypeOK
    PipelineOrder
    HoldersNotSyncing
    StaysOpen
    CallbacksNotLost
    StopFlushes
PROPERTIES
    CallbacksNotEarly
