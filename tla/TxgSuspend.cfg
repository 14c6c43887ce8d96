SPECIFICATION FairSpec
CONSTANTS
    NCpus = 1
    Txers = {}
    Waiters = {w1}
    WaitFlags = {"NONE", "SIGNAL", "SUSPEND"}
    FirstTxg = 4
    MaxTxg = 7
    MaxSuspends = 1
PROPERTIES
    SuspendInforms
